---------------------------- MODULE PackagesProofs ---------------------------
(***************************************************************************)
(* The ParetoQ package and the language training: the block loader, for    *)
(* vocabularies of every size and any number of runs of the runner and of  *)
(* resets; the checkpoints, for every goal, any shapes and any number of   *)
(* kills; and the ring, for any number of stages and tokens and of packets *)
(* damaged, given up and late.                                             *)
(***************************************************************************)
EXTENDS MCPackages, SequenceTheorems, TLAPS

-----------------------------------------------------------------------------
\* A stage that is ready expects no block, whatever the other client sends.

NothingExpected == ready => load.expected = 0

LEMMA NothingExpectedInvariant == Spec => []NothingExpected
<1>1. Init => NothingExpected
    BY DEF Init, NothingExpected
<1>2. ASSUME NothingExpected, [Next]_vars
      PROVE  NothingExpected'
  <2> USE <1>2 DEF NothingExpected
  <2>1. CASE LoadBegin
      BY <2>1 DEF LoadBegin
  <2>2. CASE LoadB64
      BY <2>2 DEF LoadB64, InPlace, Store
  <2>3. CASE PartOfLine
      BY <2>3 DEF PartOfLine, InPlace, Store
  <2>4. CASE LoadChunk
    <3>1. CASE ~ready
        BY <3>1, <2>4 DEF LoadChunk
    <3>2. CASE ready
      <4>1. ~InPlace(Line.n)
          BY <3>2 DEF InPlace
      <4> QED BY <4>1, <2>4 DEF LoadChunk
    <3> QED BY <3>1, <3>2
  <2>5. CASE LoadEnd
    <3>1. NoLoad.expected = 0
        BY DEF NoLoad
    <3> QED BY <2>5, <3>1 DEF LoadEnd
  <2>6. CASE Reset
      BY <2>6 DEF Reset
  <2>7. CASE Info \/ StartBus \/ Start \/ Killed \/ Skips \/ Proceeds \/ OtherClient \/ UNCHANGED vars
      BY <2>7 DEF Info, StartBus, Start, Killed, Skips, Proceeds, OtherClient, board, vars
  <2> QED BY <2>1, <2>2, <2>3, <2>4, <2>5, <2>6, <2>7 DEF Next, BoardStep
<1> QED BY <1>1, <1>2, PTL DEF Spec

(***************************************************************************)
(* The vocabulary of a stage that is ready is not written, neither by a    *)
(* block nor by what is left of its line, with LOADCHUNK in use as well.   *)
(***************************************************************************)
THEOREM ReadyIsNotWritten == Spec => NeverWrittenWhileReady
<1>1. ASSUME NothingExpected, Next
      PROVE  ready /\ ready' => psram' = psram
  <2> SUFFICES ASSUME ready, ready'
               PROVE  psram' = psram
      OBVIOUS
  <2>1. \A n : ~InPlace(n)
      BY <1>1 DEF NothingExpected, InPlace
  <2>2. CASE LoadB64
      BY <2>1, <2>2 DEF LoadB64
  <2>3. CASE PartOfLine
      BY <2>1, <2>3 DEF PartOfLine
  <2>4. CASE LoadChunk
      BY <2>1, <2>4 DEF LoadChunk
  <2>5. CASE Reset
      BY <2>5 DEF Reset
  <2>6. CASE Info \/ LoadBegin \/ LoadEnd \/ StartBus
      BY <2>6 DEF Info, LoadBegin, LoadEnd, StartBus, board
  <2>7. CASE Start \/ Killed \/ Skips \/ Proceeds \/ OtherClient
      BY <2>7 DEF Start, Killed, Skips, Proceeds, OtherClient, board
  <2> QED BY <1>1, <2>2, <2>3, <2>4, <2>5, <2>6, <2>7 DEF Next, BoardStep
<1>2. ASSUME NothingExpected, [Next]_vars
      PROVE  [ready /\ ready' => psram' = psram]_vars
    BY <1>1, <1>2
<1> QED BY <1>2, NothingExpectedInvariant, PTL DEF Spec, NeverWrittenWhileReady

-----------------------------------------------------------------------------
\* The blocks received are in place, in order; a load with a chunk whose bytes did
\* not all come takes no further block.

Lines == [cmd: {"INFO", "LOADBEGIN", "LOADB64", "LOADCHUNK", "LOADEND", "STARTBUS", "part"}, n: 0..Size]

LoadType ==
    /\ load \in [expected: {0, Size}, received: 0..Size \cup {Torn}, active: BOOLEAN]
    /\ ~cut => (load.active <=> load.expected = Size)
    /\ cut => load.expected = 0
    /\ ~load.active => load.expected = 0
    /\ psram \in [1..Size -> {"none", "vocab", "junk"}]

Received == load.received # Torn => \A i \in 1..Size : i <= load.received => psram[i] = "vocab"

LoaderInv ==
    /\ rx \in Seq(Lines)
    /\ runner.offset \in 0..Size
    /\ LoadType
    /\ Received
    /\ ready => (Loaded \/ cut) /\ load.expected = 0

\* A block that is stored goes behind those received, and no further.
LEMMA StoreInPlace ==
    ASSUME LoaderInv, NEW n \in 0..Size, InPlace(n), Store(n, "vocab"), cut' = cut
    PROVE  LoadType' /\ Received' /\ load'.expected = load.expected
<1> USE LoaderAssumption
<1>1. n = load.received /\ n < Size /\ n + 1 \in 1..Size /\ load.received # Torn
    BY DEF LoaderInv, LoadType, InPlace, Torn
<1>2. load' = [load EXCEPT !.received = n + 1] /\ psram' = [psram EXCEPT ![n + 1] = "vocab"]
    BY <1>1 DEF Store
<1>3. LoadType'
  <2>1. n + 1 \in 0..Size
      BY <1>1
  <2>2. psram' \in [1..Size -> {"none", "vocab", "junk"}]
      BY <1>1, <1>2 DEF LoaderInv, LoadType
  <2>3. /\ load' \in [expected: {0, Size}, received: 0..Size \cup {Torn}, active: BOOLEAN]
        /\ load'.active = load.active /\ load'.expected = load.expected
      BY <1>2, <2>1 DEF LoaderInv, LoadType
  <2> QED BY <2>2, <2>3 DEF LoaderInv, LoadType
<1>4. load'.received = n + 1 /\ load'.expected = load.expected
    BY <1>2 DEF LoaderInv, LoadType
<1>5. Received'
  <2> SUFFICES ASSUME NEW i \in 1..Size, i <= n + 1
               PROVE  psram'[i] = "vocab"
      BY <1>4 DEF Received
  <2>1. CASE i = n + 1
      BY <2>1, <1>1, <1>2 DEF LoaderInv, LoadType
  <2>2. CASE i # n + 1
    <3>1. i <= load.received
        BY <2>2, <1>1
    <3>2. psram[i] = "vocab"
        BY <3>1, <1>1 DEF LoaderInv, Received
    <3> QED BY <3>2, <2>2, <1>1, <1>2 DEF LoaderInv, LoadType
  <2> QED BY <2>1, <2>2
<1> QED BY <1>3, <1>4, <1>5

\* Junk goes there as well, and does not count.
LEMMA JunkInPlace ==
    ASSUME LoaderInv, NEW n \in 0..Size, InPlace(n),
           psram' = [psram EXCEPT ![n + 1] = "junk"],
           load' = load \/ load' = [load EXCEPT !.received = Torn], cut' = cut
    PROVE  LoadType' /\ Received' /\ load'.expected = load.expected
<1> USE LoaderAssumption
<1>1. n = load.received /\ n < Size /\ n + 1 \in 1..Size /\ load.received # Torn
    BY DEF LoaderInv, LoadType, InPlace, Torn
<1>2. LoadType'
    BY <1>1 DEF LoaderInv, LoadType
<1>3. load'.expected = load.expected
    BY DEF LoaderInv, LoadType
<1>4. CASE load' = [load EXCEPT !.received = Torn]
  <2>1. load'.received = Torn
      BY <1>4 DEF LoaderInv, LoadType
  <2> QED BY <2>1, <1>2, <1>3 DEF Received
<1>5. CASE load' = load
  <2>1. ASSUME NEW i \in 1..Size, i <= n
        PROVE  psram'[i] = "vocab"
    <3>1. psram[i] = "vocab" /\ i # n + 1
        BY <2>1, <1>1 DEF LoaderInv, Received
    <3> QED BY <3>1 DEF LoaderInv, LoadType
  <2> QED BY <2>1, <1>1, <1>2, <1>3, <1>5 DEF Received
<1> QED BY <1>4, <1>5

\* What is read leaves a sequence of lines, and what is read is a line.
LEMMA LinesStay ==
    ASSUME rx \in Seq(Lines)
    PROVE  /\ rx # <<>> => Line \in Lines /\ Tail(rx) \in Seq(Lines)
           /\ Len(rx) > 1 => SubSeq(rx, 3, Len(rx)) \in Seq(Lines)
           /\ \A l \in Lines : Append(rx, l) \in Seq(Lines) /\ <<l>> \in Seq(Lines)
<1>1. rx # <<>> => Line \in Lines /\ Tail(rx) \in Seq(Lines)
    BY HeadTailProperties DEF Line
<1>2. Len(rx) > 1 => SubSeq(rx, 3, Len(rx)) \in Seq(Lines)
  <2>1. Len(rx) \in Nat /\ \A i \in 3..Len(rx) : rx[i] \in Lines
      BY LenProperties, ElementOfSeq
  <2> QED BY <2>1, SubSeqProperties
<1> QED BY <1>1, <1>2

LEMMA BoardStepKeeps ==
    ASSUME LoaderInv, BoardStep
    PROVE  LoaderInv'
<1> USE LoaderAssumption DEF LoaderInv
<1>1. runner' = runner
    BY DEF BoardStep, Info, LoadBegin, LoadB64, PartOfLine, LoadChunk, LoadEnd, StartBus
<1>2. rx # <<>> /\ Line \in Lines /\ Line.n \in 0..Size
    BY LinesStay DEF Lines, BoardStep, Info, LoadBegin, LoadB64, PartOfLine, LoadChunk, LoadEnd, StartBus, Reads
<1>3. rx' \in Seq(Lines)
  <2>1. CASE PartOfLine
      BY <2>1, LinesStay, <1>2 DEF PartOfLine
  <2>2. CASE ~PartOfLine
      BY <2>2, LinesStay, <1>2 DEF BoardStep, Info, LoadBegin, LoadB64, LoadChunk, LoadEnd, StartBus, Reads
  <2> QED BY <2>1, <2>2
<1>4. LoadType' /\ Received' /\ (ready' => (Loaded' \/ cut') /\ load'.expected = 0)
  <2>1. ASSUME load.expected = 0
        PROVE  \A n : ~InPlace(n)
      BY <2>1 DEF InPlace
  <2>2. CASE Info \/ StartBus
    <3>1. UNCHANGED <<ready, load, psram, cut>>
        BY <2>2 DEF Info, StartBus, board
    <3> QED BY <3>1 DEF LoadType, Received, Loaded
  <2>3. CASE LoadBegin
    <3>1. /\ ready' = FALSE /\ psram' = psram /\ cut' = FALSE
          /\ load' = [expected |-> Size, received |-> 0, active |-> TRUE]
        BY <2>3 DEF LoadBegin
    <3> QED BY <3>1 DEF LoadType, Received
  <2>4. CASE LoadB64
    <3>1. CASE InPlace(Line.n)
      <4>1. ready' = ready /\ cut' = cut /\ Store(Line.n, "vocab")
          BY <2>4, <3>1 DEF LoadB64
      <4>2. ~ready
          BY <2>1, <3>1
      <4> QED BY <4>1, <4>2, <3>1, <1>2, StoreInPlace
    <3>2. CASE ~InPlace(Line.n)
      <4>1. UNCHANGED <<ready, load, psram, cut>>
          BY <2>4, <3>2 DEF LoadB64
      <4> QED BY <4>1 DEF LoadType, Received, Loaded
    <3> QED BY <3>1, <3>2
  <2>5. CASE PartOfLine
    <3>1. CASE UNCHANGED <<psram, load>>
        BY <2>5, <3>1 DEF PartOfLine, LoadType, Received, Loaded
    <3>2. CASE /\ InPlace(Line.n)
               /\ \/ psram' = [psram EXCEPT ![Line.n + 1] = "junk"] /\ UNCHANGED load
                  \/ psram' = [psram EXCEPT ![Line.n + 1] = "junk"] /\ load' = [load EXCEPT !.received = Torn]
                  \/ Store(Line.n, "vocab")
      <4>1. ~ready /\ ready' = ready /\ cut' = cut
          BY <2>1, <3>2, <2>5 DEF PartOfLine
      <4>2. LoadType' /\ Received'
        <5>1. CASE Store(Line.n, "vocab")
            BY <4>1, <5>1, <3>2, <1>2, StoreInPlace
        <5>2. CASE ~Store(Line.n, "vocab")
            BY <4>1, <5>2, <3>2, <1>2, JunkInPlace
        <5> QED BY <5>1, <5>2
      <4> QED BY <4>1, <4>2
    <3> QED BY <2>5, <3>1, <3>2 DEF PartOfLine
  <2>6. CASE LoadChunk
    <3>1. CASE UNCHANGED <<ready, load, psram, cut>>
        BY <3>1 DEF LoadType, Received, Loaded
    <3>2. CASE InPlace(Line.n) /\ Store(Line.n, "vocab") /\ ready' = ready /\ cut' = cut
        BY <3>2, <2>1, <1>2, StoreInPlace
    <3>3. CASE /\ InPlace(Line.n) /\ ready' = ready /\ cut' = TRUE
               /\ load' = [load EXCEPT !.expected = 0, !.received = 0]
               /\ psram' \in {psram, [psram EXCEPT ![Line.n + 1] = "junk"]}
      <4>1. load'.expected = 0 /\ load'.received = 0
          BY <3>3 DEF LoadType
      <4>2. psram' \in [1..Size -> {"none", "vocab", "junk"}]
          BY <3>3 DEF LoadType
      <4>3. load' = [expected |-> 0, received |-> 0, active |-> load.active]
          BY <3>3 DEF LoadType
      <4>4. load.active \in BOOLEAN
          BY DEF LoadType
      <4>5. load' \in [expected: {0, Size}, received: 0..Size \cup {Torn}, active: BOOLEAN]
          BY <4>3, <4>4
      <4> QED BY <4>1, <4>2, <4>5, <3>3, <2>1 DEF LoadType, Received
    <3> QED BY <2>6, <3>1, <3>2, <3>3 DEF LoadChunk
  <2>7. CASE LoadEnd
    <3>1. CASE Complete
      <4>1. /\ ready' = TRUE /\ psram' = psram /\ cut' = cut
            /\ load' = [expected |-> 0, received |-> 0, active |-> FALSE]
          BY <2>7, <3>1 DEF LoadEnd, NoLoad
      <4>2. CASE ~cut
        <5>1. load.received = Size /\ Size # Torn
            BY <3>1, <4>2 DEF Complete, LoadType, Torn
        <5>2. Loaded
            BY <5>1 DEF Received, Loaded
        <5> QED BY <4>1, <4>2, <5>2 DEF LoadType, Received, Loaded
      <4> QED BY <4>1, <4>2 DEF LoadType, Received, Loaded
    <3>2. CASE ~Complete
      <4>1. UNCHANGED <<ready, load, psram, cut>>
          BY <2>7, <3>2 DEF LoadEnd
      <4> QED BY <4>1 DEF LoadType, Received, Loaded
    <3> QED BY <3>1, <3>2
  <2> QED BY <2>2, <2>3, <2>4, <2>5, <2>6, <2>7 DEF BoardStep
<1> QED BY <1>1, <1>3, <1>4

LEMMA HostStepKeeps ==
    ASSUME LoaderInv, Start \/ Killed \/ Skips \/ Proceeds \/ OtherClient
    PROVE  LoaderInv'
<1> USE LoaderAssumption DEF LoaderInv
<1>1. UNCHANGED board
    BY DEF Start, Killed, Skips, Proceeds, OtherClient
<1>2. LoadType' /\ Received' /\ (ready' => (Loaded' \/ cut') /\ load'.expected = 0)
    BY <1>1 DEF board, LoadType, Received, Loaded
<1>3. \A c \in {"INFO", "LOADBEGIN", "LOADB64", "LOADCHUNK", "LOADEND", "STARTBUS", "part"}, n \in 0..Size :
          Cmd(c, n) \in Lines
    BY DEF Cmd, Lines
<1>4. 0 \in 0..Size /\ Size \in 0..Size /\ (runner.offset < Size => runner.offset + 1 \in 0..Size)
    OBVIOUS
<1>5. rx' \in Seq(Lines) /\ runner'.offset \in 0..Size
  <2>1. CASE Start
      BY <2>1, <1>3, <1>4, LinesStay DEF Start, Sends
  <2>2. CASE Killed \/ Skips
    <3>1. Closed.offset = 0
        BY DEF Closed
    <3>2. rx' = rx /\ (runner' = Closed \/ runner' = runner)
        BY <2>2 DEF Killed, Skips
    <3> QED BY <3>1, <3>2, <1>4
  <2>3. CASE Proceeds
    <3>1. CASE NextBlock
      <4>1. CASE runner.offset < Size
        <5>1. Append(rx, Cmd("LOADB64", runner.offset)) \in Seq(Lines)
            BY <1>3, LinesStay
        <5>2. Append(rx, Cmd("part", runner.offset)) \in Seq(Lines)
            BY <1>3, LinesStay
        <5>3. runner.offset \in 0..Size /\ runner.offset # Size
            BY <4>1
        <5>4. runner.offset + 1 \in 0..Size /\ 0 \in 0..Size
            BY <4>1, <1>4
        <5>5. CASE /\ rx' = Append(rx, Cmd("LOADB64", runner.offset))
                   /\ runner' = [wait |-> "LOADB64", offset |-> runner.offset + 1]
          <6>1. runner'.offset = runner.offset + 1
              BY <5>5
          <6> QED BY <6>1, <5>1, <5>4, <5>5
        <5>6. CASE rx' = Append(rx, Cmd("part", runner.offset)) /\ runner' = Closed
          <6>1. runner'.offset = 0
              BY <5>6 DEF Closed
          <6> QED BY <6>1, <5>2, <5>4, <5>6
        <5> QED BY <3>1, <5>3, <5>5, <5>6 DEF NextBlock
      <4>2. CASE ~(runner.offset < Size)
        <5>1. Sends("LOADEND", Size)
            BY <3>1, <4>2 DEF NextBlock
        <5>2. Append(rx, Cmd("LOADEND", Size)) \in Seq(Lines)
            BY <1>3, <1>4, LinesStay
        <5> QED BY <5>1, <5>2, <1>4 DEF Sends
      <4> QED BY <4>1, <4>2
    <3>2. CASE Sends("LOADBEGIN", 0) \/ Sends("STARTBUS", Size)
      <4>1. Append(rx, Cmd("LOADBEGIN", 0)) \in Seq(Lines)
          BY <1>3, <1>4, LinesStay
      <4>2. Append(rx, Cmd("STARTBUS", Size)) \in Seq(Lines)
          BY <1>3, <1>4, LinesStay
      <4>3. CASE Sends("LOADBEGIN", 0)
        <5>1. rx' = Append(rx, Cmd("LOADBEGIN", 0)) /\ runner'.offset = 0
            BY <4>3 DEF Sends
        <5> QED BY <5>1, <4>1, <1>4
      <4>4. CASE Sends("STARTBUS", Size)
        <5>1. rx' = Append(rx, Cmd("STARTBUS", Size)) /\ runner'.offset = Size
            BY <4>4 DEF Sends
        <5> QED BY <5>1, <4>2, <1>4
      <4> QED BY <3>2, <4>3, <4>4
    <3>3. CASE (runner' = Closed \/ runner' = [runner EXCEPT !.wait = "started"]) /\ UNCHANGED rx
      <4>1. runner' = Closed => runner'.offset = 0
          BY DEF Closed
      <4>2. runner' = [runner EXCEPT !.wait = "started"]
                => runner'.offset = runner.offset \/ runner'.offset \in 0..Size
          OBVIOUS
      <4> QED BY <4>1, <4>2, <3>3, <1>4
    <3> QED BY <2>3, <3>1, <3>2, <3>3 DEF Proceeds
  <2>4. CASE OtherClient
      BY <2>4, <1>3, <1>4, LinesStay DEF OtherClient
  <2> QED BY <2>1, <2>2, <2>3, <2>4
<1> QED BY <1>2, <1>5

LEMMA LoaderInvariant ==
    /\ Init => LoaderInv
    /\ LoaderInv /\ [Next]_vars => LoaderInv'
<1> USE LoaderAssumption
<1>1. Init => LoaderInv
    BY EmptySeq DEF Init, LoaderInv, LoadType, Received, NoLoad, NoBlocks, Torn
<1>2. ASSUME LoaderInv, [Next]_vars
      PROVE  LoaderInv'
  <2>1. CASE BoardStep
      BY <2>1, <1>2, BoardStepKeeps
  <2>2. CASE Start \/ Killed \/ Skips \/ Proceeds \/ OtherClient
      BY <2>2, <1>2, HostStepKeeps
  <2>3. CASE Reset
      BY <2>3, <1>2, EmptySeq DEF Reset, LoaderInv, LoadType, Received, NoLoad, NoBlocks, Torn
  <2>4. CASE UNCHANGED vars
      BY <2>4, <1>2 DEF vars, LoaderInv, LoadType, Received, Loaded
  <2> QED BY <1>2, <2>1, <2>2, <2>3, <2>4 DEF Next
<1> QED BY <1>1, <1>2

(***************************************************************************)
(* A stage that says it is ready has its whole vocabulary in place, for    *)
(* every size and any number of interrupted loads and resets, unless the   *)
(* bytes of a LOADCHUNK did not all come.                                  *)
(***************************************************************************)
THEOREM ReadyIsLoaded == Spec => []ReadyMeansLoaded
<1>1. LoaderInv => ReadyMeansLoaded
    BY DEF LoaderInv, ReadyMeansLoaded
<1> QED BY <1>1, LoaderInvariant, PTL DEF Spec

(***************************************************************************)
(* Every line on its way, and every answer to one, goes back to a start of *)
(* the runner, or is the one line of another client: the runner waits for  *)
(* an answer before it sends the next line.                                *)
(***************************************************************************)
AnswerLines ==
    [line: {"INFO", "OK LOADBEGIN", "OK LOADB64", "OK LOAD", "OK STARTBUS", "ERR"}, n: 0..Size + 1 \cup {Torn}]

LinesOfStarts ==
    /\ answers \in Seq(AnswerLines)
    /\ Len(rx) + Len(answers) <= runs + 1
    /\ Len(answers) <= MaxQueue
    /\ runner \in [wait: {"closed", "INFO", "LOADBEGIN", "LOADB64", "LOADEND", "STARTBUS", "started"},
                   offset: 0..Size]
    /\ runs \in 0..MaxRuns /\ resets \in 0..MaxResets
    /\ {ready, cut, bus} \subseteq BOOLEAN
    /\ load.expected = 0 => load.received = 0

LEMMA SaysOne ==
    ASSUME answers \in Seq(AnswerLines), NEW a, NEW n, Answer(a, n) \in AnswerLines, Says(a, n)
    PROVE  /\ answers' \in Seq(AnswerLines) /\ Len(answers') = Len(answers) + 1 /\ Len(answers) \in Nat
           /\ Len(answers') <= MaxQueue
<1> USE LoaderAssumption
<1>1. answers' = Append(answers, Answer(a, n)) /\ Len(answers) < MaxQueue /\ Len(answers) \in Nat
    BY LenProperties DEF Says
<1>2. answers' \in Seq(AnswerLines) /\ Len(answers') = Len(answers) + 1
    BY <1>1, AppendProperties
<1>3. MaxQueue \in Nat
    OBVIOUS
<1> QED BY <1>1, <1>2, <1>3

LEMMA BoardLines ==
    ASSUME LoaderInv, LinesOfStarts, BoardStep
    PROVE  LinesOfStarts'
<1> USE LoaderAssumption
<1>1. /\ rx \in Seq(Lines) /\ rx # <<>> /\ Len(rx) \in Nat /\ Len(answers) \in Nat /\ Line \in Lines
      /\ UNCHANGED <<runner, runs, resets>>
  <2>1. rx # <<>> /\ UNCHANGED <<runner, runs, resets>>
      BY DEF BoardStep, Info, LoadBegin, LoadB64, PartOfLine, LoadChunk, LoadEnd, StartBus, Reads
  <2>2. rx \in Seq(Lines) /\ answers \in Seq(AnswerLines)
      BY DEF LoaderInv, LinesOfStarts
  <2> QED BY <2>1, <2>2, LenProperties, HeadTailProperties DEF Line
<1>2. rx' \in Seq(Lines) /\ Len(rx') \in Nat /\ Len(rx') < Len(rx)
  <2>1. Tail(rx) \in Seq(Lines) /\ Len(Tail(rx)) = Len(rx) - 1
      BY <1>1, HeadTailProperties
  <2>2. Len(rx) > 1 => SubSeq(rx, 3, Len(rx)) \in Seq(Lines) /\ Len(SubSeq(rx, 3, Len(rx))) < Len(rx)
    <3> SUFFICES ASSUME Len(rx) > 1
                 PROVE  SubSeq(rx, 3, Len(rx)) \in Seq(Lines) /\ Len(SubSeq(rx, 3, Len(rx))) < Len(rx)
        OBVIOUS
    <3>1. \A i \in 3..Len(rx) : rx[i] \in Lines
        BY <1>1, ElementOfSeq
    <3>2. SubSeq(rx, 3, Len(rx)) \in Seq(Lines)
        BY <3>1, <1>1, SubSeqProperties
    <3>3. Len(SubSeq(rx, 3, Len(rx))) = IF 3 <= Len(rx) THEN Len(rx) - 3 + 1 ELSE 0
        BY <3>1, <1>1, SubSeqProperties
    <3> QED BY <3>2, <3>3, <1>1
  <2>3. rx' = Tail(rx) \/ (Len(rx) > 1 /\ rx' = SubSeq(rx, 3, Len(rx)))
      BY DEF BoardStep, Info, LoadBegin, LoadB64, PartOfLine, LoadChunk, LoadEnd, StartBus, Reads
  <2>4. CASE rx' = Tail(rx)
      BY <1>1, <2>1, <2>4
  <2>5. CASE Len(rx) > 1 /\ rx' = SubSeq(rx, 3, Len(rx))
    <3>1. rx' \in Seq(Lines) /\ Len(rx') < Len(rx)
        BY <2>2, <2>5
    <3> QED BY <3>1, LenProperties
  <2> QED BY <2>3, <2>4, <2>5
<1>3. \/ UNCHANGED answers
      \/ \E a, n : Answer(a, n) \in AnswerLines /\ Says(a, n)
  <2>1. CASE Info \/ LoadBegin \/ LoadEnd \/ StartBus
    <3>1. \A a \in {"INFO", "OK LOADBEGIN", "OK LOAD", "OK STARTBUS", "ERR"} : Answer(a, 0) \in AnswerLines
      <4>1. 0 \in 0..Size + 1
          OBVIOUS
      <4> QED BY <4>1 DEF Answer, AnswerLines
    <3> QED BY <2>1, <3>1 DEF Info, LoadBegin, LoadEnd, StartBus
  <2>2. CASE LoadB64 \/ PartOfLine
    <3>1. /\ Answer("ERR", 0) \in AnswerLines
          /\ Answer("OK LOADB64", Torn) \in AnswerLines
          /\ Answer("OK LOADB64", Line.n + 1) \in AnswerLines
        BY <1>1 DEF Answer, AnswerLines, Lines
    <3> QED BY <2>2, <3>1 DEF LoadB64, PartOfLine
  <2>3. CASE LoadChunk
      BY <2>3 DEF LoadChunk
  <2> QED BY <2>1, <2>2, <2>3 DEF BoardStep
<1>4. answers' \in Seq(AnswerLines) /\ Len(answers') \in Nat
      /\ Len(answers') <= MaxQueue /\ Len(answers') <= Len(answers) + 1
  <2>1. CASE UNCHANGED answers
      BY <2>1, <1>1 DEF LinesOfStarts
  <2>2. CASE \E a, n : Answer(a, n) \in AnswerLines /\ Says(a, n)
      BY <2>2, <1>1, SaysOne DEF LinesOfStarts
  <2> QED BY <1>3, <2>1, <2>2
<1>5. Len(rx') + Len(answers') <= runs' + 1
    BY <1>1, <1>2, <1>4 DEF LinesOfStarts
<1>6. {ready', cut', bus'} \subseteq BOOLEAN
    BY DEF LinesOfStarts, BoardStep, Info, LoadBegin, LoadB64, PartOfLine, LoadChunk, LoadEnd, StartBus, board
<1>7. load'.expected = 0 => load'.received = 0
  <2>1. load \in [expected: {0, Size}, received: 0..Size \cup {Torn}, active: BOOLEAN]
      BY DEF LoaderInv, LoadType
  <2>2. CASE LoadBegin
      BY <2>2 DEF LoadBegin
  <2>3. CASE UNCHANGED load \/ \E n : InPlace(n) /\ \E r : load' = [load EXCEPT !.received = r]
      BY <2>1, <2>3 DEF LinesOfStarts, InPlace
  <2>4. CASE load' = NoLoad \/ load' = [load EXCEPT !.expected = 0, !.received = 0]
    <3>1. CASE load' = NoLoad
        BY <3>1 DEF NoLoad
    <3>2. CASE load' = [load EXCEPT !.expected = 0, !.received = 0]
      <4>1. load'.received = 0
          BY <2>1, <3>2
      <4> QED BY <4>1
    <3> QED BY <2>4, <3>1, <3>2
  <2>5. CASE LoadB64 \/ PartOfLine \/ LoadChunk
      BY <2>3, <2>4, <2>5 DEF LoadB64, PartOfLine, LoadChunk, Store
  <2>6. CASE Info \/ LoadEnd \/ StartBus
      BY <2>3, <2>4, <2>6 DEF Info, LoadEnd, StartBus, board
  <2> QED BY <2>2, <2>5, <2>6 DEF BoardStep
<1> QED BY <1>1, <1>4, <1>5, <1>6, <1>7 DEF LinesOfStarts

LEMMA HostLines ==
    ASSUME LoaderInv, LinesOfStarts, Start \/ Killed \/ Skips \/ Proceeds \/ OtherClient
    PROVE  LinesOfStarts'
<1> USE LoaderAssumption
<1>1. /\ rx \in Seq(Lines) /\ Len(rx) \in Nat /\ answers \in Seq(AnswerLines) /\ Len(answers) \in Nat
      /\ UNCHANGED <<board, resets>>
    BY LenProperties DEF LoaderInv, LinesOfStarts, Start, Killed, Skips, Proceeds, OtherClient
<1>2. {ready', cut', bus'} \subseteq BOOLEAN /\ (load'.expected = 0 => load'.received = 0)
    BY <1>1 DEF LinesOfStarts, board
<1>3. \A l \in Lines : Len(Append(rx, l)) = Len(rx) + 1
    BY <1>1, AppendProperties
<1>4. Len(<<>>) = 0 /\ <<>> \in Seq(AnswerLines) /\ \A c : Len(<<c>>) = 1
    BY EmptySeq
<1>5. answers # <<>> => Tail(answers) \in Seq(AnswerLines) /\ Len(Tail(answers)) = Len(answers) - 1
    BY <1>1, HeadTailProperties
<1>6. CASE Start
  <2>1. Cmd("INFO", 0) \in Lines
      BY DEF Cmd, Lines
  <2> QED BY <1>1, <1>2, <1>3, <1>4, <1>6, <2>1 DEF Start, Sends, LinesOfStarts
<1>7. CASE Killed
    BY <1>1, <1>2, <1>7 DEF Killed, Closed, LinesOfStarts
<1>8. CASE Skips
    BY <1>1, <1>2, <1>5, <1>8 DEF Skips, Closed, LinesOfStarts
<1>9. CASE Proceeds
  <2>1. /\ answers # <<>> /\ answers' = Tail(answers) /\ UNCHANGED runs
        /\ UNCHANGED rx \/ \E l \in Lines : rx' = Append(rx, l)
    <3>1. /\ Cmd("LOADBEGIN", 0) \in Lines /\ Cmd("LOADEND", Size) \in Lines /\ Cmd("STARTBUS", Size) \in Lines
          /\ Cmd("LOADB64", runner.offset) \in Lines /\ Cmd("part", runner.offset) \in Lines
        BY DEF Cmd, Lines, LinesOfStarts
    <3> QED BY <1>9, <3>1 DEF Proceeds, NextBlock, Sends
  <2>2. runner' \in [wait: {"closed", "INFO", "LOADBEGIN", "LOADB64", "LOADEND", "STARTBUS", "started"},
                     offset: 0..Size]
      BY <1>9 DEF Proceeds, NextBlock, Sends, Closed, LinesOfStarts
  <2>3. Len(rx') <= Len(rx) + 1 /\ Len(rx') \in Nat
      BY <2>1, <1>1, <1>3
  <2> QED BY <1>1, <1>2, <1>5, <2>1, <2>2, <2>3 DEF LinesOfStarts
<1>10. CASE OtherClient
  <2>1. /\ answers' = <<>> /\ UNCHANGED <<runner, runs>>
        /\ \E c : rx' = <<c>>
      BY <1>10 DEF OtherClient
  <2>2. Len(rx') = 1
      BY <2>1, <1>4
  <2>3. MaxQueue >= 0 /\ runs >= 0
      BY DEF LinesOfStarts
  <2> QED BY <1>1, <1>2, <1>4, <2>1, <2>2, <2>3 DEF LinesOfStarts
<1> QED BY <1>6, <1>7, <1>8, <1>9, <1>10

LEMMA LoaderTypes == Spec => []TypeOK
<1> USE LoaderAssumption
<1>0. /\ Len(<<>>) = 0 /\ <<>> \in Seq(AnswerLines)
      /\ MaxQueue >= 0 /\ 0 \in 0..Size /\ 0 \in 0..MaxRuns /\ 0 \in 0..MaxResets
  <2>1. MaxQueue \in Nat /\ MaxRuns \in Nat /\ MaxResets \in Nat /\ Size \in Nat
      OBVIOUS
  <2> QED BY <2>1, EmptySeq
<1>1. Init => LinesOfStarts
  <2> SUFFICES ASSUME Init PROVE LinesOfStarts
      OBVIOUS
  <2>1. /\ rx = <<>> /\ answers = <<>> /\ runs = 0 /\ resets = 0 /\ load.expected = 0 /\ load.received = 0
        /\ {ready, cut, bus} \subseteq BOOLEAN /\ runner = [wait |-> "closed", offset |-> 0]
      BY DEF Init, NoLoad
  <2>2. Len(rx) + Len(answers) <= runs + 1 /\ Len(answers) <= MaxQueue
      BY <1>0, <2>1
  <2> QED BY <1>0, <2>1, <2>2 DEF LinesOfStarts
<1>2. ASSUME LoaderInv, LinesOfStarts, [Next]_vars
      PROVE  LinesOfStarts'
  <2>1. CASE Reset
    <3>1. /\ ready' = FALSE /\ cut' = FALSE /\ bus' = FALSE /\ rx' = <<>> /\ answers' = <<>>
          /\ load'.expected = 0 /\ load'.received = 0
          /\ resets' \in 0..MaxResets /\ UNCHANGED <<runner, runs>>
        BY <2>1, <1>2 DEF Reset, LinesOfStarts, NoLoad
    <3>2. Len(rx') + Len(answers') <= runs' + 1 /\ Len(answers') <= MaxQueue
        BY <1>0, <1>2, <3>1 DEF LinesOfStarts
    <3> QED BY <1>0, <1>2, <3>1, <3>2 DEF LinesOfStarts
  <2>2. CASE UNCHANGED vars
      BY <2>2, <1>2 DEF vars, LinesOfStarts
  <2> QED BY <1>2, <2>1, <2>2, BoardLines, HostLines DEF Next
<1>3. LoaderInv /\ LinesOfStarts => TypeOK
  <2> SUFFICES ASSUME LoaderInv, LinesOfStarts PROVE TypeOK
      OBVIOUS
  <2>1. Len(rx) \in Nat /\ Len(answers) \in Nat
      BY LenProperties DEF LoaderInv, LinesOfStarts
  <2>2. Len(rx) <= MaxRuns + 2
      BY <2>1 DEF LinesOfStarts
  <2> QED BY <2>2 DEF LoaderInv, LoadType, LinesOfStarts, TypeOK
<1> QED BY <1>1, <1>2, <1>3, LoaderInvariant, PTL DEF Spec

-----------------------------------------------------------------------------
\* The checkpoints of training.

\* The arithmetic of a step and of the last step.

LEMMA OneMore ==
    ASSUME NEW k \in Int, NEW s \in Nat
    PROVE  (k + 1) * s = k * s + s
BY SMT

LEMMA Ceilings ==
    ASSUME NEW a \in Nat, a > 0, NEW s \in Nat, s > 0
    PROVE  /\ Train!Ceiling(a, s) \in Nat /\ Train!Ceiling(a, s) > 0
           /\ Train!Ceiling(a, s) * s >= a /\ Train!Ceiling(a, s) * s < a + s
BY SMT DEF Train!Ceiling

-----------------------------------------------------------------------------
\* A checkpoint that can be resumed is of one moment, and counts what it was
\* presented with: itself, or in steps of the old shape.
Exact(c) ==
    /\ c.presented # Train!NoCount => c.presented = c.drawn
    /\ c.whole =>
         /\ c.step \in Nat /\ c.drawn \in Nat
         /\ c.rng = c.weights /\ c.weights = c.drawn
         /\ c.presented = Train!NoCount => c.drawn = c.step * OldShape

FilesExact ==
    /\ files = [n \in Train!Steps |-> files[n]]
    /\ \A n \in Train!Steps : Exact(files[n])

\* A run has drawn what it counts, and its end is that of its target.
RunExact ==
    /\ first \in Nat \ {0} /\ last \in Nat /\ step \in Nat
    /\ before \in Nat /\ target \in Nat /\ shape \in Shapes
    /\ step >= first - 1 /\ step <= last
    /\ drawn = Train!Presented /\ rng = weights /\ weights = drawn
    /\ target > 0 => target > before /\ last = first - 1 + Train!Ceiling(target - before, shape)
    /\ pc = "done" => step = last

CheckpointsInv ==
    /\ pc \in {"off", "train", "save", "temp", "done"}
    /\ FilesExact
    /\ pc # "off" => RunExact

\* A run that begins where its lineage has drawn b tokens in f - 1 steps.
LEMMA BeginExact ==
    ASSUME Train!CheckpointsAssumption, NEW f \in Nat \ {0}, NEW b \in Nat, NEW s \in Shapes,
           Train!Begin(f, b, s),
           drawn' = b, rng' = b, weights' = b
    PROVE  RunExact' /\ pc' = "train"
<1>1. /\ first' = f /\ before' = b /\ shape' = s /\ step' = f - 1 /\ pc' = "train"
      /\ s \in Nat /\ s > 0
    BY DEF Train!CheckpointsAssumption, Train!Begin
<1>2. Train!Presented' = b
  <2>1. Train!Presented' = b + ((f - 1) - f + 1) * s
      BY <1>1 DEF Train!Presented
  <2>2. (f - 1) - f + 1 = 0 /\ 0 * s = 0
      BY <1>1
  <2> QED BY <2>1, <2>2
<1>3. CASE \E goal \in Targets : goal > b /\ target' = goal /\ last' = Train!LastFor(f, b, goal, s)
  <2>1. PICK goal \in Targets : goal > b /\ target' = goal /\ last' = Train!LastFor(f, b, goal, s)
      BY <1>3
  <2>2. goal \in Nat /\ goal - b \in Nat /\ goal - b > 0
      BY <2>1 DEF Train!CheckpointsAssumption
  <2>3. Train!Ceiling(goal - b, s) \in Nat /\ Train!Ceiling(goal - b, s) > 0
      BY <2>2, <1>1, Ceilings
  <2>4. last' = f - 1 + Train!Ceiling(goal - b, s)
      BY <2>1 DEF Train!LastFor
  <2>5. last' \in Nat /\ f - 1 <= last' /\ target' \in Nat
      BY <2>1, <2>2, <2>3, <2>4
  <2>6. target' > before' /\ last' = first' - 1 + Train!Ceiling(target' - before', shape')
      BY <2>1, <2>4, <1>1
  <2> QED BY <1>1, <1>2, <2>5, <2>6 DEF RunExact
<1>4. CASE \E goal \in StepGoals : goal >= f /\ target' = 0 /\ last' = goal
  <2>1. last' \in Nat /\ last' >= f /\ target' = 0
      BY <1>4 DEF Train!CheckpointsAssumption
  <2> QED BY <1>1, <1>2, <2>1 DEF RunExact
<1> QED BY <1>3, <1>4 DEF Train!Begin

LEMMA ResumeExact ==
    ASSUME Train!CheckpointsAssumption, CheckpointsInv, NEW n \in Train!Steps, Train!Resume(n)
    PROVE  CheckpointsInv'
<1> DEFINE c == files[n]
<1>1. c.whole /\ Exact(c)
    BY DEF Train!Resume, CheckpointsInv, FilesExact
<1>2. PICK s \in Shapes : Train!Begin(c.step + 1, Train!PresentedBefore(c, s), s)
    BY DEF Train!Resume
<1>3. Train!PresentedBefore(c, s) = c.drawn
    BY <1>1 DEF Train!PresentedBefore, Exact
<1>4. c.step + 1 \in Nat \ {0} /\ c.drawn \in Nat
    BY <1>1 DEF Exact
<1>5. drawn' = c.drawn /\ rng' = c.drawn /\ weights' = c.drawn
    BY <1>1 DEF Train!Resume, Train!Restored, Exact
<1>6. RunExact' /\ pc' = "train"
    BY <1>2, <1>3, <1>4, <1>5, BeginExact
<1>7. files' = files
    BY <1>2 DEF Train!Begin
<1> QED BY <1>6, <1>7 DEF CheckpointsInv, FilesExact, Exact

LEMMA TrainStepExact ==
    ASSUME Train!CheckpointsAssumption, CheckpointsInv, Train!TrainStep
    PROVE  CheckpointsInv'
<1>1. RunExact /\ pc' \in {"save", "train"} /\ step < last
    BY DEF CheckpointsInv, Train!TrainStep, Train!MoreSteps
<1>2. /\ step' = step + 1 /\ drawn' = drawn + shape /\ rng' = rng + shape
      /\ weights' = weights + shape
      /\ UNCHANGED <<first, last, before, shape, target, files>>
    BY <1>1 DEF Train!TrainStep, Train!run, RunExact
<1>3. Train!Presented' = Train!Presented + shape
  <2> DEFINE taken == (step - first + 1) * shape
  <2>1. /\ shape \in Nat /\ step \in Int /\ first \in Int /\ step - first + 1 \in Int
        /\ step + 1 - first + 1 = (step - first + 1) + 1
      BY <1>1 DEF Train!CheckpointsAssumption, RunExact
  <2>2. ((step - first + 1) + 1) * shape = taken + shape
      BY <2>1, OneMore
  <2>3. taken \in Int /\ before \in Nat
      BY <2>1, <1>1 DEF RunExact
  <2>4. Train!Presented' = before + ((step - first + 1) + 1) * shape
    <3>1. Train!Presented' = before' + (step' - first' + 1) * shape'
        BY DEF Train!Presented
    <3>2. step' - first' + 1 = (step - first + 1) + 1 /\ shape' = shape /\ before' = before
      <4>1. step' = step + 1 /\ first' = first /\ shape' = shape /\ before' = before
          BY <1>2, Zenon
      <4> QED BY <4>1, <2>1
    <3>3. (step' - first' + 1) * shape' = ((step - first + 1) + 1) * shape
        BY <3>2
    <3> QED BY <3>1, <3>2, <3>3
  <2>5. Train!Presented' = before + (taken + shape)
      BY <2>2, <2>4
  <2>6. Train!Presented = before + taken
      BY DEF Train!Presented
  <2> HIDE DEF taken
  <2> QED BY <2>1, <2>3, <2>5, <2>6
<1>4. RunExact'
    BY <1>1, <1>2, <1>3 DEF RunExact
<1> QED BY <1>1, <1>2, <1>4 DEF CheckpointsInv, FilesExact, Exact

LEMMA ReplaceExact ==
    ASSUME Train!CheckpointsAssumption, CheckpointsInv, Train!Replace
    PROVE  CheckpointsInv'
<1> DEFINE c == [step |-> step, presented |-> Train!Presented, weights |-> weights,
                 rng |-> rng, drawn |-> drawn, whole |-> TRUE]
<1>1. /\ RunExact /\ files' = [files EXCEPT ![step] = c]
      /\ UNCHANGED <<first, last, before, shape, target, step, weights, rng, drawn>>
      /\ pc' = IF step < last THEN "train" ELSE "done"
    BY DEF Train!Replace, CheckpointsInv, Train!run, Train!learned, Train!MoreSteps
<1>2. drawn \in Nat /\ Train!Presented = drawn
  <2>1. step - first + 1 \in Nat /\ shape \in Nat /\ before \in Nat
      BY <1>1 DEF Train!CheckpointsAssumption, RunExact
  <2>2. (step - first + 1) * shape \in Nat
      BY <2>1
  <2> QED BY <2>1, <2>2, <1>1 DEF RunExact, Train!Presented
<1>3. Exact(c)
    BY <1>1, <1>2 DEF Exact, RunExact, Train!NoCount
<1>4. FilesExact'
  <2>1. files = [n \in Train!Steps |-> files[n]] /\ \A n \in Train!Steps : Exact(files[n])
      BY DEF CheckpointsInv, FilesExact
  <2>2. files' = [n \in Train!Steps |-> IF n = step THEN c ELSE files[n]]
      BY <1>1, <2>1
  <2>3. \A n \in Train!Steps : files'[n] = IF n = step THEN c ELSE files[n]
      BY <2>2
  <2>4. files' = [n \in Train!Steps |-> files'[n]]
      BY <2>2
  <2>5. \A n \in Train!Steps : Exact(files'[n])
      BY <2>1, <2>3, <1>3
  <2> QED BY <2>4, <2>5 DEF FilesExact, Exact
<1>5. RunExact'
    BY <1>1 DEF RunExact, Train!Presented
<1> QED BY <1>1, <1>4, <1>5 DEF CheckpointsInv

LEMMA CheckpointsInvariant == Train!CheckpointsAssumption => (Train!Spec => []CheckpointsInv)
<1> SUFFICES ASSUME Train!CheckpointsAssumption
             PROVE  Train!Spec => []CheckpointsInv
    OBVIOUS
<1>1. Train!Init => CheckpointsInv
  <2> SUFFICES ASSUME Train!Init
               PROVE  CheckpointsInv
      OBVIOUS
  <2>1. /\ pc = "off"
        /\ files = [n \in Train!Steps |-> IF n = OldStep /\ OldStep > 0 THEN Train!OldFile ELSE Train!NoFile]
      BY DEF Train!Init
  <2>2. Exact(Train!NoFile)
      BY DEF Exact, Train!NoFile
  <2>3. Exact(Train!OldFile)
    <3>1. OldStep \in Nat /\ OldShape \in Nat /\ OldStep * OldShape \in Nat
        BY DEF Train!CheckpointsAssumption
    <3> QED BY <3>1 DEF Exact, Train!OldFile
  <2>4. FilesExact
      BY <2>1, <2>2, <2>3 DEF FilesExact
  <2> QED BY <2>1, <2>4 DEF CheckpointsInv
<1>2. ASSUME CheckpointsInv, [Train!Next]_(Train!vars)
      PROVE  CheckpointsInv'
  <2>1. CASE Train!FromSeed
    <3>1. PICK s \in Shapes : Train!Begin(1, 0, s)
        BY <2>1 DEF Train!FromSeed
    <3>2. RunExact' /\ pc' = "train" /\ files' = files
        BY <2>1, <3>1, BeginExact DEF Train!FromSeed, Train!Begin
    <3> QED BY <3>2, <1>2 DEF CheckpointsInv, FilesExact, Exact
  <2>2. CASE \E n \in Train!Steps : Train!Resume(n)
      BY <2>2, <1>2, ResumeExact
  <2>3. CASE Train!TrainStep
      BY <2>3, <1>2, TrainStepExact
  <2>4. CASE Train!OpenTemp \/ Train!Dies
    <3>1. /\ UNCHANGED <<first, last, before, shape, target, step, weights, rng, drawn, files>>
          /\ pc # "off" /\ pc' \in {"temp", "off"}
        BY <2>4 DEF Train!OpenTemp, Train!Dies, Train!run, Train!learned
    <3> QED BY <3>1, <1>2 DEF CheckpointsInv, FilesExact, Exact, RunExact,
                         Train!Presented
  <2>5. CASE Train!Replace
      BY <2>5, <1>2, ReplaceExact
  <2>6. CASE UNCHANGED Train!vars
      BY <2>6, <1>2 DEF Train!vars, Train!run, Train!learned, CheckpointsInv, FilesExact, Exact, RunExact,
                         Train!Presented
  <2> QED BY <1>2, <2>1, <2>2, <2>3, <2>4, <2>5, <2>6 DEF Train!Next
<1> QED BY <1>1, <1>2, PTL DEF Train!Spec

(***************************************************************************)
(* Every count in a checkpoint is the number of tokens its weights were    *)
(* presented with, whatever shapes its lineage has gone through.           *)
(***************************************************************************)
THEOREM CountsExact == Train!CheckpointsAssumption => (Train!Spec => []Train!AccountingExact)
<1> SUFFICES ASSUME Train!CheckpointsAssumption
             PROVE  Train!Spec => []Train!AccountingExact
    OBVIOUS
<1>1. CheckpointsInv => Train!AccountingExact
    BY DEF CheckpointsInv, FilesExact, Exact, Train!AccountingExact
<1> QED BY <1>1, CheckpointsInvariant, PTL

(***************************************************************************)
(* Weights and generator of a checkpoint belong to one moment.             *)
(***************************************************************************)
THEOREM OneMoment == Train!CheckpointsAssumption => (Train!Spec => []Train!NothingLearnedTwice)
<1> SUFFICES ASSUME Train!CheckpointsAssumption
             PROVE  Train!Spec => []Train!NothingLearnedTwice
    OBVIOUS
<1>1. CheckpointsInv => Train!NothingLearnedTwice
    BY DEF CheckpointsInv, FilesExact, Exact, Train!NothingLearnedTwice
<1> QED BY <1>1, CheckpointsInvariant, PTL

(***************************************************************************)
(* A run that completes passes its target by less than one step.           *)
(***************************************************************************)
THEOREM DoneAtTarget == Train!CheckpointsAssumption => (Train!Spec => []Train!EndsAtTarget)
<1> SUFFICES ASSUME Train!CheckpointsAssumption
             PROVE  Train!Spec => []Train!EndsAtTarget
    OBVIOUS
<1>1. ASSUME CheckpointsInv, pc = "done", target > 0
      PROVE  drawn >= target /\ drawn - target < shape
  <2>1. /\ RunExact /\ step = last /\ target > before
        /\ step - first + 1 = Train!Ceiling(target - before, shape)
    <3>1. /\ RunExact /\ step = last /\ target > before
          /\ last = first - 1 + Train!Ceiling(target - before, shape)
        BY <1>1 DEF CheckpointsInv, RunExact
    <3>2. target - before \in Nat /\ target - before > 0 /\ shape \in Nat /\ shape > 0
        BY <3>1 DEF Train!CheckpointsAssumption, RunExact
    <3>3. Train!Ceiling(target - before, shape) \in Nat
        BY <3>2, Ceilings
    <3> QED BY <3>1, <3>3 DEF RunExact
  <2>2. target - before \in Nat /\ target - before > 0 /\ shape \in Nat /\ shape > 0
      BY <2>1 DEF Train!CheckpointsAssumption, RunExact
  <2> DEFINE drawnHere == Train!Ceiling(target - before, shape) * shape
  <2>3. drawnHere >= target - before /\ drawnHere < target - before + shape
      BY <2>2, Ceilings
  <2>4. drawnHere \in Int
      BY <2>2, Ceilings
  <2>5. drawn = before + drawnHere
      BY <2>1 DEF RunExact, Train!Presented
  <2>6. before \in Nat /\ target \in Nat
      BY <2>1 DEF RunExact
  <2> HIDE DEF drawnHere
  <2> QED BY <2>2, <2>3, <2>4, <2>5, <2>6
<1>2. CheckpointsInv => Train!EndsAtTarget
    BY <1>1 DEF Train!EndsAtTarget
<1> QED BY <1>2, CheckpointsInvariant, PTL

-----------------------------------------------------------------------------
\* Types: a step takes a token at least, so that a run ends before the largest
\* goal has been counted in steps.

LEMMA Largest ==
    ASSUME Train!CheckpointsAssumption
    PROVE  Train!LargestGoal \in Nat \ {0} /\ \A k \in Targets \cup StepGoals : k <= Train!LargestGoal
<1> DEFINE P(n) == n \in Targets \cup StepGoals /\ \A k \in Targets \cup StepGoals : k <= n
<1>1. PICK n \in (Targets \cup StepGoals) \ {0} : P(n)
    BY DEF Train!CheckpointsAssumption
<1>2. Train!LargestGoal = CHOOSE x \in Targets \cup StepGoals : \A k \in Targets \cup StepGoals : k <= x
    BY DEF Train!LargestGoal
<1>3. P(Train!LargestGoal)
    BY <1>1, <1>2
<1>4. Train!LargestGoal \in Nat /\ n \in Nat /\ n # 0 /\ n <= Train!LargestGoal
    BY <1>1, <1>3 DEF Train!CheckpointsAssumption
<1> QED BY <1>3, <1>4

LEMMA AtMostOneEach ==
    ASSUME NEW a \in Nat, a > 0, NEW s \in Nat, s > 0
    PROVE  Train!Ceiling(a, s) <= a
<1>1. Train!Ceiling(a, s) \in Nat /\ Train!Ceiling(a, s) * s < a + s
    BY Ceilings
<1>2. ASSUME NEW q \in Nat, q > a PROVE q * s >= a + s
  <2>1. (q - 1) * s >= q - 1 /\ q * s = (q - 1) * s + s
      BY <1>2, SMT
  <2> QED BY <1>2, <2>1
<1> QED BY <1>1, <1>2

TokensCover ==
    /\ pc # "off" => step <= drawn
    /\ \A n \in Train!Steps : files[n].whole => files[n].step <= files[n].drawn

TypeInv == CheckpointsInv /\ Train!TypeOK /\ TokensCover

LEMMA StepsType ==
    Train!CheckpointsAssumption => Train!LargestGoal + OldStep \in Nat /\ 1 \in Train!Steps /\ 0 \in Train!Steps
BY Largest DEF Train!CheckpointsAssumption, Train!Steps

LEMMA BeginType ==
    ASSUME Train!CheckpointsAssumption, Train!TypeOK, NEW f \in Nat \ {0}, NEW b \in Nat, f - 1 <= b,
           NEW s \in Shapes, Train!Begin(f, b, s), drawn' = b, rng' = b, weights' = b
    PROVE  Train!TypeOK' /\ step' <= drawn'
<1>1. last' \in f..Train!LargestGoal /\ target' \in Targets \cup {0}
  <2>1. CASE \E goal \in Targets : goal > b /\ target' = goal /\ last' = Train!LastFor(f, b, goal, s)
    <3>1. PICK goal \in Targets : goal > b /\ target' = goal /\ last' = Train!LastFor(f, b, goal, s)
        BY <2>1
    <3>2. goal \in Nat /\ goal <= Train!LargestGoal /\ Train!LargestGoal \in Nat /\ s \in Nat /\ s > 0
        BY <3>1, Largest DEF Train!CheckpointsAssumption
    <3>3. goal - b \in Nat /\ goal - b > 0
        BY <3>1, <3>2
    <3>4. /\ Train!Ceiling(goal - b, s) \in Nat
          /\ Train!Ceiling(goal - b, s) > 0 /\ Train!Ceiling(goal - b, s) <= goal - b
        BY <3>2, <3>3, Ceilings, AtMostOneEach
    <3>5. last' = f - 1 + Train!Ceiling(goal - b, s)
        BY <3>1 DEF Train!LastFor
    <3> QED BY <3>1, <3>2, <3>4, <3>5
  <2>2. CASE \E goal \in StepGoals : goal >= f /\ target' = 0 /\ last' = goal
      BY <2>2, Largest DEF Train!CheckpointsAssumption
  <2> QED BY <2>1, <2>2 DEF Train!Begin
<1>2. /\ first' = f /\ before' = b /\ shape' = s /\ step' = f - 1 /\ pc' = "train"
      /\ UNCHANGED <<files, kills>>
    BY DEF Train!Begin
<1>3. /\ first' \in Train!Steps /\ last' \in Train!Steps
      /\ step' \in Train!Steps /\ step' \in (first' - 1)..last'
    BY <1>1, <1>2, Largest DEF Train!CheckpointsAssumption, Train!Steps
<1> QED BY <1>1, <1>2, <1>3 DEF Train!TypeOK

LEMMA TypeSteps ==
    ASSUME Train!CheckpointsAssumption, TypeInv, CheckpointsInv', [Train!Next]_(Train!vars)
    PROVE  TypeInv'
<1> USE DEF TypeInv
<1>1. CASE Train!FromSeed
  <2>1. PICK s \in Shapes : Train!Begin(1, 0, s)
      BY <1>1 DEF Train!FromSeed
  <2>2. Train!TypeOK' /\ step' <= drawn'
      BY <1>1, <2>1, BeginType DEF Train!FromSeed
  <2> QED BY <2>1, <2>2 DEF Train!Begin, TokensCover
<1>2. CASE \E n \in Train!Steps : Train!Resume(n)
  <2>1. PICK n \in Train!Steps : Train!Resume(n)
      BY <1>2
  <2> DEFINE c == files[n]
  <2>2. c.whole /\ Exact(c) /\ c.step <= c.drawn
      BY <2>1 DEF Train!Resume, CheckpointsInv, FilesExact, TokensCover
  <2>3. PICK s \in Shapes : Train!Begin(c.step + 1, Train!PresentedBefore(c, s), s)
      BY <2>1 DEF Train!Resume
  <2>4. Train!PresentedBefore(c, s) = c.drawn /\ c.step \in Nat /\ c.drawn \in Nat
      BY <2>2 DEF Train!PresentedBefore, Exact
  <2>5. drawn' = c.drawn /\ rng' = c.drawn /\ weights' = c.drawn
      BY <2>1, <2>2 DEF Train!Resume, Train!Restored, Exact
  <2>6. Train!TypeOK' /\ step' <= drawn'
    <3>1. Train!Begin(c.step + 1, c.drawn, s) /\ c.step + 1 \in Nat \ {0} /\ c.step + 1 - 1 <= c.drawn
        BY <2>2, <2>3, <2>4
    <3> QED BY <2>4, <2>5, <3>1, BeginType
  <2> QED BY <2>3, <2>6 DEF Train!Begin, TokensCover
<1>3. CASE Train!TrainStep
  <2>1. /\ pc = "train" /\ pc' \in {"save", "train"} /\ step < last /\ step' = step + 1
        /\ drawn' = drawn + shape /\ rng' = rng + shape /\ weights' = weights + shape
        /\ UNCHANGED <<first, last, before, shape, target, files, kills>>
      BY <1>3 DEF Train!TrainStep, Train!MoreSteps, Train!run, CheckpointsInv, RunExact
  <2>2. shape \in Nat /\ shape > 0 /\ RunExact /\ step <= drawn
    <3>1. RunExact /\ step <= drawn
        BY <2>1 DEF CheckpointsInv, TokensCover
    <3> QED BY <3>1 DEF RunExact, Train!CheckpointsAssumption
  <2>3. step' \in Train!Steps /\ step' \in (first' - 1)..last'
      BY <2>1, StepsType DEF Train!TypeOK, Train!Steps
  <2>4. drawn \in Nat /\ rng = drawn /\ weights = drawn
      BY <2>2 DEF RunExact, Train!TypeOK, Train!Presented, Train!CheckpointsAssumption
  <2>5. Train!TypeOK'
      BY <2>1, <2>2, <2>3, <2>4 DEF Train!TypeOK
  <2> QED BY <2>1, <2>2, <2>4, <2>5 DEF TokensCover, Train!TypeOK, Train!Steps
<1>4. CASE Train!OpenTemp
    BY <1>4 DEF Train!OpenTemp, Train!TypeOK, TokensCover, Train!run, Train!learned,
                Train!Steps
<1>5. CASE Train!Dies
    BY <1>5 DEF Train!Dies, Train!CheckpointsAssumption, Train!TypeOK, TokensCover, Train!run, Train!learned,
                Train!Steps
<1>6. CASE Train!Replace
  <2> DEFINE c == [step |-> step, presented |-> Train!Presented, weights |-> weights,
                   rng |-> rng, drawn |-> drawn, whole |-> TRUE]
  <2>1. /\ files' = [files EXCEPT ![step] = c] /\ pc # "off"
        /\ UNCHANGED <<first, last, before, shape, target, step, weights, rng, drawn, kills>>
        /\ pc' \in {"train", "done"}
      BY <1>6 DEF Train!Replace, Train!run, Train!learned
  <2>2. files = [n \in Train!Steps |-> files[n]] /\ step \in Train!Steps
      BY DEF CheckpointsInv, FilesExact, Train!TypeOK
  <2>3. DOMAIN files' = DOMAIN files /\ DOMAIN files = Train!Steps
      BY <2>1, <2>2
  <2>4. \A n \in Train!Steps : files'[n] = IF n = step THEN c ELSE files[n]
      BY <2>1, <2>2
  <2>5. c.step = step /\ c.drawn = drawn
      OBVIOUS
  <2> HIDE DEF c
  <2>6. Train!TypeOK'
      BY <2>1, <2>3, <2>4, <2>5 DEF Train!TypeOK
  <2> QED BY <2>1, <2>4, <2>5, <2>6 DEF TokensCover
<1>7. CASE UNCHANGED Train!vars
    BY <1>7 DEF Train!vars, Train!run, Train!learned, Train!TypeOK, TokensCover, Train!Steps
<1> QED BY <1>1, <1>2, <1>3, <1>4, <1>5, <1>6, <1>7 DEF Train!Next

(***************************************************************************)
(* A checkpoint counts what its weights were presented with and is of one  *)
(* moment, a run that completes passes its target by less than one step,   *)
(* and no run takes more steps than the largest goal.                      *)
(***************************************************************************)
LEMMA TrainExact == Train!CheckpointsAssumption => (Train!Spec => []Train!CheckpointsExact)
<1> SUFFICES ASSUME Train!CheckpointsAssumption
             PROVE  Train!Spec => []Train!CheckpointsExact
    OBVIOUS
<1>1. Train!Init /\ CheckpointsInv => TypeInv
  <2> SUFFICES ASSUME Train!Init, CheckpointsInv PROVE Train!TypeOK /\ TokensCover
      BY DEF TypeInv
  <2>1. files = [n \in Train!Steps |-> IF n = OldStep /\ OldStep > 0 THEN Train!OldFile ELSE Train!NoFile]
      BY DEF Train!Init
  <2>2. OldStep * OldShape \in Nat /\ OldStep <= OldStep * OldShape
    <3>1. OldStep \in Nat /\ OldShape \in Nat /\ OldShape >= 1
        BY DEF Train!CheckpointsAssumption
    <3> QED BY <3>1, SMT
  <2>3. Train!TypeOK
      BY <2>1, StepsType DEF Train!Init, Train!TypeOK, Train!OldFile, Train!CheckpointsAssumption
  <2>4. TokensCover
      BY <2>1, <2>2 DEF Train!Init, TokensCover, Train!OldFile, Train!NoFile
  <2> QED BY <2>3, <2>4
<1>2. TypeInv /\ CheckpointsInv' /\ [Train!Next]_(Train!vars) => TypeInv'
    BY TypeSteps
<1>3. TypeInv => Train!TypeOK
    BY DEF TypeInv
<1> QED BY <1>1, <1>2, <1>3, CheckpointsInvariant, CountsExact, OneMoment, DoneAtTarget, PTL
        DEF Train!Spec, Train!CheckpointsExact

(***************************************************************************)
(* Under the name of a whole checkpoint there is always a whole one.       *)
(***************************************************************************)
LEMMA TrainStays == Train!CheckpointsAssumption => (Train!Spec => Train!ResumableStays)
<1> SUFFICES ASSUME Train!CheckpointsAssumption
             PROVE  Train!Spec => Train!ResumableStays
    OBVIOUS
<1>1. ASSUME CheckpointsInv, [Train!Next]_(Train!vars)
      PROVE  [\A n \in Train!Steps : files[n].whole => files'[n].whole]_(Train!vars)
  <2> SUFFICES ASSUME Train!Next, NEW n \in Train!Steps, files[n].whole
               PROVE  files'[n].whole
      BY <1>1
  <2>1. CASE Train!Replace
    <3>1. files = [k \in Train!Steps |-> files[k]]
        BY <1>1 DEF CheckpointsInv, FilesExact
    <3>2. n = step => files'[n].whole = TRUE
        BY <2>1, <3>1 DEF Train!Replace
    <3>3. n # step => files'[n] = files[n]
        BY <2>1, <3>1 DEF Train!Replace
    <3> QED BY <3>2, <3>3
  <2>2. CASE ~Train!Replace
      BY <2>2 DEF Train!Next, Train!FromSeed, Train!Resume, Train!Begin, Train!TrainStep, Train!OpenTemp,
                  Train!Dies
  <2> QED BY <2>1, <2>2
<1> QED BY <1>1, CheckpointsInvariant, PTL DEF Train!Spec, Train!ResumableStays

-----------------------------------------------------------------------------
\* The ring, with a host of any patience and any bounds.

Any == INSTANCE ParetoRing WITH step <- request, Patient <- FALSE

\* Division by a number of requests.

LEMMA DivMod ==
    ASSUME NEW d \in Nat, d > 0, NEW q \in Nat, NEW r \in 0..(d - 1)
    PROVE  (q * d + r) \div d = q /\ (q * d + r) % d = r
BY SMT

LEMMA ModDiv ==
    ASSUME NEW d \in Nat, d > 0, NEW k \in Nat
    PROVE  /\ k \div d \in Nat /\ k % d \in 0..(d - 1)
           /\ k = (k \div d) * d + (k % d)
BY SMT

LEMMA Below ==
    ASSUME NEW a \in Nat, NEW b \in Nat, NEW d \in Nat, a < b
    PROVE  a * d + d <= b * d
BY SMT

LEMMA Quotient ==
    ASSUME NEW k \in Nat, NEW b \in Nat, NEW d \in Nat, d > 0, k < b * d
    PROVE  k \div d < b
<1>1. k = (k \div d) * d + (k % d) /\ k \div d \in Nat /\ k % d \in Nat
    BY ModDiv
<1>2. CASE k \div d >= b
  <2>1. b * d <= (k \div d) * d
      BY <1>1, <1>2, Below, SMT
  <2> QED BY <1>1, <2>1, SMT
<1> QED BY <1>1, <1>2, SMT

-----------------------------------------------------------------------------
\* The requests of a command, in their order: those of a position follow those
\* of every earlier one.

\* The requests before the first of position p.
Base(p) == IF p < Inputs - 1 THEN p * Stages ELSE Any!Prefill + (p - (Inputs - 1)) * Any!Round

\* The requests before the first of the round of the q-th token.
RoundBase(q) == Any!Prefill + q * Any!Round

LEMMA Counts ==
    ASSUME Any!RingAssumption
    PROVE  /\ Stages \in Nat /\ Stages > 0 /\ Inputs \in Nat /\ Outputs \in Nat
           /\ Any!Round = Stages + Stages + 1 /\ Any!Round \in Nat
           /\ Any!Prefill \in Int /\ Any!Prefill + Stages >= 0
           /\ Inputs > 0 => Any!Prefill \in Nat
           /\ Inputs = 0 => Any!Prefill = 0 - Stages
           /\ Outputs * Any!Round \in Nat /\ Outputs * Any!Round >= Any!Round
           /\ Any!LastRequest = Any!Prefill + Outputs * Any!Round /\ Any!LastRequest \in Nat
<1>1. Stages \in Nat /\ Stages > 0 /\ Inputs \in Nat /\ Outputs \in Nat /\ Outputs > 0
    BY DEF Any!RingAssumption
<1>2. Any!Round = Stages + Stages + 1 /\ Any!Round \in Nat
    BY <1>1 DEF Any!Round
<1>3. Inputs > 0 => Any!Prefill \in Nat
    BY <1>1, SMT DEF Any!Prefill
<1>4. Inputs = 0 => Any!Prefill = 0 - Stages
    BY <1>1, SMT DEF Any!Prefill
<1>5. Outputs * Any!Round >= Any!Round /\ Outputs * Any!Round \in Nat
    BY <1>1, <1>2, SMT
<1> QED BY <1>1, <1>2, <1>3, <1>4, <1>5 DEF Any!LastRequest

LEMMA RoundBases ==
    ASSUME Any!RingAssumption, NEW q \in Nat
    PROVE  /\ RoundBase(q) \in Int /\ RoundBase(q) + Stages >= 0
           /\ Inputs > 0 => RoundBase(q) >= 0
           /\ RoundBase(q + 1) = RoundBase(q) + Any!Round
<1>1. q * Any!Round \in Nat /\ (q + 1) * Any!Round = q * Any!Round + Any!Round
    BY Counts, SMT
<1> QED BY <1>1, Counts DEF RoundBase

LEMMA RoundAt ==
    ASSUME Any!RingAssumption, NEW q \in Nat, NEW k \in 0..(Any!Round - 1), RoundBase(q) + k >= 0
    PROVE  Any!Request(RoundBase(q) + k + 1) =
             IF k < Stages THEN Any!Message("layers", k + 1, Inputs - 1 + q)
             ELSE IF k = Stages THEN Any!Message("start", Any!Broadcast, 0)
             ELSE Any!Message("collect", k - Stages, 0)
<1> DEFINE s == RoundBase(q) + k + 1
<1>1. q * Any!Round \in Nat /\ k \in Nat /\ Any!Round \in Nat /\ Any!Round > 0
    BY Counts, SMT
<1>2. s \in Nat /\ s # 0 /\ s - 1 - Any!Prefill = q * Any!Round + k
    BY <1>1, Counts DEF RoundBase
<1>3. (q * Any!Round + k) \div Any!Round = q /\ (q * Any!Round + k) % Any!Round = k
    BY <1>1, DivMod, Zenon
<1>4. ~(q * Any!Round + k < 0)
    BY <1>1
<1> HIDE DEF s
<1>5. Any!Request(s) = IF k < Stages THEN Any!Message("layers", k + 1, Inputs - 1 + q)
                   ELSE IF k = Stages THEN Any!Message("start", Any!Broadcast, 0)
                   ELSE Any!Message("collect", k - Stages, 0)
    BY <1>2, <1>3, <1>4, Zenon DEF Any!Request
<1> QED BY <1>5 DEF s

LEMMA PrefillAt ==
    ASSUME Any!RingAssumption, NEW p \in Nat, p < Inputs - 1, NEW r \in 0..(Stages - 1)
    PROVE  /\ Any!Request(p * Stages + r + 1) = Any!Message("layers", r + 1, p)
           /\ p * Stages + r < Any!Prefill
<1> DEFINE s == p * Stages + r + 1
<1>1. p * Stages \in Nat /\ r \in Nat /\ p * Stages + Stages <= Any!Prefill
  <2>1. Inputs - 1 \in Nat /\ Any!Prefill = (Inputs - 1) * Stages
      BY Counts DEF Any!Prefill
  <2> QED BY <2>1, Counts, Below, SMT
<1>2. s \in Nat /\ s # 0 /\ s - 1 = p * Stages + r /\ s - 1 - Any!Prefill < 0
    BY <1>1, Counts
<1>3. (p * Stages + r) \div Stages = p /\ (p * Stages + r) % Stages = r
    BY Counts, DivMod
<1> HIDE DEF s
<1>4. Any!Request(s) = Any!Message("layers", r + 1, p)
    BY <1>2, <1>3, Zenon DEF Any!Request
<1>5. p * Stages + r < Any!Prefill
    BY <1>1, Counts
<1> QED BY <1>4, <1>5, Zenon DEF s

LEMMA LayersAt ==
    ASSUME Any!RingAssumption, NEW p \in Nat, NEW t \in Any!Compute
    PROVE  Base(p) + t \in Nat \ {0} /\ Any!Request(Base(p) + t) = Any!Message("layers", t, p)
<1>1. t - 1 \in 0..(Stages - 1) /\ t \in Nat
    BY Counts DEF Any!Compute
<1>2. CASE p < Inputs - 1
  <2>1. Any!Request(p * Stages + (t - 1) + 1) = Any!Message("layers", (t - 1) + 1, p)
      BY <1>1, <1>2, PrefillAt
  <2>2. p * Stages \in Nat
      BY Counts, SMT
  <2> QED BY <1>1, <1>2, <2>1, <2>2 DEF Base
<1>3. CASE ~(p < Inputs - 1)
  <2> DEFINE q == p - (Inputs - 1)
  <2>1. q \in Nat /\ Inputs - 1 + q = p /\ (Inputs = 0 => q >= 1)
      BY <1>3, Counts
  <2>2. RoundBase(q) + (t - 1) >= 0
    <3>1. CASE Inputs > 0
      <4>1. RoundBase(q) >= 0 /\ RoundBase(q) \in Int
          BY <2>1, <3>1, RoundBases
      <4> QED BY <1>1, <4>1
    <3>2. CASE Inputs = 0
      <4>0. q - 1 \in Nat /\ (q - 1) + 1 = q
          BY <2>1, <3>2
      <4> HIDE DEF q
      <4>1. q - 1 \in Nat /\ RoundBase((q - 1) + 1) = RoundBase(q - 1) + Any!Round /\ (q - 1) + 1 = q
          BY <4>0, RoundBases
      <4>2. RoundBase(q - 1) + Stages >= 0 /\ RoundBase(q - 1) \in Int
          BY <4>1, RoundBases
      <4> QED BY <1>1, <4>1, <4>2, Counts
    <3> QED BY <3>1, <3>2, Counts
  <2>3. t - 1 \in 0..(Any!Round - 1) /\ t - 1 < Stages
      BY <1>1, Counts
  <2>4. Base(p) = RoundBase(q) /\ RoundBase(q) \in Int
    <3>1. Base(p) = RoundBase(q)
        BY <1>3, Zenon DEF Base, RoundBase
    <3> QED BY <2>1, <3>1, RoundBases
  <2> HIDE DEF q
  <2>5. Any!Request(RoundBase(q) + (t - 1) + 1) = Any!Message("layers", (t - 1) + 1, p)
      BY <2>1, <2>2, <2>3, RoundAt
  <2>6. RoundBase(q) + (t - 1) + 1 = Base(p) + t /\ (t - 1) + 1 = t /\ Base(p) + t >= 1
      BY <1>1, <2>2, <2>4
  <2> QED BY <2>4, <2>5, <2>6, <1>1
<1> QED BY <1>2, <1>3

LEMMA BaseGrows ==
    ASSUME Any!RingAssumption, NEW p \in Nat, NEW q \in Nat, q < p
    PROVE  Base(q) + Stages <= Base(p) /\ Base(q) \in Int /\ Base(p) \in Int
<1> USE Counts
<1>1. CASE p < Inputs - 1
    BY <1>1, Below, SMT DEF Base
<1>2. CASE q >= Inputs - 1
  <2>1. (q - (Inputs - 1)) * Any!Round + Any!Round <= (p - (Inputs - 1)) * Any!Round
      BY <1>2, Below
  <2>2. (q - (Inputs - 1)) * Any!Round \in Nat /\ (p - (Inputs - 1)) * Any!Round \in Nat
      BY <1>2, SMT
  <2> QED BY <1>2, <2>1, <2>2 DEF Base
<1>3. CASE q < Inputs - 1 /\ p >= Inputs - 1
  <2>1. Inputs - 1 \in Nat /\ Any!Prefill = (Inputs - 1) * Stages
      BY <1>3 DEF Any!Prefill
  <2>2. q * Stages + Stages <= Any!Prefill /\ q * Stages \in Nat
      BY <1>3, <2>1, Below, SMT
  <2>3. (p - (Inputs - 1)) * Any!Round \in Nat
      BY <1>3, SMT
  <2> QED BY <1>3, <2>2, <2>3 DEF Base
<1> QED BY <1>1, <1>2, <1>3

\* What the s-th request is.
IsLayers(s, p, t) ==
    /\ p \in Nat
    /\ t \in Any!Compute
    /\ s = Base(p) + t
    /\ Any!Request(s) = Any!Message("layers", t, p)
IsStart(s, q) ==
    /\ q \in Nat
    /\ s = RoundBase(q) + Stages + 1
    /\ Any!Request(s) = Any!Message("start", Any!Broadcast, 0)
IsCollect(s, q, t) ==
    /\ q \in Nat
    /\ t \in Any!Compute
    /\ s = RoundBase(q) + Stages + 1 + t
    /\ Any!Request(s) = Any!Message("collect", t, 0)

LEMMA Requests ==
    ASSUME Any!RingAssumption, NEW s \in Nat, s # 0
    PROVE  \/ \E p, t : IsLayers(s, p, t) /\ (s <= Any!LastRequest => p <= Inputs + Outputs)
           \/ \E q : IsStart(s, q)
           \/ \E q, t : IsCollect(s, q, t)
<1> USE Counts
<1>1. CASE s - 1 < Any!Prefill
  <2>1. s - 1 \in Nat /\ Inputs > 0 /\ Inputs - 1 \in Nat /\ Any!Prefill = (Inputs - 1) * Stages
      BY <1>1 DEF Any!Prefill
  <2> DEFINE p == (s - 1) \div Stages
             r == (s - 1) % Stages
  <2>2. p \in Nat /\ r \in 0..(Stages - 1) /\ s - 1 = p * Stages + r
      BY <2>1, ModDiv
  <2>3. p < Inputs - 1
      BY <1>1, <2>1, Quotient
  <2> HIDE DEF p, r
  <2>4. Any!Request(p * Stages + r + 1) = Any!Message("layers", r + 1, p) /\ p * Stages \in Int
      BY <2>2, <2>3, PrefillAt, SMT
  <2>5. s = p * Stages + r + 1 /\ s = Base(p) + (r + 1) /\ r + 1 \in Any!Compute
      BY <2>2, <2>3, <2>4 DEF Base, Any!Compute
  <2>6. IsLayers(s, p, r + 1) /\ p <= Inputs + Outputs
      BY <2>2, <2>3, <2>4, <2>5 DEF IsLayers
  <2> QED BY <2>6
<1>2. CASE ~(s - 1 < Any!Prefill)
  <2> DEFINE d == s - 1 - Any!Prefill
             q == d \div Any!Round
             k == d % Any!Round
  <2>1. d \in Nat
      BY <1>2
  <2> HIDE DEF d
  <2>2. q \in Nat /\ k \in 0..(Any!Round - 1) /\ d = q * Any!Round + k
      BY <2>1, ModDiv
  <2>3. s <= Any!LastRequest => q < Outputs
    <3>1. s <= Any!LastRequest => d < Outputs * Any!Round
        BY DEF d
    <3> QED BY <2>1, <3>1, Quotient
  <2> HIDE DEF q, k
  <2>4. s = RoundBase(q) + k + 1 /\ RoundBase(q) + k >= 0 /\ RoundBase(q) \in Int
      BY <2>2, SMT DEF d, RoundBase
  <2>5. Any!Request(s) = IF k < Stages THEN Any!Message("layers", k + 1, Inputs - 1 + q)
                     ELSE IF k = Stages THEN Any!Message("start", Any!Broadcast, 0)
                     ELSE Any!Message("collect", k - Stages, 0)
      BY <2>2, <2>4, RoundAt
  <2>6. CASE k < Stages
    <3> DEFINE p == Inputs - 1 + q
    <3>1. k + 1 \in Any!Compute /\ Any!Request(s) = Any!Message("layers", k + 1, p)
        BY <2>2, <2>5, <2>6 DEF Any!Compute
    <3>2. p \in Nat
      <4>1. CASE Inputs = 0 /\ q = 0
          BY <2>2, <2>4, <2>6, <4>1 DEF RoundBase
      <4> QED BY <2>2, <4>1
    <3>3. Base(p) = RoundBase(q)
      <4>1. ~(p < Inputs - 1) /\ p - (Inputs - 1) = q
          BY <2>2
      <4> HIDE DEF p
      <4> QED BY <4>1, Zenon DEF Base, RoundBase
    <3>5. s <= Any!LastRequest => p <= Inputs + Outputs
        BY <2>2, <2>3
    <3> HIDE DEF p
    <3>4. IsLayers(s, p, k + 1)
      <4>1. s = Base(p) + (k + 1)
        <5>1. k \in Int /\ RoundBase(q) \in Int /\ s = RoundBase(q) + k + 1
            BY <2>2, <2>4
        <5> QED BY ONLY <5>1, <3>3, SMT
      <4> QED BY <3>1, <3>2, <4>1, Zenon DEF IsLayers
    <3> QED BY <3>4, <3>5
  <2>7. CASE k = Stages
    <3>1. IsStart(s, q)
        BY <2>2, <2>4, <2>5, <2>7 DEF IsStart
    <3> QED BY <3>1
  <2>8. CASE k > Stages
    <3>1. k - Stages \in Any!Compute /\ Any!Request(s) = Any!Message("collect", k - Stages, 0)
        BY <2>2, <2>5, <2>8 DEF Any!Compute
    <3>2. IsCollect(s, q, k - Stages)
        BY <2>2, <2>4, <3>1 DEF IsCollect
    <3> QED BY <3>2
  <2>9. k < Stages \/ k = Stages \/ k > Stages
    <3>1. k \in Int /\ Stages \in Int
        BY <2>2, Counts
    <3> QED BY ONLY <3>1, SMT
  <2> QED BY <2>6, <2>7, <2>8, <2>9, Zenon
<1> QED BY <1>1, <1>2

LEMMA MessageType ==
    ASSUME Any!RingAssumption, seq \in 0..SeqMod - 1, hidden \in BOOLEAN,
           NEW k \in {"reset", "layers", "start", "collect"}, NEW t \in Any!Compute \cup {Any!Broadcast},
           NEW p \in 0..Inputs + Outputs
    PROVE  /\ Any!Message(k, t, p) \in Any!Packets
           /\ Any!Message(k, t, p).kind = k /\ Any!Message(k, t, p).target = t /\ Any!Message(k, t, p).own
           /\ Any!Message(k, t, p).seq = seq /\ Any!Message(k, t, p).source = 0
           /\ hidden => (Any!Message(k, t, p).good <=> k = "layers")
<1>1. (k = "layers" /\ hidden) \in BOOLEAN
    OBVIOUS
<1> QED BY <1>1 DEF Any!Message, Any!Packets

LEMMA RequestType ==
    ASSUME Any!RingAssumption, seq \in 0..SeqMod - 1, hidden \in BOOLEAN, NEW s \in 0..Any!LastRequest
    PROVE  /\ Any!Request(s) \in Any!Packets
           /\ Any!Request(s).kind \in {"reset", "layers", "start", "collect"}
           /\ Any!Request(s).own /\ Any!Request(s).seq = seq /\ Any!Request(s).source = 0
           /\ Any!Request(s).kind \in {"layers", "collect"} => Any!Request(s).target \in Any!Compute
           /\ Any!Request(s).kind \in {"reset", "start"} => Any!Request(s).target = Any!Broadcast
           /\ Any!Request(s).kind = "reset" <=> s = 0
           /\ hidden => (Any!Request(s).good <=> Any!Request(s).kind = "layers")
<1>1. ASSUME NEW k \in {"reset", "layers", "start", "collect"}, NEW t \in Any!Compute \cup {Any!Broadcast},
             NEW p \in 0..Inputs + Outputs, Any!Request(s) = Any!Message(k, t, p),
             k \in {"layers", "collect"} => t \in Any!Compute,
             k \in {"reset", "start"} => t = Any!Broadcast,
             k = "reset" <=> s = 0
      PROVE  /\ Any!Request(s) \in Any!Packets
             /\ Any!Request(s).kind \in {"reset", "layers", "start", "collect"}
             /\ Any!Request(s).own /\ Any!Request(s).seq = seq /\ Any!Request(s).source = 0
             /\ Any!Request(s).kind \in {"layers", "collect"} => Any!Request(s).target \in Any!Compute
             /\ Any!Request(s).kind \in {"reset", "start"} => Any!Request(s).target = Any!Broadcast
             /\ Any!Request(s).kind = "reset" <=> s = 0
             /\ hidden => (Any!Request(s).good <=> Any!Request(s).kind = "layers")
  <2>1. /\ Any!Message(k, t, p) \in Any!Packets
        /\ Any!Message(k, t, p).kind = k /\ Any!Message(k, t, p).target = t /\ Any!Message(k, t, p).own
        /\ Any!Message(k, t, p).seq = seq /\ Any!Message(k, t, p).source = 0
        /\ hidden => (Any!Message(k, t, p).good <=> k = "layers")
      BY MessageType
  <2> QED BY <1>1, <2>1
<1>2. CASE s = 0
  <2>1. Any!Request(s) = Any!Message("reset", Any!Broadcast, 0) /\ 0 \in 0..Inputs + Outputs
      BY <1>2, Counts DEF Any!Request
  <2> QED BY <1>1, <1>2, <2>1
<1>3. CASE s # 0
  <2>1. s \in Nat /\ s <= Any!LastRequest /\ Inputs + Outputs \in Nat /\ 0 \in 0..Inputs + Outputs
      BY Counts
  <2>2. CASE \E p, t : IsLayers(s, p, t) /\ (s <= Any!LastRequest => p <= Inputs + Outputs)
    <3>1. PICK p, t : IsLayers(s, p, t) /\ p <= Inputs + Outputs
        BY <2>1, <2>2
    <3>2. p \in 0..Inputs + Outputs /\ t \in Any!Compute /\ Any!Request(s) = Any!Message("layers", t, p)
        BY <2>1, <3>1 DEF IsLayers
    <3> QED BY <1>1, <1>3, <3>2
  <2>3. CASE \E q : IsStart(s, q)
    <3>1. Any!Request(s) = Any!Message("start", Any!Broadcast, 0)
        BY <2>3 DEF IsStart
    <3> QED BY <1>1, <1>3, <2>1, <3>1
  <2>4. CASE \E q, t : IsCollect(s, q, t)
    <3>1. PICK q, t : IsCollect(s, q, t)
        BY <2>4
    <3>2. t \in Any!Compute /\ Any!Request(s) = Any!Message("collect", t, 0)
        BY <3>1 DEF IsCollect
    <3> QED BY <1>1, <1>3, <2>1, <3>2
  <2> QED BY <1>3, <2>1, <2>2, <2>3, <2>4, Requests
<1> QED BY <1>2, <1>3

LEMMA MessageFields ==
    ASSUME NEW k, NEW t, NEW p
    PROVE  /\ Any!Message(k, t, p).kind = k /\ Any!Message(k, t, p).target = t /\ Any!Message(k, t, p).pos = p
BY DEF Any!Message

LEMMA StartAt == ASSUME Any!RingAssumption, NEW q \in Nat PROVE IsStart(RoundBase(q) + Stages + 1, q)
<1>1. Stages \in 0..(Any!Round - 1) /\ RoundBase(q) + Stages >= 0
    BY Counts, RoundBases
<1>2. Any!Request(RoundBase(q) + Stages + 1) = Any!Message("start", Any!Broadcast, 0)
    BY <1>1, Counts, RoundAt
<1> QED BY <1>2 DEF IsStart

LEMMA CollectAt ==
    ASSUME Any!RingAssumption, NEW q \in Nat, NEW t \in Any!Compute
    PROVE  IsCollect(RoundBase(q) + Stages + 1 + t, q, t)
<1>0. t \in Nat /\ t >= 1 /\ t <= Stages /\ RoundBase(q) \in Int /\ RoundBase(q) + Stages >= 0
    BY Counts, RoundBases DEF Any!Compute
<1> DEFINE k == Stages + t
<1>1. k \in 0..(Any!Round - 1) /\ RoundBase(q) + k >= 0 /\ k > Stages /\ k - Stages = t
    BY <1>0, Counts
<1>2. RoundBase(q) + Stages + 1 + t = RoundBase(q) + k + 1
    BY <1>0, Counts
<1> HIDE DEF k
<1>3. Any!Request(RoundBase(q) + k + 1) =
         IF k < Stages THEN Any!Message("layers", k + 1, Inputs - 1 + q)
         ELSE IF k = Stages THEN Any!Message("start", Any!Broadcast, 0)
         ELSE Any!Message("collect", k - Stages, 0)
    BY <1>1, RoundAt
<1>4. ~(k < Stages) /\ k # Stages
    BY <1>1, Counts
<1>5. Any!Request(RoundBase(q) + Stages + 1 + t) = Any!Message("collect", t, 0)
    BY <1>1, <1>2, <1>3, <1>4
<1> QED BY <1>5 DEF IsCollect

LEMMA KindOf ==
    ASSUME Any!RingAssumption, NEW s \in Nat
    PROVE  /\ Any!Request(s).kind = "reset" => s = 0
           /\ Any!Request(s).kind = "layers" => \E p, t : IsLayers(s, p, t)
           /\ Any!Request(s).kind = "start" => \E q : IsStart(s, q)
           /\ Any!Request(s).kind = "collect" => \E q, t : IsCollect(s, q, t)
<1>1. s = 0 => Any!Request(s).kind = "reset"
    BY MessageFields DEF Any!Request
<1>2. s # 0 => Any!Request(s).kind # "reset"
    BY Requests, MessageFields DEF IsLayers, IsStart, IsCollect
<1>3. CASE s # 0
    BY <1>2, <1>3, Requests, MessageFields DEF IsLayers, IsStart, IsCollect
<1> QED BY <1>1, <1>3

LEMMA NextRequest ==
    ASSUME Any!RingAssumption, NEW s \in Nat
    PROVE  /\ Any!Request(s).kind \in {"reset", "layers"} => Any!Request(s + 1).kind \in {"layers", "start"}
           /\ Any!Request(s).kind = "start" =>
                 Any!Request(s + 1).kind = "collect" /\ Any!Request(s + 1).target = 1
           /\ Any!Request(s).kind = "collect" =>
                IF Any!Request(s).target < Stages
                  THEN /\ Any!Request(s + 1).kind = "collect"
                       /\ Any!Request(s + 1).target = Any!Request(s).target + 1
                  ELSE Any!Request(s + 1).kind = "layers"
<1>1. CASE Any!Request(s).kind \in {"reset", "layers"}
  <2>1. ASSUME NEW q, NEW t, IsCollect(s + 1, q, t) PROVE FALSE
    <3>1. q \in Nat /\ t \in Any!Compute /\ s = RoundBase(q) + Stages + t /\ RoundBase(q) \in Int
      <4>1. q \in Nat /\ t \in Any!Compute /\ s + 1 = RoundBase(q) + Stages + 1 + t
          BY <2>1 DEF IsCollect
      <4>2. RoundBase(q) \in Int /\ t \in Int /\ Stages \in Int
          BY <4>1, RoundBases, Counts DEF Any!Compute
      <4> QED BY <4>1, <4>2
    <3>2. CASE t = 1
      <4>1. s = RoundBase(q) + Stages + 1
          BY <3>1, <3>2
      <4>2. Any!Request(s).kind = "start"
          BY <3>1, <4>1, StartAt, MessageFields DEF IsStart
      <4> QED BY <1>1, <4>2
    <3>3. CASE t # 1
      <4>1. t - 1 \in Any!Compute /\ s = RoundBase(q) + Stages + 1 + (t - 1)
          BY <3>1, <3>3, Counts DEF Any!Compute
      <4>2. Any!Request(s).kind = "collect"
          BY <3>1, <4>1, CollectAt, MessageFields DEF IsCollect
      <4> QED BY <1>1, <4>2
    <3> QED BY <3>2, <3>3
  <2>2. s + 1 \in Nat /\ s + 1 # 0
      OBVIOUS
  <2>3. (\E p, t : IsLayers(s + 1, p, t)) \/ (\E q : IsStart(s + 1, q))
      BY <2>1, <2>2, Requests
  <2> QED BY <1>1, <2>3, MessageFields DEF IsLayers, IsStart
<1>2. CASE Any!Request(s).kind = "start"
  <2>1. PICK q : IsStart(s, q)
      BY <1>2, KindOf
  <2>2. q \in Nat /\ 1 \in Any!Compute /\ s + 1 = RoundBase(q) + Stages + 1 + 1
      BY <2>1, RoundBases, Counts DEF IsStart, Any!Compute
  <2>3. IsCollect(s + 1, q, 1)
      BY <2>2, CollectAt
  <2> QED BY <1>2, <2>3, MessageFields DEF IsCollect
<1>3. CASE Any!Request(s).kind = "collect"
  <2>1. PICK q, t : IsCollect(s, q, t)
      BY <1>3, KindOf
  <2>2. /\ q \in Nat /\ t \in Any!Compute /\ s = RoundBase(q) + Stages + 1 + t /\ RoundBase(q) \in Int
        /\ Any!Request(s).target = t
      BY <2>1, RoundBases, MessageFields DEF IsCollect
  <2>3. CASE t < Stages
    <3>1. t + 1 \in Any!Compute /\ s + 1 = RoundBase(q) + Stages + 1 + (t + 1)
        BY <2>2, <2>3, Counts DEF Any!Compute
    <3>2. IsCollect(s + 1, q, t + 1)
        BY <2>2, <3>1, CollectAt
    <3> QED BY <1>3, <2>2, <2>3, <3>2, MessageFields DEF IsCollect
  <2>4. CASE ~(t < Stages)
    <3>1. t = Stages
        BY <2>2, <2>4, Counts DEF Any!Compute
    <3>2. RoundBase(q + 1) = RoundBase(q) + Any!Round /\ q + 1 \in Nat
        BY <2>2, RoundBases
    <3>3. s + 1 = RoundBase(q + 1) + 0 + 1 /\ RoundBase(q + 1) + 0 >= 0
        BY <2>2, <3>1, <3>2, Counts
    <3>4. 0 \in 0..(Any!Round - 1) /\ 0 < Stages
        BY Counts
    <3>5. Any!Request(RoundBase(q + 1) + 0 + 1) = Any!Message("layers", 0 + 1, Inputs - 1 + (q + 1))
        BY <3>2, <3>3, <3>4, RoundAt
    <3> QED BY <1>3, <2>2, <2>4, <3>3, <3>5, MessageFields
  <2> QED BY <2>3, <2>4
<1> QED BY <1>1, <1>2, <1>3

\* Every earlier position has been asked of the same stage before, and no
\* position is asked twice.
LEMMA EarlierPositions ==
    ASSUME Any!RingAssumption, NEW s \in Nat, Any!Request(s).kind = "layers",
           NEW k \in 0..(Any!Request(s).pos - 1)
    PROVE  \E r \in 1..(s - 1) : /\ Any!Request(r).kind = "layers" /\ Any!Request(r).pos = k
                                 /\ Any!Request(r).target = Any!Request(s).target
<1>1. PICK p, t : IsLayers(s, p, t)
    BY KindOf
<1>2. p \in Nat /\ t \in Any!Compute /\ s = Base(p) + t /\ Any!Request(s).pos = p /\ Any!Request(s).target = t
    BY <1>1, MessageFields DEF IsLayers
<1>3. k \in Nat /\ k < p
    BY <1>2
<1>4. Base(k) + Stages <= Base(p) /\ Base(k) \in Int /\ Base(p) \in Int
    BY <1>2, <1>3, BaseGrows
<1>5. Base(k) + t \in Nat \ {0} /\ Any!Request(Base(k) + t) = Any!Message("layers", t, k)
    BY <1>2, <1>3, LayersAt
<1>6. Base(k) + t \in 1..(s - 1)
    BY <1>2, <1>4, <1>5, Counts DEF Any!Compute
<1> QED BY <1>2, <1>5, <1>6, MessageFields

LEMMA DifferentPositions ==
    ASSUME Any!RingAssumption, NEW s \in Nat, NEW r \in Nat, r < s,
           Any!Request(s).kind = "layers", Any!Request(r).kind = "layers",
           Any!Request(r).target = Any!Request(s).target
    PROVE  Any!Request(r).pos # Any!Request(s).pos
<1>1. PICK p, t : IsLayers(s, p, t)
    BY KindOf
<1>2. PICK k, n : IsLayers(r, k, n)
    BY KindOf
<1>3. /\ p \in Nat /\ k \in Nat /\ n = t /\ s = Base(p) + t /\ r = Base(k) + t
      /\ Any!Request(s).pos = p /\ Any!Request(r).pos = k
    BY <1>1, <1>2, MessageFields DEF IsLayers
<1> QED BY <1>3

-----------------------------------------------------------------------------
\* Types.

Live(n) == pkt[n].kind # "bad"

\* What each node holds, and how many transactions were given up.
NodeFacts ==
    /\ \A n \in Any!Nodes :
         /\ node[n] \in {"armed", "blocked"} => ~Live(n)
         /\ node[n] = "send" => Live(n)
         /\ node[n] = "starting" => pkt[n].kind = "start" /\ n # Any!Relay
         /\ node[n] # "blocked" => left[n] < Any!InAir
    /\ m \notin {"idle", "send"} => left[0] < Any!InAir

RingTypes == Any!TypeOK /\ NodeFacts

LEMMA NodesAre ==
    ASSUME Any!RingAssumption
    PROVE  /\ Any!Compute \subseteq Any!Nodes /\ Any!Relay \in Any!Nodes /\ Any!Relay \notin Any!Compute
           /\ 1 \in Any!Compute /\ 1 \in Any!Nodes
           /\ Any!Nodes = Any!Compute \cup {Any!Relay} /\ 0 \notin Any!Nodes
           /\ \A n \in Any!Nodes : n # Any!Relay => n \in Any!Compute /\ n + 1 \in Any!Nodes
           /\ Any!Broadcast \notin Any!Nodes \/ Any!Broadcast = Any!Relay
           /\ Any!Nodes \subseteq Nat /\ Any!Broadcast \notin Any!Compute
BY DEF Any!RingAssumption, Any!Compute, Any!Relay, Any!Nodes, Any!Broadcast

LEMMA BadType ==
    ASSUME Any!RingAssumption
    PROVE  Any!Bad \in Any!Packets /\ Any!Bad.kind = "bad" /\ ~Any!Bad.own
BY DEF Any!RingAssumption, Any!Bad, Any!Packets

\* Packets that change in place.
LEMMA PacketChanges ==
    ASSUME NEW p \in Any!Packets
    PROVE  /\ Any!Disowned(p) \in Any!Packets /\ ~Any!Disowned(p).own
           /\ Any!Disowned(p).kind = p.kind /\ Any!Disowned(p).seq = p.seq
           /\ [p EXCEPT !.good = FALSE, !.own = FALSE] \in Any!Packets
           /\ ~[p EXCEPT !.good = FALSE, !.own = FALSE].own
           /\ [p EXCEPT !.good = FALSE, !.own = FALSE].kind = p.kind
           /\ [p EXCEPT !.good = FALSE, !.own = FALSE].seq = p.seq
BY DEF Any!Disowned, Any!Packets

LEMMA RepliedIs ==
    ASSUME Any!RingAssumption, pkt \in [Any!Nodes -> Any!Packets], NEW n \in Any!Compute, NEW b \in BOOLEAN
    PROVE  /\ Any!Replied(n, b) \in [Any!Nodes -> Any!Packets]
           /\ \A k \in Any!Nodes : k # n => Any!Replied(n, b)[k] = pkt[k]
           /\ LET p == Any!Replied(n, b)[n]
              IN  /\ p.kind = "reply" /\ p.target = 0 /\ p.source = n /\ p.good = b
                  /\ p.seq = pkt[n].seq /\ p.own = pkt[n].own
<1> DEFINE p == [kind |-> "reply", target |-> 0, source |-> n, seq |-> pkt[n].seq,
                 pos |-> pkt[n].pos, own |-> pkt[n].own, good |-> b]
<1>1. n \in Any!Nodes /\ pkt[n] \in Any!Packets
    BY NodesAre
<1>2. p \in Any!Packets
    BY <1>1 DEF Any!Packets
<1> DEFINE p1 == [pkt[n] EXCEPT !.kind = "reply"]
           p2 == [p1 EXCEPT !.target = 0]
           p3 == [p2 EXCEPT !.source = n]
           p4 == [p3 EXCEPT !.good = b]
<1>3. Any!Replied(n, b) = [pkt EXCEPT ![n] = p4]
    BY <1>1 DEF Any!Replied
<1>4. p4 = p
  <2>1. pkt[n] = [kind |-> pkt[n].kind, target |-> pkt[n].target, source |-> pkt[n].source, seq |-> pkt[n].seq,
                  pos |-> pkt[n].pos, own |-> pkt[n].own, good |-> pkt[n].good]
      BY <1>1 DEF Any!Packets
  <2>2. p1 = [kind |-> "reply", target |-> pkt[n].target, source |-> pkt[n].source, seq |-> pkt[n].seq,
                  pos |-> pkt[n].pos, own |-> pkt[n].own, good |-> pkt[n].good]
      BY <2>1
  <2> HIDE DEF p1
  <2>3. p2 = [kind |-> "reply", target |-> 0, source |-> pkt[n].source, seq |-> pkt[n].seq,
                  pos |-> pkt[n].pos, own |-> pkt[n].own, good |-> pkt[n].good]
      BY <2>2
  <2> HIDE DEF p2
  <2>4. p3 = [kind |-> "reply", target |-> 0, source |-> n, seq |-> pkt[n].seq,
                  pos |-> pkt[n].pos, own |-> pkt[n].own, good |-> pkt[n].good]
      BY <2>3
  <2> HIDE DEF p3
  <2> QED BY <2>4
<1> HIDE DEF p4
<1>5. Any!Replied(n, b) = [pkt EXCEPT ![n] = p]
    BY <1>3, <1>4
<1> QED BY <1>1, <1>2, <1>5

\* The logits service of a stage, and its steps.
JobRecords == [hidden: BOOLEAN, notified: BOOLEAN, using: {"none", "present", "other"},
               done: BOOLEAN, good: BOOLEAN, ok: BOOLEAN]

LEMMA EarlierType ==
    ASSUME NEW j \in JobRecords
    PROVE  /\ Any!Earlier(j) \in JobRecords
           /\ Any!Earlier(j).notified = j.notified
           /\ Any!Earlier(j).using = "none" <=> j.using = "none"
BY DEF Any!Earlier, JobRecords

LEMMA DrainJob ==
    ASSUME job \in [Any!Compute -> JobRecords], NEW n \in Any!Compute, Any!Drain(n)
    PROVE  /\ job' \in [Any!Compute -> JobRecords]
           /\ \A k \in Any!Compute : k # n => job'[k] = job[k]
           /\ ~job'[n].done /\ job'[n].notified = job[n].notified /\ job'[n].using = job[n].using
<1>1. job' = [job EXCEPT ![n] = [job[n] EXCEPT !.done = FALSE]]
    BY DEF Any!Drain
<1>2. [job[n] EXCEPT !.done = FALSE] \in JobRecords
    BY DEF JobRecords
<1> QED BY <1>1, <1>2 DEF JobRecords

LEMMA StartScanJob ==
    ASSUME job \in [Any!Compute -> JobRecords], NEW n \in Any!Compute, Any!StartScan(n), pkt[n].own \in BOOLEAN
    PROVE  /\ job' \in [Any!Compute -> JobRecords]
           /\ \A k \in Any!Compute : k # n => job'[k] = job[k]
           /\ job'[n].hidden = pkt[n].own /\ job'[n].notified /\ ~job'[n].ok
           /\ job[n].using = "none" => job'[n].using = "none"
           /\ job'[n].done = job[n].done
<1> DEFINE j == job[n]
           j1 == [j EXCEPT !.hidden = pkt[n].own]
           j2 == [j1 EXCEPT !.notified = TRUE]
           j3 == [j2 EXCEPT !.ok = FALSE]
           j4 == [j3 EXCEPT !.using = IF j.using = "none" THEN j.using ELSE "other"]
<1>1. job' = [job EXCEPT ![n].hidden = pkt[n].own, ![n].notified = TRUE, ![n].ok = FALSE,
                         ![n].using = IF @ = "none" THEN @ ELSE "other"]
    BY DEF Any!StartScan
<1>2. job' = [job EXCEPT ![n] = j4]
    BY <1>1
<1>3. j1 \in JobRecords /\ j1.hidden = pkt[n].own /\ j1.using = j.using /\ j1.done = j.done
    BY DEF JobRecords
<1> HIDE DEF j1
<1>4. /\ j2 \in JobRecords /\ j2.hidden = pkt[n].own /\ j2.using = j.using /\ j2.done = j.done
      /\ j2.notified
    BY <1>3 DEF JobRecords
<1> HIDE DEF j2
<1>5. /\ j3 \in JobRecords /\ j3.hidden = pkt[n].own /\ j3.using = j.using /\ j3.done = j.done
      /\ j3.notified /\ ~j3.ok
    BY <1>4 DEF JobRecords
<1> HIDE DEF j3
<1>6. /\ j4 \in JobRecords /\ j4.hidden = pkt[n].own /\ j4.done = j.done
      /\ j4.notified /\ ~j4.ok /\ (j.using = "none" => j4.using = "none")
    BY <1>5 DEF JobRecords
<1> HIDE DEF j4
<1> QED BY <1>2, <1>6

LEMMA CollectJob ==
    ASSUME job \in [Any!Compute -> JobRecords], NEW n \in Any!Compute, Any!Collect(n)
    PROVE  /\ job' \in [Any!Compute -> JobRecords]
           /\ \A k \in Any!Compute : k # n => job'[k] = job[k]
           /\ ~job'[n].done /\ job'[n].notified = job[n].notified /\ job'[n].using = job[n].using
<1>1. job' = [job EXCEPT ![n] = [job[n] EXCEPT !.done = FALSE]]
    BY DEF Any!Collect
<1>2. [job[n] EXCEPT !.done = FALSE] \in JobRecords
    BY DEF JobRecords
<1> QED BY <1>1, <1>2 DEF JobRecords

LEMMA ScanBeginsJob ==
    ASSUME job \in [Any!Compute -> JobRecords], NEW n \in Any!Compute, Any!ScanBegins(n)
    PROVE  /\ job' \in [Any!Compute -> JobRecords]
           /\ \A k \in Any!Compute : k # n => job'[k] = job[k]
           /\ job[n].notified /\ job[n].using = "none" /\ ~job'[n].notified
           /\ job[n].hidden => job'[n].using = "present"
           /\ job'[n].hidden = job[n].hidden /\ job'[n].done = job[n].done
<1> DEFINE j == job[n]
           j1 == [j EXCEPT !.notified = FALSE]
           j2 == [j1 EXCEPT !.using = IF j.hidden THEN "present" ELSE "other"]
<1>1. job' = [job EXCEPT ![n] = j2] /\ j.notified /\ j.using = "none"
    BY DEF Any!ScanBegins
<1>2. j1 \in JobRecords /\ ~j1.notified /\ j1.hidden = j.hidden /\ j1.done = j.done
    BY DEF JobRecords
<1> HIDE DEF j1
<1>3. /\ j2 \in JobRecords /\ ~j2.notified /\ j2.hidden = j.hidden /\ j2.done = j.done
      /\ j.hidden => j2.using = "present"
    BY <1>2 DEF JobRecords
<1> HIDE DEF j2
<1> QED BY <1>1, <1>3

LEMMA ScanEndsJob ==
    ASSUME job \in [Any!Compute -> JobRecords], NEW n \in Any!Compute, Any!ScanEnds(n)
    PROVE  /\ job' \in [Any!Compute -> JobRecords]
           /\ \A k \in Any!Compute : k # n => job'[k] = job[k]
           /\ job[n].using # "none" /\ job'[n].using = "none"
           /\ job'[n].notified = job[n].notified /\ job'[n].hidden = job[n].hidden
           /\ job'[n].good = (job[n].using = "present")
<1> DEFINE j == job[n]
           b == (j.using = "present")
<1>1. PICK ok \in BOOLEAN :
          /\ j.using # "none"
          /\ job' = [job EXCEPT ![n].using = "none", ![n].ok = ok, ![n].done = TRUE,
                                ![n].good = b]
    BY DEF Any!ScanEnds
<1>0. b \in BOOLEAN
    OBVIOUS
<1> HIDE DEF b
<1> DEFINE j1 == [j EXCEPT !.using = "none"]
           j2 == [j1 EXCEPT !.ok = ok]
           j3 == [j2 EXCEPT !.done = TRUE]
           j4 == [j3 EXCEPT !.good = b]
<1>2. job' = [job EXCEPT ![n] = j4]
    BY <1>1
<1>3. j1 \in JobRecords /\ j1.using = "none" /\ j1.notified = j.notified /\ j1.hidden = j.hidden
    BY DEF JobRecords
<1> HIDE DEF j1
<1>4. j2 \in JobRecords /\ j2.using = "none" /\ j2.notified = j.notified /\ j2.hidden = j.hidden
    BY <1>3 DEF JobRecords
<1> HIDE DEF j2
<1>5. j3 \in JobRecords /\ j3.using = "none" /\ j3.notified = j.notified /\ j3.hidden = j.hidden
    BY <1>4 DEF JobRecords
<1> HIDE DEF j3
<1>6. j4 \in JobRecords /\ j4.using = "none" /\ j4.notified = j.notified /\ j4.hidden = j.hidden /\ j4.good = b
    BY <1>0, <1>5 DEF JobRecords
<1> HIDE DEF j4
<1>7. job'[n] = j4 /\ job' \in [Any!Compute -> JobRecords] /\ \A k \in Any!Compute : k # n => job'[k] = job[k]
    BY <1>2, <1>6
<1> QED BY <1>1, <1>6, <1>7 DEF b

LEMMA CommandTypes ==
    ASSUME Any!RingAssumption, RingTypes, Any!Command
    PROVE  RingTypes'
<1>1. /\ m' = "send" /\ request' = 0 /\ outcome' = "none" /\ hidden' = TRUE /\ genuine' = TRUE
      /\ reply' = Any!Bad
      /\ UNCHANGED <<inReady, seq, node, job, left, damage, timeouts>>
      /\ cache' = [n \in Any!Compute |-> {}]
      /\ pkt' = [n \in Any!Nodes |-> [pkt[n] EXCEPT !.good = FALSE, !.own = FALSE]]
    BY DEF Any!Command
<1>2. pkt' \in [Any!Nodes -> Any!Packets] /\ \A n \in Any!Nodes : pkt'[n].kind = pkt[n].kind
    BY <1>1, PacketChanges DEF RingTypes, Any!TypeOK
<1>3. Any!TypeOK'
  <2>1. cache' \in [Any!Compute -> SUBSET (0..Inputs + Outputs)]
      BY <1>1
  <2>2. request' \in 0..Any!LastRequest
    <3>1. Any!LastRequest \in Nat
        BY Counts
    <3>2. 0 \in 0..Any!LastRequest
        BY <3>1
    <3>3. request' = 0
        BY <1>1
    <3> QED BY <3>2, <3>3
  <2>3. reply' \in Any!Packets
      BY <1>1, BadType
  <2> QED BY <1>1, <1>2, <2>1, <2>2, <2>3 DEF RingTypes, Any!TypeOK
<1>4. NodeFacts'
    BY <1>1, <1>2 DEF RingTypes, NodeFacts, Live
<1> QED BY <1>3, <1>4 DEF RingTypes

LEMMA QueueTypes ==
    ASSUME Any!RingAssumption, RingTypes, Any!QueueIncoming
    PROVE  RingTypes'
<1>1. /\ m' = "sending" /\ inReady' = TRUE /\ seq' = (seq + 1) % SeqMod /\ reply' = Any!Bad
      /\ left[0] < Any!InAir
      /\ pkt' = [n \in Any!Nodes |-> Any!Disowned(pkt[n])]
      /\ job' = IF Any!Request(request).kind = "start" THEN [n \in Any!Compute |-> Any!Earlier(job[n])] ELSE job
      /\ UNCHANGED <<request, outcome, hidden, genuine, node, cache, left, damage, timeouts>>
    BY DEF Any!QueueIncoming
<1>2. pkt' \in [Any!Nodes -> Any!Packets] /\ \A n \in Any!Nodes : pkt'[n].kind = pkt[n].kind
    BY <1>1, PacketChanges DEF RingTypes, Any!TypeOK
<1>3. job' \in [Any!Compute -> JobRecords]
    BY <1>1, EarlierType DEF RingTypes, Any!TypeOK, JobRecords
<1>4. seq' \in 0..SeqMod - 1
    BY <1>1 DEF RingTypes, Any!TypeOK, Any!RingAssumption
<1>5. Any!TypeOK'
    BY <1>1, <1>2, <1>3, <1>4, BadType DEF RingTypes, Any!TypeOK, JobRecords
<1>6. NodeFacts'
    BY <1>1, <1>2 DEF RingTypes, NodeFacts, Live
<1> QED BY <1>5, <1>6 DEF RingTypes

LEMMA ArrivesType ==
    ASSUME Any!RingAssumption, damage \in 0..MaxDamage, NEW sent, NEW p, Any!Arrives(p, sent)
    PROVE  damage' \in 0..MaxDamage /\ p \in {sent, Any!Bad}
BY DEF Any!Arrives, Any!RingAssumption

LEMMA SendTypes ==
    ASSUME Any!RingAssumption, RingTypes, Any!SendDownstream
    PROVE  RingTypes'
<1>1. /\ m = "sending"
      /\ UNCHANGED <<request, inReady, seq, reply, outcome, hidden, genuine, cache, job, left, timeouts>>
    BY DEF Any!SendDownstream
<1>2. CASE node[1] = "blocked" /\ m' = "unsent" /\ UNCHANGED <<node, pkt, damage>>
    BY <1>1, <1>2 DEF RingTypes, Any!TypeOK, NodeFacts, Live
<1>3. CASE /\ node[1] = "armed" /\ m' = "wait" /\ node' = [node EXCEPT ![1] = "got"]
           /\ \E p \in {Any!Request(request), Any!Bad} : 
                 pkt' = [pkt EXCEPT ![1] = p] /\ Any!Arrives(p, Any!Request(request))
  <2>1. PICK p \in {Any!Request(request), Any!Bad} : 
                 pkt' = [pkt EXCEPT ![1] = p] /\ Any!Arrives(p, Any!Request(request))
      BY <1>3
  <2>2. damage' \in 0..MaxDamage /\ p \in Any!Packets
      BY <2>1, ArrivesType, RequestType, BadType DEF RingTypes, Any!TypeOK
  <2>3. Any!TypeOK'
      BY <1>1, <1>3, <2>1, <2>2, NodesAre DEF RingTypes, Any!TypeOK
  <2>4. NodeFacts'
      BY <1>1, <1>3, <2>1, NodesAre DEF RingTypes, Any!TypeOK, NodeFacts, Live
  <2> QED BY <2>3, <2>4 DEF RingTypes
<1> QED BY <1>2, <1>3 DEF Any!SendDownstream

LEMMA MasterEndsTypes ==
    ASSUME Any!RingAssumption, RingTypes, Any!Completes \/ Any!OwnPartFails \/ Any!TimesOut
    PROVE  RingTypes'
<1>1. CASE Any!Completes
  <2>1. UNCHANGED <<node, pkt, cache, job, left, damage, timeouts>> /\ m \in {"wait", "unsent"}
      BY <1>1 DEF Any!Completes
  <2>2. CASE /\ hidden' = (hidden /\ (Any!Request(request).kind = "layers" => reply.good))
             /\ genuine' = (genuine /\ (Any!Request(request).kind = "collect" => reply.good))
             /\ IF request = Any!LastRequest
                  THEN m' = "idle" /\ outcome' = "ok" /\ request' = request
                  ELSE m' = "send" /\ request' = request + 1 /\ outcome' = outcome
             /\ UNCHANGED <<inReady, seq, reply>>
    <3>1. hidden' \in BOOLEAN /\ genuine' \in BOOLEAN
      <4>1. hidden' = (hidden /\ (Any!Request(request).kind = "layers" => reply.good))
          BY <2>2
      <4>2. genuine' = (genuine /\ (Any!Request(request).kind = "collect" => reply.good))
          BY <2>2
      <4> QED BY <4>1, <4>2, Zenon
    <3>2. request' \in 0..Any!LastRequest /\ m' \in {"idle", "send"} /\ outcome' \in {"none", "ok", "error"}
        BY <2>2, Counts DEF RingTypes, Any!TypeOK
    <3>3. UNCHANGED <<inReady, seq, reply>>
        BY <2>2
    <3>4. Any!TypeOK'
        BY <2>1, <3>1, <3>2, <3>3 DEF RingTypes, Any!TypeOK
    <3> QED BY <2>1, <3>2, <3>4 DEF RingTypes, NodeFacts, Live
  <2>3. CASE Any!Fails
      BY <2>1, <2>3 DEF Any!Fails, RingTypes, Any!TypeOK, NodeFacts, Live
  <2> QED BY <1>1, <2>2, <2>3 DEF Any!Completes
<1>2. CASE Any!OwnPartFails
  <2>1. Any!Fails /\ UNCHANGED <<node, pkt, cache, job, left, timeouts>> /\ damage' \in 0..MaxDamage
      BY <1>2 DEF Any!OwnPartFails, Any!RingAssumption, RingTypes, Any!TypeOK
  <2>2. Any!TypeOK'
      BY <2>1 DEF Any!Fails, RingTypes, Any!TypeOK
  <2> QED BY <2>1, <2>2 DEF Any!Fails, RingTypes, NodeFacts, Live
<1>3. CASE Any!TimesOut
  <2>1. /\ left' = [left EXCEPT ![0] = @ + 1] /\ m \in {"wait", "unsent"}
        /\ Any!Fails /\ UNCHANGED <<node, pkt, cache, job, damage>>
        /\ timeouts' = timeouts \/ (timeouts < MaxTimeouts /\ timeouts' = timeouts + 1)
      BY <1>3 DEF Any!TimesOut
  <2>2. left[0] < Any!InAir /\ timeouts' \in 0..MaxTimeouts
      BY <2>1 DEF RingTypes, Any!TypeOK, NodeFacts, Any!RingAssumption
  <2>3. left' \in [Any!Nodes \cup {0} -> 0..Any!InAir] /\ \A n \in Any!Nodes : left'[n] = left[n]
      BY <2>1, <2>2, NodesAre DEF RingTypes, Any!TypeOK, Any!InAir
  <2>4. Any!TypeOK'
      BY <2>1, <2>2, <2>3 DEF Any!Fails, RingTypes, Any!TypeOK
  <2> QED BY <2>1, <2>3, <2>4 DEF Any!Fails, RingTypes, NodeFacts, Live
<1> QED BY <1>1, <1>2, <1>3

\* What leaves the packets alone.
LEMMA NodeTypes ==
    ASSUME Any!RingAssumption, RingTypes, NEW n \in Any!Nodes,
           Any!Passes(n) \/ Any!Drops(n) \/ Any!IdleTimeout(n)
    PROVE  RingTypes'
<1>1. CASE Any!Passes(n)
  <2>1. /\ node[n] = "got" /\ node' \in [Any!Nodes -> {"armed", "got", "starting", "send", "blocked"}]
        /\ \A k \in Any!Nodes : k # n => node'[k] = node[k]
        /\ node'[n] \in {"armed", "send"} /\ (node'[n] = "send" <=> Live(n))
        /\ UNCHANGED <<Any!master, pkt, cache, job, left, damage, timeouts>>
      BY <1>1 DEF Any!Passes, RingTypes, Any!TypeOK, Live
  <2>2. Any!TypeOK'
      BY <2>1 DEF RingTypes, Any!TypeOK, Any!master
  <2>3. NodeFacts'
      BY <2>1 DEF RingTypes, Any!TypeOK, NodeFacts, Live, Any!master
  <2> QED BY <2>2, <2>3 DEF RingTypes
<1>2. CASE Any!Drops(n)
  <2>1. /\ node[n] = "send" /\ node' = [node EXCEPT ![n] = "armed"] /\ pkt' = [pkt EXCEPT ![n] = Any!Bad]
        /\ UNCHANGED <<Any!master, cache, job, left, damage, timeouts>>
      BY <1>2 DEF Any!Drops
  <2>2. Any!TypeOK'
      BY <2>1, BadType DEF RingTypes, Any!TypeOK, Any!master
  <2>3. NodeFacts'
      BY <2>1, BadType DEF RingTypes, Any!TypeOK, NodeFacts, Live, Any!master
  <2> QED BY <2>2, <2>3 DEF RingTypes
<1>3. CASE Any!IdleTimeout(n)
  <2>1. /\ node[n] = "armed" /\ left' = [left EXCEPT ![n] = @ + 1]
        /\ node' = [node EXCEPT ![n] = IF left'[n] < Any!InAir THEN "armed" ELSE "blocked"]
        /\ UNCHANGED <<Any!master, pkt, cache, job, damage, timeouts>>
      BY <1>3 DEF Any!IdleTimeout
  <2>2. left[n] < Any!InAir /\ left[n] \in 0..Any!InAir
      BY <2>1 DEF RingTypes, Any!TypeOK, NodeFacts
  <2>3. /\ left' \in [Any!Nodes \cup {0} -> 0..Any!InAir]
        /\ \A k \in Any!Nodes \cup {0} : k # n => left'[k] = left[k]
      BY <2>1, <2>2 DEF RingTypes, Any!TypeOK, Any!InAir
  <2>4. Any!TypeOK'
      BY <2>1, <2>3 DEF RingTypes, Any!TypeOK, Any!master
  <2>5. node'[n] # "blocked" => left'[n] < Any!InAir
      BY <2>1 DEF RingTypes, Any!TypeOK
  <2>6. \A k \in Any!Nodes : k # n => node'[k] = node[k]
      BY <2>1 DEF RingTypes, Any!TypeOK
  <2>7. node'[n] \in {"armed", "blocked"}
      BY <2>1 DEF RingTypes, Any!TypeOK
  <2>8. NodeFacts'
      BY <2>1, <2>3, <2>5, <2>6, <2>7, NodesAre DEF RingTypes, NodeFacts, Live, Any!master
  <2> QED BY <2>4, <2>8 DEF RingTypes
<1> QED BY <1>1, <1>2, <1>3

\* A packet moves on, as it is or damaged.
Moved(n, p) ==
    /\ node[n] = "send" /\ damage' \in 0..MaxDamage /\ p \in Any!Packets
    /\ UNCHANGED <<m, request, seq, outcome, hidden, genuine, cache, job, left, timeouts>>
    /\ node' \in [Any!Nodes -> {"armed", "got", "starting", "send", "blocked"}]
    /\ pkt' \in [Any!Nodes -> Any!Packets]
    /\ pkt'[n] = Any!Bad /\ node'[n] = "armed"
    /\ \/ /\ n \in Any!Compute /\ n + 1 \in Any!Nodes /\ node[n + 1] = "armed" /\ ~Live(n + 1)
          /\ pkt'[n + 1] = p /\ node'[n + 1] = "got"
          /\ \A k \in Any!Nodes : k \notin {n, n + 1} => pkt'[k] = pkt[k] /\ node'[k] = node[k]
          /\ UNCHANGED <<reply, inReady>>
       \/ /\ n = Any!Relay /\ inReady /\ inReady' = FALSE /\ reply' = p
          /\ \A k \in Any!Nodes : k # n => pkt'[k] = pkt[k] /\ node'[k] = node[k]

LEMMA ForwardIs ==
    ASSUME Any!RingAssumption, RingTypes, NEW n \in Any!Nodes, Any!Forward(n)
    PROVE  \E p \in {pkt[n], Any!Bad} : Moved(n, p)
<1>1. PICK p \in {pkt[n], Any!Bad} :
          /\ Any!Arrives(p, pkt[n])
          /\ \/ /\ n # Any!Relay /\ node[n + 1] = "armed"
                /\ node' = [node EXCEPT ![n] = "armed", ![n + 1] = "got"]
                /\ pkt' = [pkt EXCEPT ![n + 1] = p, ![n] = Any!Bad]
                /\ UNCHANGED <<reply, inReady>>
             \/ /\ n = Any!Relay /\ inReady
                /\ node' = [node EXCEPT ![n] = "armed"]
                /\ pkt' = [pkt EXCEPT ![n] = Any!Bad]
                /\ reply' = p /\ inReady' = FALSE
    BY DEF Any!Forward
<1>2. /\ node[n] = "send"
      /\ UNCHANGED <<m, request, seq, outcome, hidden, genuine, cache, job, left, timeouts>>
    BY DEF Any!Forward
<1>3. damage' \in 0..MaxDamage /\ p \in Any!Packets
    BY <1>1, ArrivesType, BadType DEF RingTypes, Any!TypeOK
<1>4. CASE /\ n # Any!Relay /\ node[n + 1] = "armed"
           /\ node' = [node EXCEPT ![n] = "armed", ![n + 1] = "got"]
           /\ pkt' = [pkt EXCEPT ![n + 1] = p, ![n] = Any!Bad]
           /\ UNCHANGED <<reply, inReady>>
  <2>1. n \in Any!Compute /\ n + 1 \in Any!Nodes /\ n # n + 1
      BY <1>4, NodesAre
  <2>2. ~Live(n + 1)
      BY <1>4, <2>1 DEF RingTypes, NodeFacts
  <2> QED BY <1>2, <1>3, <1>4, <2>1, <2>2, BadType DEF Moved, RingTypes, Any!TypeOK
<1>5. CASE /\ n = Any!Relay /\ inReady
           /\ node' = [node EXCEPT ![n] = "armed"]
           /\ pkt' = [pkt EXCEPT ![n] = Any!Bad]
           /\ reply' = p /\ inReady' = FALSE
    BY <1>2, <1>3, <1>5, BadType DEF Moved, RingTypes, Any!TypeOK
<1> QED BY <1>1, <1>4, <1>5

LEMMA ForwardTypes ==
    ASSUME Any!RingAssumption, RingTypes, NEW n \in Any!Nodes, Any!Forward(n)
    PROVE  RingTypes'
<1>1. PICK p \in {pkt[n], Any!Bad} : Moved(n, p)
    BY ForwardIs
<1>2. Any!TypeOK'
  <2>1. inReady \in BOOLEAN /\ reply \in Any!Packets /\ p \in Any!Packets
      BY <1>1 DEF Moved, RingTypes, Any!TypeOK
  <2>2. (UNCHANGED <<reply, inReady>>) \/ (inReady' = FALSE /\ reply' = p)
      BY <1>1 DEF Moved
  <2>3. reply' \in Any!Packets
      BY <2>1, <2>2
  <2>4. inReady' \in BOOLEAN
      BY <2>1, <2>2
  <2> QED BY <1>1, <2>3, <2>4 DEF Moved, RingTypes, Any!TypeOK
<1>3. NodeFacts'
    BY <1>1, BadType DEF Moved, RingTypes, NodeFacts, Live
<1> QED BY <1>2, <1>3 DEF RingTypes

\* A stage that works on its packet keeps it, with its owner and sequence.
LEMMA StageIs ==
    ASSUME Any!RingAssumption, RingTypes, NEW n \in Any!Compute, Any!StageStep(n)
    PROVE  /\ UNCHANGED <<Any!master, left, timeouts>>
           /\ node[n] \in {"got", "starting"} /\ Live(n)
           /\ node' \in [Any!Nodes -> {"armed", "got", "starting", "send", "blocked"}]
           /\ node'[n] = "send" \/ (node'[n] = "starting" /\ pkt[n].kind = "start" /\ pkt' = pkt)
           /\ \A k \in Any!Nodes : k # n => node'[k] = node[k]
           /\ pkt' \in [Any!Nodes -> Any!Packets]
           /\ pkt'[n].kind # "bad" /\ pkt'[n].own = pkt[n].own /\ pkt'[n].seq = pkt[n].seq
           /\ \A k \in Any!Nodes : k # n => pkt'[k] = pkt[k]
<1>0. n \in Any!Nodes /\ n # Any!Relay /\ pkt \in [Any!Nodes -> Any!Packets]
    BY NodesAre DEF RingTypes, Any!TypeOK
<1>1. CASE Any!Reset(n)
    BY <1>0, <1>1 DEF Any!Reset, RingTypes, Any!TypeOK, Live
<1>2. CASE Any!Layers(n)
  <2>1. /\ node[n] = "got" /\ pkt[n].kind = "layers" /\ node' = [node EXCEPT ![n] = "send"]
        /\ UNCHANGED <<Any!master, left, timeouts>>
        /\ pkt' = pkt \/ pkt' = Any!Replied(n, Any!OverOwnEntries(n))
      BY <1>2 DEF Any!Layers
  <2>2. Any!OverOwnEntries(n) \in BOOLEAN
      BY <1>0 DEF Any!OverOwnEntries, Any!Packets
  <2>3. CASE pkt' = pkt
      BY <1>0, <2>1, <2>3 DEF RingTypes, Any!TypeOK, Live
  <2>4. CASE pkt' = Any!Replied(n, Any!OverOwnEntries(n))
    <3>1. /\ pkt' \in [Any!Nodes -> Any!Packets] /\ \A k \in Any!Nodes : k # n => pkt'[k] = pkt[k]
          /\ pkt'[n].kind = "reply" /\ pkt'[n].seq = pkt[n].seq /\ pkt'[n].own = pkt[n].own
        BY <1>0, <2>2, <2>4, RepliedIs
    <3> QED BY <1>0, <2>1, <3>1 DEF RingTypes, Any!TypeOK, Live
  <2> QED BY <2>1, <2>3, <2>4
<1>3. CASE Any!Drain(n)
    BY <1>0, <1>3 DEF Any!Drain, RingTypes, Any!TypeOK, Live
<1>4. CASE Any!StartScan(n)
  <2>1. pkt[n].kind = "start"
      BY <1>0, <1>4 DEF Any!StartScan, RingTypes, NodeFacts
  <2> QED BY <1>0, <1>4, <2>1 DEF Any!StartScan, RingTypes, Any!TypeOK, Live
<1>5. CASE Any!Collect(n)
  <2>1. /\ node[n] = "got" /\ pkt[n].kind = "collect" /\ node' = [node EXCEPT ![n] = "send"]
        /\ UNCHANGED <<Any!master, left, timeouts>>
        /\ pkt' = pkt \/ pkt' = Any!Replied(n, job[n].good)
      BY <1>5 DEF Any!Collect
  <2>2. job[n].good \in BOOLEAN
      BY <1>0 DEF RingTypes, Any!TypeOK
  <2>3. CASE pkt' = pkt
      BY <1>0, <2>1, <2>3 DEF RingTypes, Any!TypeOK, Live
  <2>4. CASE pkt' = Any!Replied(n, job[n].good)
    <3>1. /\ pkt' \in [Any!Nodes -> Any!Packets] /\ \A k \in Any!Nodes : k # n => pkt'[k] = pkt[k]
          /\ pkt'[n].kind = "reply" /\ pkt'[n].seq = pkt[n].seq /\ pkt'[n].own = pkt[n].own
        BY <1>0, <2>2, <2>4, RepliedIs
    <3> QED BY <1>0, <2>1, <3>1 DEF RingTypes, Any!TypeOK, Live
  <2> QED BY <2>1, <2>3, <2>4
<1> QED BY <1>1, <1>2, <1>3, <1>4, <1>5 DEF Any!StageStep

\* The rest of what a stage changes.
LEMMA StageData ==
    ASSUME Any!RingAssumption, RingTypes, NEW n \in Any!Compute, Any!StageStep(n)
    PROVE  /\ cache' \in [Any!Compute -> SUBSET (0..Inputs + Outputs)]
           /\ job' \in [Any!Compute -> JobRecords] /\ damage' \in 0..MaxDamage
           /\ \A k \in Any!Compute : k # n => cache'[k] = cache[k] /\ job'[k] = job[k]
<1>0. /\ n \in Any!Nodes /\ pkt \in [Any!Nodes -> Any!Packets] /\ job \in [Any!Compute -> JobRecords]
      /\ damage \in 0..MaxDamage
      /\ cache \in [Any!Compute -> SUBSET (0..Inputs + Outputs)]
    BY NodesAre DEF RingTypes, Any!TypeOK, JobRecords
<1>1. CASE Any!Reset(n)
    BY <1>0, <1>1 DEF Any!Reset
<1>2. CASE Any!Layers(n)
  <2>1. pkt[n].pos \in 0..Inputs + Outputs
      BY <1>0 DEF Any!Packets
  <2>2. /\ UNCHANGED job
        /\ damage' = damage \/ (damage < MaxDamage /\ damage' = damage + 1)
        /\ \/ cache' = [cache EXCEPT ![n] = @ \cup {pkt[n].pos}]
           \/ cache' = [cache EXCEPT ![n] = @ \ {pkt[n].pos}]
      BY <1>2 DEF Any!Layers
  <2>3. damage' \in 0..MaxDamage
      BY <1>0, <2>2 DEF Any!RingAssumption
  <2>4. /\ cache' \in [Any!Compute -> SUBSET (0..Inputs + Outputs)]
        /\ \A k \in Any!Compute : k # n => cache'[k] = cache[k]
      BY <1>0, <2>1, <2>2
  <2> QED BY <1>0, <2>2, <2>3, <2>4
<1>3. CASE Any!Drain(n)
    BY <1>0, <1>3, DrainJob DEF Any!Drain
<1>4. CASE Any!StartScan(n)
  <2>1. pkt[n].own \in BOOLEAN
      BY <1>0 DEF Any!Packets
  <2> QED BY <1>0, <1>4, <2>1, StartScanJob DEF Any!StartScan
<1>5. CASE Any!Collect(n)
    BY <1>0, <1>5, CollectJob DEF Any!Collect
<1> QED BY <1>1, <1>2, <1>3, <1>4, <1>5 DEF Any!StageStep

LEMMA StageTypes ==
    ASSUME Any!RingAssumption, RingTypes, NEW n \in Any!Compute, Any!StageStep(n)
    PROVE  RingTypes'
<1>1. Any!TypeOK'
    BY StageIs, StageData DEF RingTypes, Any!TypeOK, JobRecords, Any!master
<1>2. NodeFacts'
    BY StageIs, NodesAre DEF RingTypes, NodeFacts, Live, Any!master
<1> QED BY <1>1, <1>2 DEF RingTypes

LEMMA ScanTypes ==
    ASSUME Any!RingAssumption, RingTypes, NEW n \in Any!Compute, Any!Scan(n)
    PROVE  RingTypes' /\ UNCHANGED <<Any!master, node, pkt, cache, left, timeouts>>
<1>0. job \in [Any!Compute -> JobRecords] /\ damage \in 0..MaxDamage
    BY DEF RingTypes, Any!TypeOK, JobRecords
<1>1. CASE Any!ScanBegins(n)
  <2>1. /\ job' \in [Any!Compute -> JobRecords]
        /\ UNCHANGED <<Any!master, node, pkt, cache, left, damage, timeouts>>
      BY <1>0, <1>1, ScanBeginsJob DEF Any!ScanBegins
  <2> QED BY <2>1 DEF RingTypes, Any!TypeOK, JobRecords, NodeFacts, Live, Any!master
<1>2. CASE Any!ScanEnds(n)
  <2>1. job' \in [Any!Compute -> JobRecords] /\ UNCHANGED <<Any!master, node, pkt, cache, left, timeouts>>
      BY <1>0, <1>2, ScanEndsJob DEF Any!ScanEnds
  <2>2. damage' \in 0..MaxDamage
      BY <1>0, <1>2 DEF Any!ScanEnds, Any!RingAssumption
  <2>3. Any!TypeOK'
      BY <2>1, <2>2 DEF RingTypes, Any!TypeOK, JobRecords, Any!master
  <2> QED BY <2>1, <2>3 DEF RingTypes, NodeFacts, Live, Any!master
<1> QED BY <1>1, <1>2 DEF Any!Scan

LEMMA RingTypesKept ==
    ASSUME Any!RingAssumption, RingTypes, [Any!Next]_(Any!vars)
    PROVE  RingTypes'
<1>1. CASE UNCHANGED Any!vars
    BY <1>1 DEF Any!vars, Any!master, RingTypes, Any!TypeOK, NodeFacts, Live
<1>2. CASE Any!Next
    BY <1>2, CommandTypes, QueueTypes, SendTypes, MasterEndsTypes, NodeTypes, ForwardTypes, StageTypes,
       ScanTypes
    DEF Any!Next, Any!MasterStep, Any!NodeStep
<1> QED BY <1>1, <1>2

LEMMA RingTypesInit ==
    ASSUME Any!RingAssumption, Any!Init
    PROVE  RingTypes
<1>1. Any!LastRequest \in Nat /\ Any!Bad \in Any!Packets
    BY Counts, BadType
<1> HIDE DEF Any!LastRequest
<1>2. /\ job = [n \in Any!Compute |-> Any!NoJob] /\ Any!NoJob \in JobRecords
      /\ cache = [n \in Any!Compute |-> {}] /\ left = [n \in Any!Nodes \cup {0} |-> 0] /\ damage = 0
      /\ timeouts = 0
      /\ request = 0 /\ seq = 0 /\ reply = Any!Bad /\ pkt = [n \in Any!Nodes |-> Any!Bad]
      /\ node = [n \in Any!Nodes |-> "armed"]
      /\ m = "idle" /\ inReady = FALSE /\ outcome = "none" /\ hidden = TRUE /\ genuine = TRUE
    BY DEF Any!Init, Any!NoJob, JobRecords
<1>3. request \in 0..Any!LastRequest
    BY <1>1, <1>2
<1>4. seq \in 0..SeqMod - 1 /\ damage \in 0..MaxDamage /\ timeouts \in 0..MaxTimeouts
    BY <1>2 DEF Any!RingAssumption
<1>5. Any!TypeOK
  <2>1. job \in [Any!Compute -> JobRecords] /\ cache \in [Any!Compute -> SUBSET (0..Inputs + Outputs)]
      BY <1>2
  <2>2. left \in [Any!Nodes \cup {0} -> 0..Any!InAir] /\ pkt \in [Any!Nodes -> Any!Packets]
        /\ node \in [Any!Nodes -> {"armed", "got", "starting", "send", "blocked"}]
      BY <1>1, <1>2 DEF Any!InAir
  <2>3. reply \in Any!Packets /\ inReady \in BOOLEAN /\ hidden \in BOOLEAN /\ genuine \in BOOLEAN
      BY <1>1, <1>2, Zenon
  <2>4. m \in {"idle", "send", "sending", "wait", "unsent"} /\ outcome \in {"none", "ok", "error"}
      BY <1>2
  <2> QED BY <1>3, <1>4, <2>1, <2>2, <2>3, <2>4 DEF Any!TypeOK, JobRecords
<1>6. NodeFacts
    BY <1>2, BadType DEF NodeFacts, Live, Any!InAir
<1> QED BY <1>5, <1>6 DEF RingTypes

-----------------------------------------------------------------------------
\* Which packets are on their way.

Own(p) == p.own /\ p.seq = seq
Previous(p) == ~p.own /\ (p.seq + 1) % SeqMod = seq

Alone == \A a, b \in Any!Nodes : Live(a) /\ Live(b) => a = b

\* While no wait of the master has been given up, the only packet in the ring
\* is its request, or the answer.
Undisturbed ==
    /\ m = "sending" => inReady
    /\ Alone
    /\ \A n \in Any!Nodes : Live(n) => m = "wait" /\ inReady /\ Own(pkt[n])

\* After one was given up, READY lets one more packet through than the master
\* waits for: that of the request before may be ahead of the present one.
OneBehind ==
    /\ m \in {"idle", "send"} \/ (m = "wait" /\ ~inReady) =>
         Alone /\ \A n \in Any!Nodes : Live(n) => pkt[n].seq = seq
    /\ m \in {"sending", "unsent"} =>
         Alone /\ \A n \in Any!Nodes : Live(n) => inReady /\ Previous(pkt[n])
    /\ m = "wait" /\ inReady =>
         /\ \A n \in Any!Nodes : Live(n) => Own(pkt[n]) \/ Previous(pkt[n])
         /\ \A a, b \in Any!Nodes : Live(a) /\ Live(b) /\ a < b => Own(pkt[a]) /\ Previous(pkt[b])

Flow ==
    /\ m \in {"idle", "send"} => ~inReady
    /\ left[0] = 0 => Undisturbed
    /\ left[0] = 1 => OneBehind

\* The reply that has come is one of these two, and if it is the present one,
\* nothing is left in the ring.
ReplyFlow ==
    m \notin {"idle", "send"} /\ ~inReady /\ reply.kind # "bad" =>
       /\ Own(reply) \/ Previous(reply)
       /\ reply.own => m = "wait" /\ \A n \in Any!Nodes : ~Live(n)

\* Once the reset has come back, or while packets are only lost, nothing of an
\* earlier request is in the ring.
Clean ==
    timeouts = 0 \/ (m # "idle" /\ request > 0) =>
       /\ m = "sending" => inReady
       /\ \A n \in Any!Nodes : Live(n) => m = "wait" /\ inReady /\ pkt[n].own

RingFlow == Flow /\ ReplyFlow /\ Clean

LEMMA Sequences ==
    ASSUME Any!RingAssumption, NEW s \in 0..SeqMod - 1
    PROVE  (s + 1) % SeqMod \in 0..SeqMod - 1 /\ (s + 1) % SeqMod # s
<1>1. SeqMod \in Nat /\ SeqMod > 1 /\ s \in Nat /\ s < SeqMod
    BY DEF Any!RingAssumption
<1> QED BY <1>1, SMT

\* A packet of the present sequence is not one of the request before.
LEMMA OwnIsPresent ==
    ASSUME Any!RingAssumption, NEW p \in Any!Packets, p.seq = seq, Own(p) \/ Previous(p)
    PROVE  p.own
<1>1. p.seq \in 0..SeqMod - 1
    BY DEF Any!Packets
<1> QED BY <1>1, Sequences DEF Own, Previous

(***************************************************************************)
(* What the master accepts is the answer to its present request: a packet  *)
(* of an earlier one that READY let through has another sequence.          *)
(***************************************************************************)
LEMMA AcceptedOwn == Any!RingAssumption /\ RingTypes /\ ReplyFlow => Any!AcceptedIsOwn
<1> SUFFICES ASSUME Any!RingAssumption, RingTypes, ReplyFlow, m = "wait", ~inReady, Any!Answers(reply)
             PROVE  reply.own
    BY DEF Any!AcceptedIsOwn
<1>1. reply.kind # "bad" /\ reply.seq = seq
    BY DEF Any!Answers
<1>2. Own(reply) \/ Previous(reply)
    BY <1>1 DEF ReplyFlow
<1> QED BY <1>1, <1>2, OwnIsPresent DEF RingTypes, Any!TypeOK

\* Steps after which no packet is there that was not.
FewerPackets ==
    /\ \A n \in Any!Nodes : pkt'[n].kind # "bad" => Live(n) /\ pkt'[n].own = pkt[n].own
       /\ pkt'[n].seq = pkt[n].seq
    /\ UNCHANGED <<m, request, inReady, seq, reply, timeouts>> /\ left'[0] = left[0]

LEMMA FewerFlow ==
    ASSUME Any!RingAssumption, RingFlow, FewerPackets
    PROVE  RingFlow'
<1> USE DEF Live
<1>1. Undisturbed => Undisturbed'
    BY DEF FewerPackets, Undisturbed, Alone, Own
<1>2. OneBehind => OneBehind'
    BY DEF FewerPackets, OneBehind, Alone, Own, Previous
<1>3. ReplyFlow'
    BY DEF FewerPackets, RingFlow, ReplyFlow, Own, Previous
<1>4. Clean'
    BY DEF FewerPackets, RingFlow, Clean
<1> QED BY <1>1, <1>2, <1>3, <1>4 DEF FewerPackets, RingFlow, Flow

LEMMA FewerSteps ==
    ASSUME Any!RingAssumption, RingTypes,
           \/ \E n \in Any!Nodes : Any!Passes(n) \/ Any!Drops(n) \/ Any!IdleTimeout(n)
           \/ \E n \in Any!Compute : Any!StageStep(n) \/ Any!Scan(n)
    PROVE  FewerPackets
<1>1. CASE \E n \in Any!Nodes : Any!Passes(n) \/ Any!Drops(n)
    BY <1>1, BadType DEF Any!Passes, Any!Drops, FewerPackets, Any!master, RingTypes, Any!TypeOK, Live
<1>2. CASE \E n \in Any!Nodes : Any!IdleTimeout(n)
  <2>1. PICK n \in Any!Nodes : Any!IdleTimeout(n)
      BY <1>2
  <2>2. n # 0 /\ left' = [left EXCEPT ![n] = @ + 1] /\ UNCHANGED <<Any!master, pkt, timeouts>>
      BY <2>1, NodesAre DEF Any!IdleTimeout
  <2> QED BY <2>2 DEF FewerPackets, Any!master, RingTypes, Any!TypeOK, Live
<1>3. CASE \E n \in Any!Compute : Any!StageStep(n)
    BY <1>3, StageIs DEF FewerPackets, Any!master, Live
<1>4. CASE \E n \in Any!Compute : Any!Scan(n)
    BY <1>4, ScanTypes DEF FewerPackets, Any!master, Live
<1> QED BY <1>1, <1>2, <1>3, <1>4

LEMMA CommandFlow ==
    ASSUME Any!RingAssumption, RingTypes, RingFlow, Any!Command
    PROVE  RingFlow'
<1>1. /\ m = "idle" /\ m' = "send" /\ request' = 0 /\ reply' = Any!Bad
      /\ UNCHANGED <<inReady, seq, left, timeouts>>
      /\ \A n \in Any!Nodes : pkt'[n].kind = pkt[n].kind /\ pkt'[n].seq = pkt[n].seq
    BY PacketChanges DEF Any!Command, RingTypes, Any!TypeOK
<1> USE DEF Live
<1>2. left[0] = 0 => Undisturbed'
    BY <1>1 DEF RingFlow, Flow, Undisturbed, Alone
<1>3. left[0] = 1 => OneBehind'
    BY <1>1 DEF RingFlow, Flow, OneBehind, Alone
<1>4. Clean'
    BY <1>1 DEF RingFlow, Clean
<1> QED BY <1>1, <1>2, <1>3, <1>4 DEF RingFlow, Flow, ReplyFlow

LEMMA QueueFlow ==
    ASSUME Any!RingAssumption, RingTypes, RingFlow, Any!QueueIncoming
    PROVE  RingFlow'
<1>1. /\ m = "send" /\ m' = "sending" /\ inReady' /\ reply' = Any!Bad /\ seq' = (seq + 1) % SeqMod
      /\ UNCHANGED <<request, left, timeouts>>
      /\ \A n \in Any!Nodes : pkt'[n].kind = pkt[n].kind /\ pkt'[n].seq = pkt[n].seq /\ ~pkt'[n].own
    BY PacketChanges DEF Any!QueueIncoming, RingTypes, Any!TypeOK
<1> USE DEF Live
<1>2. left[0] = 0 => Undisturbed'
    BY <1>1 DEF RingFlow, Flow, Undisturbed, Alone
<1>3. left[0] = 1 => OneBehind'
    BY <1>1 DEF RingFlow, Flow, OneBehind, Alone, Previous
<1>4. Clean'
    BY <1>1 DEF RingFlow, Clean
<1> QED BY <1>1, <1>2, <1>3, <1>4 DEF RingFlow, Flow, ReplyFlow

LEMMA SendFlow ==
    ASSUME Any!RingAssumption, RingTypes, RingFlow, Any!SendDownstream
    PROVE  RingFlow'
<1>1. /\ m = "sending" /\ UNCHANGED <<request, inReady, seq, reply, left, timeouts>>
    BY DEF Any!SendDownstream
<1> USE DEF Live
<1>2. CASE m' = "unsent" /\ UNCHANGED pkt
  <2>1. left[0] = 0 => Undisturbed'
      BY <1>1, <1>2 DEF RingFlow, Flow, Undisturbed, Alone
  <2>2. left[0] = 1 => OneBehind'
      BY <1>1, <1>2 DEF RingFlow, Flow, OneBehind, Alone, Previous
  <2>3. Clean' /\ ReplyFlow'
      BY <1>1, <1>2 DEF RingFlow, Clean, ReplyFlow, Own, Previous
  <2> QED BY <1>1, <1>2, <2>1, <2>2, <2>3 DEF RingFlow, Flow
<1>3. CASE /\ m' = "wait" /\ node[1] = "armed"
           /\ \E p \in {Any!Request(request), Any!Bad} : pkt' = [pkt EXCEPT ![1] = p]
  <2>1. PICK p \in {Any!Request(request), Any!Bad} : pkt' = [pkt EXCEPT ![1] = p]
      BY <1>3
  <2>2. /\ 1 \in Any!Nodes /\ ~Live(1) /\ pkt'[1] = p /\ \A n \in Any!Nodes : n # 1 => pkt'[n] = pkt[n]
        /\ \A n \in Any!Nodes : n # 1 => 1 < n
      BY <1>3, <2>1, NodesAre DEF RingTypes, Any!TypeOK, NodeFacts, Any!Nodes, Any!Relay
  <2>3. p.kind # "bad" => p.own /\ p.seq = seq
      BY RequestType, BadType DEF RingTypes, Any!TypeOK
  <2> HIDE DEF Live
  <2>4. \A n \in Any!Nodes : (pkt'[n].kind # "bad" => n = 1 \/ Live(n))
      BY <2>2 DEF Live
  <2>5. left[0] = 0 => Undisturbed'
    <3>1. left[0] = 0 => inReady /\ \A n \in Any!Nodes : ~Live(n)
        BY <1>1 DEF RingFlow, Flow, Undisturbed
    <3> QED BY <1>1, <1>3, <2>2, <2>3, <2>4, <3>1 DEF Undisturbed, Alone, Own, Live
  <2>6. left[0] = 1 => OneBehind'
    <3> SUFFICES ASSUME left[0] = 1 PROVE OneBehind'
        OBVIOUS
    <3>1. Alone /\ \A n \in Any!Nodes : Live(n) => inReady /\ Previous(pkt[n])
        BY <1>1 DEF RingFlow, Flow, OneBehind
    <3>2. CASE inReady
      <4>1. ASSUME NEW n \in Any!Nodes, pkt'[n].kind # "bad"
            PROVE  IF n = 1 THEN Own(pkt'[n]) ELSE Live(n) /\ Previous(pkt'[n])
          BY <2>2, <2>3, <2>4, <3>1, <4>1 DEF Own
      <4>3. ASSUME NEW a \in Any!Nodes, NEW b \in Any!Nodes, pkt'[a].kind # "bad", pkt'[b].kind # "bad", a < b
            PROVE  a = 1 /\ b # 1
          BY <2>2, <3>1, <4>1, <4>3 DEF Alone, Any!Nodes, Any!Relay
      <4>4. m' = "wait" /\ inReady'
          BY <1>1, <1>3, <3>2
      <4> QED BY <1>1, <4>1, <4>3, <4>4 DEF OneBehind, Live, Own, Previous
    <3>3. CASE ~inReady
        BY <1>1, <1>3, <2>2, <2>3, <2>4, <3>1, <3>3 DEF OneBehind, Alone, Live
    <3> QED BY <3>2, <3>3
  <2>7. Clean'
      BY <1>1, <1>3, <2>2, <2>3, <2>4 DEF RingFlow, Clean, Live
  <2>8. ReplyFlow'
      BY <1>1, <1>3 DEF RingFlow, ReplyFlow, Own, Previous
  <2> QED BY <1>1, <1>3, <2>5, <2>6, <2>7, <2>8 DEF RingFlow, Flow
<1> QED BY <1>2, <1>3 DEF Any!SendDownstream

LEMMA CompletesFlow ==
    ASSUME Any!RingAssumption, RingTypes, RingFlow, Any!Completes
    PROVE  RingFlow'
<1>1. /\ m \in {"wait", "unsent"} /\ ~inReady /\ m' \in {"idle", "send"}
      /\ UNCHANGED <<pkt, left, timeouts, seq>> /\ ~inReady'
      /\ \/ m' = "idle"
         \/ m = "wait" /\ Any!Answers(reply) /\ request' = request + 1
    BY DEF Any!Completes, Any!Fails
<1> USE DEF Live
<1>2. left[0] = 0 => Undisturbed'
    BY <1>1 DEF RingFlow, Flow, Undisturbed, Alone
<1>3. left[0] = 1 => OneBehind'
    BY <1>1 DEF RingFlow, Flow, OneBehind, Alone
<1>4. Clean'
  <2>1. CASE m' = "idle"
      BY <1>1, <2>1 DEF RingFlow, Clean
  <2>2. CASE m = "wait" /\ Any!Answers(reply)
    <3>1. reply.kind # "bad" /\ reply.own
        BY <1>1, <2>2, AcceptedOwn DEF Any!AcceptedIsOwn, Any!Answers, RingFlow
    <3>2. \A n \in Any!Nodes : ~Live(n)
        BY <1>1, <2>2, <3>1 DEF RingFlow, ReplyFlow
    <3> QED BY <1>1, <3>2 DEF Clean
  <2> QED BY <1>1, <2>1, <2>2
<1> QED BY <1>1, <1>2, <1>3, <1>4 DEF RingFlow, Flow, ReplyFlow

LEMMA GivesUpFlow ==
    ASSUME Any!RingAssumption, RingTypes, RingFlow, Any!OwnPartFails \/ Any!TimesOut
    PROVE  RingFlow'
<1> USE DEF Live
<1>1. CASE Any!OwnPartFails
  <2>1. m = "send" /\ m' = "idle" /\ ~inReady' /\ UNCHANGED <<pkt, left, timeouts, seq>>
      BY <1>1 DEF Any!OwnPartFails, Any!Fails
  <2>2. left[0] = 0 => Undisturbed'
      BY <2>1 DEF RingFlow, Flow, Undisturbed, Alone
  <2>3. left[0] = 1 => OneBehind'
      BY <2>1 DEF RingFlow, Flow, OneBehind, Alone
  <2>4. Clean'
      BY <2>1 DEF RingFlow, Clean
  <2> QED BY <2>1, <2>2, <2>3, <2>4 DEF RingFlow, Flow, ReplyFlow
<1>2. CASE Any!TimesOut
  <2>1. /\ m \in {"wait", "unsent"} /\ m' = "idle" /\ ~inReady' /\ UNCHANGED <<pkt, seq>>
        /\ left' = [left EXCEPT ![0] = @ + 1]
        /\ (Any!Lost /\ timeouts' = timeouts) \/ timeouts' = timeouts + 1
      BY <1>2 DEF Any!TimesOut, Any!Fails
  <2>2. left[0] \in 0..Any!InAir /\ left'[0] = left[0] + 1 /\ timeouts \in Nat
      BY <2>1 DEF RingTypes, Any!TypeOK
  <2>3. left'[0] = 1 => OneBehind'
      BY <2>1, <2>2 DEF RingFlow, Flow, Undisturbed, OneBehind, Alone, Own, Any!InAir
  <2>4. Clean'
    <3>1. Any!Lost => \A n \in Any!Nodes : ~Live(n)
        BY DEF Any!Lost, RingTypes, NodeFacts
    <3> QED BY <2>1, <2>2, <3>1 DEF Clean
  <2>5. left'[0] # 0
      BY <2>2 DEF Any!InAir
  <2> QED BY <2>1, <2>3, <2>4, <2>5 DEF RingFlow, Flow, ReplyFlow
<1> QED BY <1>1, <1>2

LEMMA ForwardFlow ==
    ASSUME Any!RingAssumption, RingTypes, RingFlow, NEW n \in Any!Nodes, Any!Forward(n)
    PROVE  RingFlow'
<1>1. PICK p \in {pkt[n], Any!Bad} : Moved(n, p)
    BY ForwardIs
<1>2. UNCHANGED <<m, request, seq, left, timeouts>> /\ Live(n) /\ n \in Nat /\ pkt'[n].kind = "bad"
    BY <1>1, BadType, NodesAre DEF Moved, RingTypes, NodeFacts
<1>3. p.kind # "bad" => p = pkt[n]
    BY <1>1, BadType DEF Moved
<1>4. CASE /\ n + 1 \in Any!Nodes /\ ~Live(n + 1) /\ pkt'[n + 1] = p
           /\ \A k \in Any!Nodes : k \notin {n, n + 1} => pkt'[k] = pkt[k]
           /\ UNCHANGED <<reply, inReady>>
  \* What is there stems from a packet that was, one node before or in its place.
  <2>1. ASSUME NEW k \in Any!Nodes, pkt'[k].kind # "bad"
        PROVE  IF k = n + 1 THEN pkt'[k] = pkt[n] ELSE k # n /\ Live(k) /\ pkt'[k] = pkt[k]
      BY <1>2, <1>3, <1>4, <2>1 DEF Live
  <2>2. Alone => Alone'
      BY <1>2, <2>1 DEF Alone, Live
  <2>3. ASSUME NEW k \in Any!Nodes, pkt'[k].kind # "bad"
        PROVE  \E j \in Any!Nodes : Live(j) /\ pkt'[k] = pkt[j]
      BY <1>2, <2>1, <2>3
  <2>4. Undisturbed => Undisturbed'
      BY <1>2, <1>4, <2>2, <2>3 DEF Undisturbed, Own, Live
  <2>5. OneBehind => OneBehind'
    <3> SUFFICES ASSUME OneBehind PROVE OneBehind'
        OBVIOUS
    <3>1. CASE m = "wait" /\ inReady
      <4>1. ASSUME NEW k \in Any!Nodes, pkt'[k].kind # "bad" PROVE Own(pkt'[k]) \/ Previous(pkt'[k])
          BY <2>3, <3>1, <4>1 DEF OneBehind
      <4>2. ASSUME NEW a \in Any!Nodes, NEW b \in Any!Nodes, pkt'[a].kind # "bad", pkt'[b].kind # "bad", a < b
            PROVE  Own(pkt'[a]) /\ Previous(pkt'[b])
        <5>1. \A j, k \in Any!Nodes : Live(j) /\ Live(k) /\ j < k => Own(pkt[j]) /\ Previous(pkt[k])
            BY <3>1 DEF OneBehind
        <5>2. a \in Nat /\ b \in Nat
            BY NodesAre
        <5>3. CASE a = n + 1
            BY <1>2, <2>1, <4>2, <5>1, <5>2, <5>3
        <5>4. CASE b = n + 1
          <6>1. a < n
              BY <2>1, <4>2, <5>2, <5>4, <1>2
          <6> QED BY <1>2, <2>1, <4>2, <5>1, <5>2, <5>4, <6>1
        <5>5. CASE a # n + 1 /\ b # n + 1
            BY <2>1, <4>2, <5>1, <5>5
        <5> QED BY <5>3, <5>4, <5>5
      <4> QED BY <1>2, <1>4, <3>1, <4>1, <4>2 DEF OneBehind, Own, Previous, Live
    <3>2. CASE ~(m = "wait" /\ inReady)
        BY <1>2, <1>4, <2>2, <2>3, <3>2 DEF OneBehind, Previous, Live
    <3> QED BY <3>1, <3>2
  <2>6. ReplyFlow'
      BY <1>2, <1>4 DEF RingFlow, ReplyFlow, Own, Previous
  <2>7. Clean'
      BY <1>2, <1>4, <2>3 DEF RingFlow, Clean, Live
  <2> QED BY <1>2, <1>4, <2>4, <2>5, <2>6, <2>7 DEF RingFlow, Flow
<1>5. CASE /\ n = Any!Relay /\ inReady /\ inReady' = FALSE /\ reply' = p
           /\ \A k \in Any!Nodes : k # n => pkt'[k] = pkt[k]
  <2>1. ASSUME NEW k \in Any!Nodes, pkt'[k].kind # "bad"
        PROVE  k # n /\ Live(k) /\ pkt'[k] = pkt[k] /\ k < n
      BY <1>2, <1>5, <2>1 DEF Live, Any!Nodes, Any!Relay
  <2>2. Undisturbed => Undisturbed' /\ m = "wait" /\ \A k \in Any!Nodes : pkt'[k].kind = "bad"
    <3> SUFFICES ASSUME Undisturbed
                 PROVE  m # "sending" /\ m = "wait" /\ \A k \in Any!Nodes : pkt'[k].kind = "bad"
        BY <1>2 DEF Undisturbed, Alone, Live
    <3> QED BY <1>2, <2>1 DEF Undisturbed, Alone
  <2>3. OneBehind => OneBehind'
    <3> SUFFICES ASSUME OneBehind PROVE OneBehind'
        OBVIOUS
    <3>1. CASE m = "wait"
      <4>1. ASSUME NEW k \in Any!Nodes, pkt'[k].kind # "bad" PROVE Own(pkt[k])
          BY <1>2, <1>5, <2>1, <3>1, <4>1 DEF OneBehind
      <4>2. ASSUME NEW a \in Any!Nodes, NEW b \in Any!Nodes, pkt'[a].kind # "bad", pkt'[b].kind # "bad"
            PROVE  a = b
        <5>1. ~(a < b) /\ ~(b < a)
            BY <1>5, <2>1, <3>1, <4>1, <4>2 DEF OneBehind, Own, Previous
        <5> QED BY <5>1, NodesAre
      <4> QED BY <1>2, <1>5, <2>1, <3>1, <4>1, <4>2 DEF OneBehind, Alone, Live, Own
    <3>2. CASE m # "wait"
      <4>1. m \in {"sending", "unsent"} => \A k \in Any!Nodes : pkt'[k].kind = "bad"
          BY <1>2, <2>1 DEF OneBehind, Alone
      <4>2. m \notin {"idle", "send"}
          BY <1>5 DEF RingFlow, Flow
      <4> QED BY <1>2, <3>2, <4>1, <4>2 DEF OneBehind, Alone, Live, RingTypes, Any!TypeOK
    <3> QED BY <3>1, <3>2
  <2>4. ReplyFlow'
    <3> SUFFICES ASSUME m \notin {"idle", "send"}, p.kind # "bad"
                 PROVE  /\ Own(p) \/ Previous(p)
                        /\ p.own => m = "wait" /\ \A k \in Any!Nodes : pkt'[k].kind = "bad"
        BY <1>2, <1>5 DEF ReplyFlow, Own, Previous, Live
    <3>1. p = pkt[n] /\ left[0] \in {0, 1}
        BY <1>3 DEF RingTypes, Any!TypeOK, NodeFacts, Any!InAir
    <3>2. CASE left[0] = 0
        BY <1>2, <2>2, <3>1, <3>2 DEF RingFlow, Flow, Undisturbed
    <3>3. CASE left[0] = 1
      <4>1. OneBehind
          BY <3>3 DEF RingFlow, Flow
      <4>2. CASE m = "wait"
        <5>1. Own(p) \/ Previous(p)
            BY <1>2, <1>5, <3>1, <4>1, <4>2 DEF OneBehind
        <5>2. ASSUME p.own, NEW k \in Any!Nodes, pkt'[k].kind # "bad" PROVE FALSE
          <6>1. Previous(pkt[n])
              BY <1>2, <1>5, <2>1, <4>1, <4>2, <5>2 DEF OneBehind
          <6> QED BY <3>1, <5>2, <6>1 DEF Previous
        <5> QED BY <4>2, <5>1, <5>2
      <4>3. CASE m # "wait"
          BY <1>2, <3>1, <4>1, <4>3 DEF OneBehind, Previous, RingTypes, Any!TypeOK
      <4> QED BY <4>2, <4>3
    <3> QED BY <3>1, <3>2, <3>3
  <2>5. Clean'
    <3> SUFFICES ASSUME timeouts = 0 \/ (m # "idle" /\ request > 0)
                 PROVE  m # "sending" /\ \A k \in Any!Nodes : pkt'[k].kind = "bad"
        BY <1>2 DEF Clean, Live
    <3>1. m = "wait" /\ inReady /\ pkt[n].own /\ \A k \in Any!Nodes : Live(k) => pkt[k].own
        BY <1>2 DEF RingFlow, Clean
    <3>2. ASSUME NEW k \in Any!Nodes, pkt'[k].kind # "bad" PROVE FALSE
      <4>1. k # n /\ Live(k) /\ k < n
          BY <2>1, <3>2
      <4>2. left[0] \in {0, 1}
          BY <3>1 DEF RingTypes, Any!TypeOK, NodeFacts, Any!InAir
      <4>3. CASE left[0] = 0
          BY <1>2, <4>1, <4>3 DEF RingFlow, Flow, Undisturbed, Alone
      <4>4. CASE left[0] = 1
          BY <1>2, <3>1, <4>1, <4>4 DEF RingFlow, Flow, OneBehind, Previous
      <4> QED BY <4>2, <4>3, <4>4
    <3> QED BY <3>1, <3>2
  <2> QED BY <1>2, <1>5, <2>2, <2>3, <2>4, <2>5 DEF RingFlow, Flow
<1> QED BY <1>1, <1>4, <1>5 DEF Moved

LEMMA RingFlowKept ==
    ASSUME Any!RingAssumption, RingTypes, RingFlow, [Any!Next]_(Any!vars)
    PROVE  RingFlow'
<1>1. CASE UNCHANGED Any!vars
  <2>1. FewerPackets
      BY <1>1 DEF Any!vars, Any!master, FewerPackets, Live
  <2> QED BY <2>1, FewerFlow
<1>2. CASE Any!Next
    BY <1>2, CommandFlow, QueueFlow, SendFlow, CompletesFlow, GivesUpFlow, ForwardFlow, FewerFlow, FewerSteps
    DEF Any!Next, Any!MasterStep, Any!NodeStep
<1> QED BY <1>1, <1>2

LEMMA RingFlowInit == Any!RingAssumption /\ Any!Init => RingFlow
BY BadType DEF Any!Init, RingFlow, Flow, ReplyFlow, Clean, Undisturbed, Alone, Live, Any!Nodes, Any!Relay

-----------------------------------------------------------------------------
\* The vectors of a command.

\* What a request asks for, and of whom; the rest of it is the same for all.
Shape(s) ==
    LET done == s - 1 - Any!Prefill
        k == done % Any!Round
    IN  IF s = 0 THEN [kind |-> "reset", target |-> Any!Broadcast, pos |-> 0]
        ELSE IF done < 0 THEN [kind |-> "layers", target |-> ((s - 1) % Stages) + 1,
              pos |-> (s - 1) \div Stages]
        ELSE IF k < Stages THEN [kind |-> "layers", target |-> k + 1,
              pos |-> Inputs - 1 + (done \div Any!Round)]
        ELSE IF k = Stages THEN [kind |-> "start", target |-> Any!Broadcast, pos |-> 0]
        ELSE [kind |-> "collect", target |-> k - Stages, pos |-> 0]

LEMMA ShapeOf ==
    ASSUME NEW s
    PROVE  Any!Request(s).kind = Shape(s).kind /\ Any!Request(s).target = Shape(s).target
           /\ Any!Request(s).pos = Shape(s).pos
BY DEF Any!Request, Any!Message, Shape

LEMMA ShapeTypes ==
    ASSUME Any!RingAssumption, RingTypes
    PROVE  /\ Shape(request).kind \in {"reset", "layers", "start", "collect"}
           /\ Shape(request).kind \in {"layers", "collect"} => Shape(request).target \in Any!Compute
           /\ Shape(request).kind \in {"reset", "start"} => Shape(request).target = Any!Broadcast
           /\ Shape(request).kind = "reset" <=> request = 0
           /\ request \in Nat
<1>1. request \in 0..Any!LastRequest /\ Any!LastRequest \in Nat
    BY Counts DEF RingTypes, Any!TypeOK
<1>2. request \in Nat
    BY <1>1
<1> QED BY <1>1, <1>2, ShapeOf, RequestType DEF RingTypes, Any!TypeOK

LEMMA ShapeEarlier ==
    ASSUME Any!RingAssumption, NEW s \in Nat, Shape(s).kind = "layers"
    PROVE  /\ \A k \in 0..(Shape(s).pos - 1) :
                 \E r \in 1..(s - 1) : /\ Shape(r).kind = "layers" /\ Shape(r).pos = k
                                       /\ Shape(r).target = Shape(s).target
           /\ \A r \in 1..(s - 1) : Shape(r).kind = "layers" /\ Shape(r).target = Shape(s).target =>
                 Shape(r).pos # Shape(s).pos
<1>1. ASSUME NEW k \in 0..(Shape(s).pos - 1)
      PROVE  \E r \in 1..(s - 1) : /\ Shape(r).kind = "layers" /\ Shape(r).pos = k
                                   /\ Shape(r).target = Shape(s).target
  <2>1. Any!Request(s).kind = "layers" /\ k \in 0..(Any!Request(s).pos - 1)
      BY ShapeOf
  <2> QED BY <2>1, EarlierPositions, ShapeOf
<1>2. ASSUME NEW r \in 1..(s - 1), Shape(r).kind = "layers", Shape(r).target = Shape(s).target
      PROVE  Shape(r).pos # Shape(s).pos
  <2>1. /\ Any!Request(s).kind = "layers" /\ Any!Request(r).kind = "layers"
        /\ Any!Request(r).target = Any!Request(s).target
        /\ r \in Nat /\ r < s
      BY <1>2, ShapeOf
  <2> QED BY <2>1, DifferentPositions, ShapeOf
<1> QED BY <1>1, <1>2

\* A packet that is the present request, and one that is the answer to it.
Asked(p) ==
    /\ p.kind = Shape(request).kind /\ p.target = Shape(request).target /\ p.pos = Shape(request).pos
    /\ p.kind = "layers" => p.good
Answered(p) ==
    /\ p.kind = "reply" /\ p.source = Shape(request).target
    /\ Shape(request).kind \in {"layers", "collect"}
    /\ Shape(request).kind = "layers" => p.good /\ Shape(request).pos \in cache[Shape(request).target]
Form(p) == Asked(p) \/ Answered(p)

Forms ==
    m # "idle" =>
      /\ \A n \in Any!Nodes : Live(n) /\ pkt[n].own => Form(pkt[n])
      /\ m = "wait" /\ ~inReady /\ reply.kind # "bad" /\ reply.own => Form(reply)

\* The stages have an entry for every position that has been asked for.
Filled ==
    m # "idle" =>
      \A s \in 1..(request - 1) : Shape(s).kind = "layers" => Shape(s).pos \in cache[Shape(s).target]

Vectors == Forms /\ Filled /\ hidden

\* No packet changes its form, and no entry is lost.
LEMMA VectorsStay ==
    ASSUME Any!RingAssumption, RingTypes, Vectors, UNCHANGED <<m, request, reply, inReady, hidden, cache>>,
           \A n \in Any!Nodes : pkt'[n].kind # "bad" => pkt'[n] = pkt[n]
    PROVE  Vectors'
BY DEF Vectors, Forms, Filled, Form, Asked, Answered, Live

LEMMA VectorsOfStages ==
    ASSUME Any!RingAssumption, RingTypes, RingFlow, Vectors, NEW n \in Any!Compute, Any!StageStep(n)
    PROVE  Vectors'
<1>0. /\ n \in Any!Nodes /\ n # Any!Broadcast /\ Live(n) /\ UNCHANGED <<m, request, reply, inReady, hidden>>
      /\ \A k \in Any!Nodes : k # n => pkt'[k] = pkt[k]
      /\ pkt[n] \in Any!Packets /\ pkt'[n].own = pkt[n].own
      /\ \A k \in Any!Compute : k # n => cache'[k] = cache[k]
    BY NodesAre, StageIs, StageData DEF Any!master, RingTypes, Any!TypeOK
<1>1. CASE m = "idle" \/ UNCHANGED <<pkt, cache>>
    BY <1>0, <1>1 DEF Vectors, Forms, Filled, Form, Asked, Answered, Live
<1>2. CASE m # "idle" /\ request = 0 /\ ~UNCHANGED <<pkt, cache>>
  <2>1. Shape(request).kind = "reset" /\ Shape(request).target = Any!Broadcast
      BY <1>2, ShapeTypes
  <2>2. pkt[n].own => Asked(pkt[n])
      BY <1>0, <1>2, <2>1 DEF Vectors, Forms, Form, Answered
  <2>3. pkt[n].own => pkt'[n] = pkt[n]
      BY <2>1, <2>2 DEF Asked, Any!StageStep, Any!Reset, Any!Layers, Any!Drain, Any!StartScan, Any!Collect
  <2>4. Forms'
      BY <1>0, <2>1, <2>3 DEF Vectors, Forms, Form, Asked, Answered, Live
  <2>5. Filled'
      BY <1>0, <1>2 DEF Filled
  <2> QED BY <1>0, <2>4, <2>5 DEF Vectors
<1>3. CASE m # "idle" /\ request # 0 /\ ~UNCHANGED <<pkt, cache>>
  <2>0. request \in Nat /\ request > 0 /\ Shape(request).kind # "reset"
      BY <1>3, ShapeTypes
  <2>1. /\ m = "wait" /\ inReady /\ pkt[n].own
        /\ \A k \in Any!Nodes : Live(k) => pkt[k].own
      BY <1>0, <1>3, <2>0 DEF RingFlow, Clean
  <2>2. \A k \in Any!Nodes : k # n => ~Live(k)
    <3>1. left[0] \in {0, 1}
        BY <2>1 DEF RingTypes, Any!TypeOK, NodeFacts, Any!InAir
    <3>2. CASE left[0] = 0
        BY <1>0, <3>2 DEF RingFlow, Flow, Undisturbed, Alone
    <3>3. CASE left[0] = 1
      <4>1. ASSUME NEW k \in Any!Nodes, k # n, Live(k) PROVE FALSE
        <5>1. ~(k < n) /\ ~(n < k)
            BY <1>0, <2>1, <3>3, <4>1 DEF RingFlow, Flow, OneBehind, Previous
        <5> QED BY <1>0, <4>1, <5>1, NodesAre
      <4> QED BY <4>1
    <3> QED BY <3>1, <3>2, <3>3
  <2>3. Form(pkt[n])
      BY <1>0, <1>3, <2>1 DEF Vectors, Forms
  <2>4. Filled
      BY DEF Vectors
  <2>5. SUFFICES Form(pkt[n])' /\ Filled'
    <3>1. Form(pkt[n])' => Forms'
        BY <1>0, <2>1, <2>2 DEF Forms, Live
    <3> QED BY <1>0, <3>1 DEF Vectors
  <2>6. CASE Any!Reset(n)
      BY <2>0, <2>3, <2>6 DEF Any!Reset, Form, Asked, Answered
  <2>7. CASE Any!Layers(n)
    <3>1. /\ Asked(pkt[n]) /\ pkt[n].kind = "layers" /\ Shape(request).target = n /\ pkt[n].good
          /\ pkt[n].pos = Shape(request).pos /\ Shape(request).kind = "layers"
      <4>1. Asked(pkt[n]) /\ pkt[n].kind = "layers" /\ pkt[n].target \in {n, Any!Broadcast}
          BY <2>3, <2>7 DEF Any!Layers, Form, Answered, Any!Targeted
      <4>2. Shape(request).kind = "layers" /\ Shape(request).target \in Any!Compute
            /\ Any!Broadcast \notin Any!Compute
          BY <4>1, ShapeTypes, NodesAre DEF Asked
      <4> QED BY <4>1, <4>2 DEF Asked
    <3>2. Any!OverOwnEntries(n)
      <4>1. ASSUME NEW k \in 0..(pkt[n].pos - 1) PROVE k \in cache[n]
          BY <2>0, <2>4, <1>3, <3>1, ShapeEarlier DEF Filled
      <4> QED BY <3>1, <4>1 DEF Any!OverOwnEntries
    <3>3. cache \in [Any!Compute -> SUBSET (0..Inputs + Outputs)]
        BY DEF RingTypes, Any!TypeOK
    <3>4. \A s \in 1..(request - 1) : Shape(s).kind = "layers" =>
             Shape(s).pos \in cache[Shape(s).target] /\ (Shape(s).target = n => Shape(s).pos # pkt[n].pos)
        BY <2>0, <2>4, <1>3, <3>1, ShapeEarlier DEF Filled
    <3>5. ASSUME NEW c, cache' = [cache EXCEPT ![n] = c], cache[n] \ {pkt[n].pos} \subseteq c
          PROVE  Filled'
      <4>1. cache'[n] = c
          BY <3>3, <3>5
      <4>2. ASSUME NEW s \in 1..(request - 1), Shape(s).kind = "layers"
            PROVE  Shape(s).pos \in cache'[Shape(s).target]
        <5>1. CASE Shape(s).target = n
            BY <3>4, <3>5, <4>1, <4>2, <5>1
        <5>2. CASE Shape(s).target # n
            BY <3>3, <3>4, <3>5, <4>2, <5>2
        <5> QED BY <5>1, <5>2
      <4> QED BY <1>0, <4>2 DEF Filled
    <3>6. CASE /\ pkt' = Any!Replied(n, Any!OverOwnEntries(n))
               /\ cache' = [cache EXCEPT ![n] = @ \cup {pkt[n].pos}]
      <4>1. cache' = [cache EXCEPT ![n] = cache[n] \cup {pkt[n].pos}]
          BY <3>6
      <4>2. Filled'
          BY <3>5, <4>1
      <4>3. pkt'[n].kind = "reply" /\ pkt'[n].source = n /\ pkt'[n].good
          BY <3>2, <3>6, RepliedIs DEF RingTypes, Any!TypeOK
      <4>4. pkt[n].pos \in cache'[n]
          BY <3>3, <4>1
      <4>5. Answered(pkt[n])'
          BY <1>0, <3>1, <4>3, <4>4 DEF Answered
      <4> QED BY <4>2, <4>5 DEF Form
    <3>7. CASE pkt' = pkt /\ cache' = [cache EXCEPT ![n] = @ \ {pkt[n].pos}]
      <4>1. cache' = [cache EXCEPT ![n] = cache[n] \ {pkt[n].pos}]
          BY <3>7
      <4>2. Filled'
          BY <3>5, <4>1
      <4>3. Asked(pkt[n])'
          BY <1>0, <3>1, <3>7 DEF Asked
      <4> QED BY <4>2, <4>3 DEF Form
    <3> QED BY <2>7, <3>2, <3>6, <3>7 DEF Any!Layers
  <2>8. CASE Any!Drain(n) \/ Any!StartScan(n)
      BY <1>3, <2>8 DEF Any!Drain, Any!StartScan
  <2>9. CASE Any!Collect(n)
    <3>1. /\ Asked(pkt[n]) /\ Shape(request).kind = "collect" /\ Shape(request).target = n /\ UNCHANGED cache
          /\ pkt' = pkt \/ pkt' = Any!Replied(n, job[n].good)
      <4>1. Asked(pkt[n]) /\ pkt[n].kind = "collect" /\ pkt[n].target \in {n, Any!Broadcast}
          BY <2>3, <2>9 DEF Any!Collect, Form, Answered, Any!Targeted
      <4>2. Shape(request).kind = "collect" /\ Shape(request).target \in Any!Compute
            /\ Any!Broadcast \notin Any!Compute
          BY <4>1, ShapeTypes, NodesAre DEF Asked
      <4> QED BY <2>9, <4>1, <4>2 DEF Asked, Any!Collect
    <3>2. Filled'
        BY <1>0, <2>4, <3>1 DEF Filled
    <3>3. CASE pkt' = pkt
        BY <1>0, <3>1, <3>2, <3>3 DEF Form, Asked
    <3>4. CASE pkt' = Any!Replied(n, job[n].good)
      <4>1. job[n].good \in BOOLEAN
          BY DEF RingTypes, Any!TypeOK
      <4>2. pkt'[n].kind = "reply" /\ pkt'[n].source = n
          BY <3>4, <4>1, RepliedIs DEF RingTypes, Any!TypeOK
      <4> QED BY <1>0, <3>1, <3>2, <4>2 DEF Form, Answered
    <3> QED BY <3>1, <3>3, <3>4
  <2> QED BY <2>6, <2>7, <2>8, <2>9 DEF Any!StageStep
<1> QED BY <1>1, <1>2, <1>3

LEMMA VectorsOfNodes ==
    ASSUME Any!RingAssumption, RingTypes, RingFlow, Vectors, NEW n \in Any!Nodes,
           Any!Passes(n) \/ Any!Drops(n) \/ Any!IdleTimeout(n) \/ Any!Forward(n)
    PROVE  Vectors'
<1>1. CASE Any!Passes(n) \/ Any!Drops(n) \/ Any!IdleTimeout(n)
  <2>1. UNCHANGED <<m, request, reply, inReady, hidden, cache>>
      BY <1>1 DEF Any!Passes, Any!Drops, Any!IdleTimeout, Any!master
  <2>2. \A k \in Any!Nodes : pkt'[k].kind # "bad" => pkt'[k] = pkt[k]
      BY <1>1, BadType DEF Any!Passes, Any!Drops, Any!IdleTimeout, RingTypes, Any!TypeOK
  <2> QED BY <2>1, <2>2, VectorsStay
<1>2. CASE Any!Forward(n)
  <2>1. PICK p \in {pkt[n], Any!Bad} : Moved(n, p)
      BY <1>2, ForwardIs
  <2>2. Live(n) /\ (p.kind # "bad" => p = pkt[n])
      BY <2>1, BadType DEF Moved, RingTypes, NodeFacts
  <2>3. UNCHANGED <<m, request, hidden, cache>>
      BY <2>1 DEF Moved
  <2>5. ASSUME NEW k \in Any!Nodes, pkt'[k].kind # "bad"
        PROVE  \E j \in Any!Nodes : Live(j) /\ pkt'[k] = pkt[j]
      BY <2>1, <2>2, <2>5, BadType DEF Moved, Live
  <2>6. /\ UNCHANGED <<reply, inReady>>
        \/ (~inReady' /\ (reply'.kind # "bad" => reply' = pkt[n]))
      BY <2>1, <2>2 DEF Moved
  <2>7. Filled'
      BY <2>3 DEF Vectors, Filled
  <2>8. ASSUME m # "idle", NEW k \in Any!Nodes, pkt'[k].kind # "bad", pkt'[k].own PROVE Form(pkt'[k])
      BY <2>5, <2>8 DEF Vectors, Forms
  <2>9. ASSUME m # "idle", m = "wait", ~inReady', reply'.kind # "bad", reply'.own PROVE Form(reply')
      BY <2>2, <2>6, <2>9 DEF Vectors, Forms
  <2>10. Forms'
    <3>1. ASSUME m # "idle", NEW k \in Any!Nodes, pkt'[k].kind # "bad", pkt'[k].own PROVE Form(pkt[k])'
        BY <2>3, <2>8, <3>1 DEF Form, Asked, Answered
    <3>2. ASSUME m # "idle", m = "wait", ~inReady', reply'.kind # "bad", reply'.own PROVE Form(reply)'
        BY <2>3, <2>9, <3>2 DEF Form, Asked, Answered
    <3> QED BY <2>3, <3>1, <3>2 DEF Forms, Live
  <2> QED BY <2>3, <2>7, <2>10 DEF Vectors
<1> QED BY <1>1, <1>2

LEMMA VectorsOfMaster ==
    ASSUME Any!RingAssumption, RingTypes, RingFlow, Vectors,
           \/ Any!Command \/ Any!QueueIncoming \/ Any!SendDownstream
           \/ Any!Completes \/ Any!OwnPartFails \/ Any!TimesOut
    PROVE  Vectors'
<1> USE DEF Live
<1>1. CASE Any!Command
  <2>1. /\ m' = "send" /\ request' = 0 /\ hidden'
        /\ \A n \in Any!Nodes : ~pkt'[n].own
      BY <1>1, PacketChanges DEF Any!Command, RingTypes, Any!TypeOK
  <2> QED BY <2>1 DEF Vectors, Forms, Filled
<1>2. CASE Any!QueueIncoming
  <2>1. /\ m = "send" /\ m' = "sending" /\ UNCHANGED <<request, hidden, cache>>
        /\ \A n \in Any!Nodes : ~pkt'[n].own
      BY <1>2, PacketChanges DEF Any!QueueIncoming, RingTypes, Any!TypeOK
  <2> QED BY <2>1 DEF Vectors, Forms, Filled
<1>3. CASE Any!SendDownstream
  <2>1. m = "sending" /\ m' # "idle" /\ UNCHANGED <<request, inReady, reply, hidden, cache, left, seq>>
      BY <1>3 DEF Any!SendDownstream
  <2>2. \A n \in Any!Nodes : Live(n) => ~pkt[n].own
    <3>1. left[0] \in {0, 1}
        BY <2>1 DEF RingTypes, Any!TypeOK, NodeFacts, Any!InAir
    <3> QED BY <2>1, <3>1 DEF RingFlow, Flow, Undisturbed, OneBehind, Previous
  <2>3. ~inReady => (reply.kind # "bad" => ~reply.own)
      BY <2>1 DEF RingFlow, ReplyFlow
  <2>4. Asked(Any!Request(request))
    <3>1. request \in 0..Any!LastRequest
        BY DEF RingTypes, Any!TypeOK
    <3> QED BY <3>1, ShapeOf, RequestType DEF Asked, Vectors, RingTypes, Any!TypeOK
  <2>5. \A n \in Any!Nodes : pkt'[n].kind # "bad" => pkt'[n] = pkt[n] \/ pkt'[n] = Any!Request(request)
      BY <1>3, BadType, NodesAre DEF Any!SendDownstream, RingTypes, Any!TypeOK
  <2>6. ASSUME NEW n \in Any!Nodes, pkt'[n].kind # "bad", pkt'[n].own PROVE Form(pkt[n])'
    <3>1. pkt'[n] = Any!Request(request)
        BY <2>2, <2>5, <2>6
    <3>2. Asked(pkt'[n])
        BY <2>4, <3>1
    <3> QED BY <2>1, <3>2 DEF Form, Asked
  <2>7. Forms'
      BY <2>1, <2>3, <2>6 DEF Forms
  <2> QED BY <2>1, <2>7 DEF Vectors, Filled
<1>4. CASE Any!Completes
  <2>1. CASE m' = "idle" /\ UNCHANGED hidden
      BY <2>1 DEF Vectors, Forms, Filled
  <2>2. CASE /\ m = "wait" /\ ~inReady /\ Any!Answers(reply)
             /\ hidden' = (hidden /\ (Any!Request(request).kind = "layers" => reply.good))
             /\ m' = "idle" \/ (m' = "send" /\ request' = request + 1)
             /\ UNCHANGED <<pkt, cache>>
    <3>1. reply.kind # "bad" /\ reply.own
        BY <2>2, AcceptedOwn DEF Any!AcceptedIsOwn, Any!Answers, RingFlow
    <3>2. \A n \in Any!Nodes : ~Live(n)
        BY <2>2, <3>1 DEF RingFlow, ReplyFlow
    <3>3. Form(reply)
        BY <2>2, <3>1 DEF Vectors, Forms
    <3>4. Shape(request).kind = "layers" => reply.good /\ Shape(request).pos \in cache[Shape(request).target]
        BY <2>2, <3>3, ShapeOf DEF Form, Asked, Answered, Any!Answers, Any!Expected
    <3>5. hidden'
        BY <2>2, <3>4, ShapeOf DEF Vectors
    <3>6. CASE m' = "idle"
        BY <3>5, <3>6 DEF Vectors, Forms, Filled
    <3>7. CASE m' = "send" /\ request' = request + 1
      <4>1. request \in Nat
          BY ShapeTypes
      <4>2. Filled'
        <5>1. ASSUME NEW s \in 1..(request + 1 - 1), Shape(s).kind = "layers"
              PROVE  Shape(s).pos \in cache[Shape(s).target]
          <6>1. s = request \/ s \in 1..(request - 1)
              BY <4>1
          <6> QED BY <2>2, <3>4, <5>1, <6>1 DEF Vectors, Filled
        <5>2. request' = request + 1 /\ cache' = cache
            BY <2>2, <3>7
        <5>3. ASSUME NEW s \in 1..(request' - 1), Shape(s).kind = "layers"
              PROVE  Shape(s).pos \in cache'[Shape(s).target]
          <6>1. s \in 1..(request + 1 - 1)
              BY <4>1, <5>2, <5>3
          <6>2. Shape(s).pos \in cache[Shape(s).target]
              BY <5>1, <5>3, <6>1
          <6> QED BY <5>2, <6>2
        <5> QED BY <5>3 DEF Filled
      <4> QED BY <2>2, <3>2, <3>5, <3>7, <4>2 DEF Vectors, Forms
    <3> QED BY <2>2, <3>6, <3>7
  <2> QED BY <1>4, <2>1, <2>2 DEF Any!Completes, Any!Fails
<1>5. CASE Any!OwnPartFails \/ Any!TimesOut
    BY <1>5 DEF Any!OwnPartFails, Any!TimesOut, Any!Fails, Vectors, Forms, Filled
<1> QED BY <1>1, <1>2, <1>3, <1>4, <1>5

LEMMA VectorsKept ==
    ASSUME Any!RingAssumption, RingTypes, RingFlow, Vectors, [Any!Next]_(Any!vars)
    PROVE  Vectors'
<1>1. CASE UNCHANGED Any!vars
    BY <1>1, VectorsStay DEF Any!vars, Any!master
<1>2. CASE \E n \in Any!Compute : Any!Scan(n)
    BY <1>2, ScanTypes, VectorsStay DEF Any!master
<1>3. CASE Any!Next /\ ~\E n \in Any!Compute : Any!Scan(n)
    BY <1>3, VectorsOfMaster, VectorsOfNodes, VectorsOfStages DEF Any!Next, Any!MasterStep, Any!NodeStep
<1> QED BY <1>1, <1>2, <1>3

LEMMA VectorsInit == Any!Init => Vectors
BY DEF Any!Init, Vectors, Forms, Filled

-----------------------------------------------------------------------------
\* The scans of a selection, with a host that waits until those of an earlier
\* one are over and with packets that are only lost.

LEMMA ShapeNext ==
    ASSUME Any!RingAssumption, NEW s \in Nat
    PROVE  /\ Shape(s).kind \in {"reset", "layers"} => Shape(s + 1).kind \in {"layers", "start"}
           /\ Shape(s).kind = "start" => Shape(s + 1).kind = "collect" /\ Shape(s + 1).target = 1
           /\ Shape(s).kind = "collect" =>
                IF Shape(s).target < Stages
                  THEN Shape(s + 1).kind = "collect" /\ Shape(s + 1).target = Shape(s).target + 1
                  ELSE Shape(s + 1).kind = "layers"
<1>1. /\ Any!Request(s).kind = Shape(s).kind /\ Any!Request(s).target = Shape(s).target
      /\ Any!Request(s + 1).kind = Shape(s + 1).kind /\ Any!Request(s + 1).target = Shape(s + 1).target
    BY ShapeOf
<1> QED BY <1>1, NextRequest

\* There is one packet at most, and it is of the present request.
LEMMA OnePacket ==
    ASSUME Any!RingAssumption, RingTypes, RingFlow, Forms, timeouts = 0
    PROVE  /\ Alone
           /\ \A n \in Any!Nodes : Live(n) => m = "wait" /\ inReady /\ pkt[n].own /\ Form(pkt[n])
<1>1. \A n \in Any!Nodes : Live(n) => m = "wait" /\ inReady /\ pkt[n].own
    BY DEF RingFlow, Clean
<1>2. \A n \in Any!Nodes : Live(n) => Form(pkt[n])
    BY <1>1 DEF Forms
<1>3. ASSUME NEW a \in Any!Nodes, NEW b \in Any!Nodes, Live(a), Live(b) PROVE a = b
  <2>1. left[0] \in {0, 1}
      BY <1>1, <1>3 DEF RingTypes, Any!TypeOK, NodeFacts, Any!InAir
  <2>2. CASE left[0] = 0
      BY <1>3, <2>2 DEF RingFlow, Flow, Undisturbed, Alone
  <2>3. CASE left[0] = 1
    <3>1. ~(a < b) /\ ~(b < a)
        BY <1>1, <1>3, <2>3 DEF RingFlow, Flow, OneBehind, Previous
    <3> QED BY <3>1, NodesAre
  <2> QED BY <2>1, <2>2, <2>3
<1> QED BY <1>1, <1>2, <1>3 DEF Alone

\* No scan of a stage runs or is due; one is due, runs or has ended, of the
\* hidden vector of this selection.
Idle(n) == ~job[n].notified /\ job[n].using = "none"
Ready(n) ==
    /\ job[n].hidden /\ job[n].using # "other"
    /\ job[n].using # "none" => ~job[n].notified
    /\ job[n].done => ~job[n].notified /\ job[n].using = "none" /\ (job[n].ok => job[n].good)

AllIdle == \A n \in Any!Compute : Idle(n)
AllReady == \A n \in Any!Compute : Ready(n)

\* The packet at node a has been processed by stage n.
Processed(n, a) == n < a \/ (n = a /\ node[n] = "send")

StartJobs ==
    /\ m \in {"send", "sending"} => AllIdle
    /\ \A a \in Any!Nodes : Live(a) => \A n \in Any!Compute :
          IF Processed(n, a) THEN Ready(n) ELSE Idle(n) /\ (node[n] = "starting" => ~job[n].done)
    /\ m = "wait" /\ ~inReady /\ reply.kind # "bad" => AllReady

CollectJobs ==
    LET t == Shape(request).target IN
    /\ \A n \in Any!Compute : (n < t => Idle(n)) /\ (n > t => Ready(n))
    /\ m \in {"send", "sending"} => Ready(t)
    /\ \A a \in Any!Nodes : Live(a) =>
          IF pkt[a].kind = "reply" THEN Idle(t) /\ pkt[a].good ELSE ~Processed(t, a) => Ready(t)
    /\ m = "wait" /\ ~inReady /\ reply.kind = "reply" => Idle(t) /\ reply.good

JobsOfRequest ==
    /\ Shape(request).kind \in {"reset", "layers"} => AllIdle
    /\ Shape(request).kind = "start" => StartJobs
    /\ Shape(request).kind = "collect" => CollectJobs

Jobs == timeouts = 0 => genuine /\ (m # "idle" => JobsOfRequest)

LEMMA ScanKeeps ==
    ASSUME Any!RingAssumption, RingTypes, NEW n \in Any!Compute, Any!Scan(n), NEW k \in Any!Compute
    PROVE  (Idle(k) => Idle(k)') /\ (Ready(k) => Ready(k)')
<1>0. job \in [Any!Compute -> JobRecords]
    BY DEF RingTypes, Any!TypeOK, JobRecords
<1>1. CASE k # n
  <2>1. job'[k] = job[k]
      BY <1>0, <1>1, ScanBeginsJob, ScanEndsJob DEF Any!Scan
  <2> QED BY <2>1 DEF Idle, Ready
<1>2. CASE k = n /\ Any!ScanBegins(n)
    BY <1>0, <1>2, ScanBeginsJob DEF Idle, Ready, JobRecords
<1>3. CASE k = n /\ Any!ScanEnds(n)
    BY <1>0, <1>3, ScanEndsJob DEF Idle, Ready, JobRecords
<1> QED BY <1>1, <1>2, <1>3 DEF Any!Scan

LEMMA ScanJobs ==
    ASSUME Any!RingAssumption, RingTypes, Jobs, NEW n \in Any!Compute, Any!Scan(n)
    PROVE  Jobs'
<1>1. UNCHANGED <<m, request, inReady, reply, genuine, node, pkt, timeouts>>
    BY ScanTypes DEF Any!master
<1>2. \A k \in Any!Compute : (Idle(k) => Idle(k)') /\ (Ready(k) => Ready(k)')
    BY ScanKeeps
<1>3. AllIdle => AllIdle'
    BY <1>2 DEF AllIdle
<1>4. AllReady => AllReady'
    BY <1>2 DEF AllReady
<1>5. ASSUME NEW k \in Any!Compute PROVE ~job'[k].done \/ job[k].done \/ ~Idle(k)
  <2>0. job \in [Any!Compute -> JobRecords]
      BY DEF RingTypes, Any!TypeOK, JobRecords
  <2>1. CASE Any!ScanBegins(n)
      BY <2>0, <2>1, ScanBeginsJob
  <2>2. CASE Any!ScanEnds(n)
      BY <2>0, <2>2, ScanEndsJob DEF Idle
  <2> QED BY <2>1, <2>2 DEF Any!Scan
<1>6. ASSUME StartJobs PROVE StartJobs'
  <2>1. ASSUME NEW a \in Any!Nodes, NEW k \in Any!Compute, Live(a)
        PROVE IF Processed(k, a) THEN Ready(k)' ELSE Idle(k)' /\ (node[k] = "starting" => ~job'[k].done)
      BY <1>2, <1>5, <1>6, <2>1 DEF StartJobs
  <2> QED BY <1>1, <1>3, <1>4, <1>6, <2>1 DEF StartJobs, Processed, Live
<1>7. ASSUME CollectJobs, NEW t \in Any!Compute, t = Shape(request).target PROVE CollectJobs'
  <2>1. t = Shape(request').target
      BY <1>1, <1>7
  <2> QED BY <1>1, <1>2, <1>7, <2>1 DEF CollectJobs, Processed, Live
<1>8. JobsOfRequest => JobsOfRequest'
    BY <1>1, <1>3, <1>6, <1>7, ShapeTypes DEF JobsOfRequest
<1> QED BY <1>1, <1>8 DEF Jobs

\* Completes and the ends of a command.
LEMMA MasterJobs ==
    ASSUME Any!RingAssumption, RingTypes, RingFlow, Vectors, Jobs,
           Any!Command \/ Any!Completes \/ Any!OwnPartFails \/ Any!TimesOut, Any!Command => Any!ScansOver
    PROVE  Jobs'
<1> USE DEF Live
<1>1. CASE Any!Command
  <2>1. m' = "send" /\ request' = 0 /\ genuine' /\ UNCHANGED <<job, timeouts>> /\ AllIdle
      BY <1>1 DEF Any!Command, Any!ScansOver, AllIdle, Idle
  <2>2. Shape(0).kind = "reset"
      BY DEF Shape
  <2>3. AllIdle'
      BY <2>1 DEF AllIdle, Idle
  <2> QED BY <2>1, <2>2, <2>3 DEF Jobs, JobsOfRequest
<1>2. CASE Any!OwnPartFails \/ Any!TimesOut
  <2>1. m' = "idle" /\ UNCHANGED genuine /\ (timeouts' = 0 => timeouts = 0)
      BY <1>2 DEF Any!OwnPartFails, Any!TimesOut, Any!Fails, RingTypes, Any!TypeOK
  <2> QED BY <2>1 DEF Jobs
<1>3. CASE Any!Completes
  <2>0. UNCHANGED <<job, timeouts, pkt, node>>
      BY <1>3 DEF Any!Completes
  <2>1. CASE m' = "idle" /\ UNCHANGED genuine
      BY <2>0, <2>1 DEF Jobs
  <2>2. CASE /\ m = "wait" /\ ~inReady /\ Any!Answers(reply)
             /\ genuine' = (genuine /\ (Any!Request(request).kind = "collect" => reply.good))
             /\ m' = "idle" \/ (m' = "send" /\ request' = request + 1)
    <3> SUFFICES ASSUME timeouts = 0 PROVE genuine' /\ (m' # "idle" => JobsOfRequest')
        BY <2>0 DEF Jobs
    <3>1. genuine /\ JobsOfRequest /\ request \in Nat
        BY <2>2, ShapeTypes DEF Jobs
    <3>2. /\ reply.kind # "bad"
          /\ Shape(request).kind = "collect" => reply.kind = "reply"
        BY <2>2, ShapeOf DEF Any!Answers, Any!Expected
    <3>3. Shape(request).kind = "collect" => reply.good
        BY <2>2, <3>1, <3>2 DEF JobsOfRequest, CollectJobs
    <3>4. genuine'
        BY <2>2, <3>1, <3>3, ShapeOf
    <3>5. ASSUME m' = "send", request' = request + 1 PROVE JobsOfRequest'
      <4>0. /\ \A n \in Any!Nodes : ~Live(n)
            /\ \A n \in Any!Compute : (Idle(n))' = Idle(n) /\ (Ready(n))' = Ready(n)
          BY <2>0, <2>2, OnePacket DEF Idle, Ready, Vectors
      <4>1. CASE Shape(request).kind \in {"reset", "layers"}
        <5>1. AllIdle'
            BY <3>1, <4>0, <4>1 DEF JobsOfRequest, AllIdle
        <5>2. Shape(request').kind \in {"layers", "start"}
            BY <3>1, <3>5, <4>1, ShapeNext
        <5>3. StartJobs'
            BY <2>0, <3>5, <4>0, <5>1 DEF StartJobs
        <5> QED BY <5>1, <5>2, <5>3 DEF JobsOfRequest
      <4>2. CASE Shape(request).kind = "start"
        <5>1. \A n \in Any!Compute : Ready(n)
            BY <2>2, <3>1, <3>2, <4>2 DEF JobsOfRequest, StartJobs, AllReady
        <5>2. Shape(request').kind = "collect" /\ Shape(request').target = 1
            BY <3>1, <3>5, <4>2, ShapeNext
        <5>3. \A n \in Any!Compute : ~(n < 1)
            BY DEF Any!Compute
        <5>4. Ready(1)'
            BY <4>0, <5>1, NodesAre
        <5>5. CollectJobs'
            BY <2>0, <3>5, <4>0, <5>1, <5>2, <5>3, <5>4 DEF CollectJobs
        <5> QED BY <5>2, <5>5 DEF JobsOfRequest
      <4>3. CASE Shape(request).kind = "collect"
        <5>1. PICK t \in Any!Compute : t = Shape(request).target
            BY <4>3, ShapeTypes
        <5>2. /\ Idle(t) /\ \A n \in Any!Compute : (n < t => Idle(n)) /\ (n > t => Ready(n))
            BY <2>2, <3>1, <3>2, <4>3, <5>1 DEF JobsOfRequest, CollectJobs
        <5>3. CASE t < Stages
          <6>1. Shape(request').kind = "collect" /\ Shape(request').target = t + 1
              BY <3>1, <3>5, <4>3, <5>1, <5>3, ShapeNext
          <6>2. /\ t + 1 \in Any!Compute
                /\ \A n \in Any!Compute : (n < t + 1 => n < t \/ n = t) /\ (n > t + 1 => n > t)
              BY <5>3, Counts DEF Any!Compute
          <6>3. Ready(t + 1)
              BY <5>2, <6>2 DEF Any!Compute
          <6>4. Ready(t + 1)'
              BY <4>0, <6>2, <6>3
          <6>5. CollectJobs'
              BY <2>0, <3>5, <4>0, <5>2, <6>1, <6>2, <6>4 DEF CollectJobs
          <6> QED BY <6>1, <6>5 DEF JobsOfRequest
        <5>4. CASE ~(t < Stages)
          <6>1. Shape(request').kind = "layers"
              BY <3>1, <3>5, <4>3, <5>1, <5>4, ShapeNext
          <6>2. \A n \in Any!Compute : n < t \/ n = t
              BY <5>4, Counts DEF Any!Compute
          <6> QED BY <4>0, <5>2, <6>1, <6>2 DEF JobsOfRequest, AllIdle
        <5> QED BY <5>3, <5>4
      <4> QED BY <4>1, <4>2, <4>3, ShapeTypes
    <3> QED BY <2>2, <3>4, <3>5
  <2> QED BY <1>3, <2>1, <2>2 DEF Any!Completes, Any!Fails
<1> QED BY <1>1, <1>2, <1>3

LEMMA RequestJobs ==
    ASSUME Any!RingAssumption, RingTypes, RingFlow, Vectors, Jobs, Any!QueueIncoming \/ Any!SendDownstream
    PROVE  Jobs'
<1> USE DEF Live
<1> SUFFICES ASSUME timeouts = 0, timeouts' = timeouts PROVE genuine' /\ JobsOfRequest'
    BY DEF Jobs, Any!QueueIncoming, Any!SendDownstream
<1>1. /\ m \in {"send", "sending"} /\ UNCHANGED <<request, genuine>> /\ genuine /\ JobsOfRequest
      /\ m' \in {"sending", "wait", "unsent"}
    BY DEF Jobs, Any!QueueIncoming, Any!SendDownstream
<1>2. /\ m = "sending" => inReady
      /\ \A n \in Any!Nodes : ~Live(n)
    BY <1>1 DEF RingFlow, Clean
<1>3. CASE Any!QueueIncoming
  <2>0. /\ m' = "sending" /\ \A n \in Any!Nodes : pkt'[n].kind = "bad"
        /\ job' = IF Any!Request(request).kind = "start"
                     THEN [n \in Any!Compute |-> Any!Earlier(job[n])]
                     ELSE job
      BY <1>2, <1>3, PacketChanges DEF Any!QueueIncoming, RingTypes, Any!TypeOK
  <2>1. AllIdle => AllIdle'
      BY <2>0, EarlierType DEF AllIdle, Idle, RingTypes, Any!TypeOK, JobRecords
  <2>2. Shape(request).kind = "start" => StartJobs'
      BY <1>1, <2>0, <2>1 DEF JobsOfRequest, StartJobs
  <2>3. Shape(request).kind = "collect" => CollectJobs'
    <3>1. Shape(request).kind = "collect" => job' = job
        BY <2>0, ShapeOf
    <3> QED BY <1>1, <2>0, <3>1 DEF JobsOfRequest, CollectJobs, Idle, Ready
  <2> QED BY <1>1, <2>1, <2>2, <2>3 DEF JobsOfRequest
<1>4. CASE Any!SendDownstream
  <2>0. /\ m = "sending" /\ UNCHANGED <<job, inReady>>
        /\ \A n \in Any!Nodes : node[n] # "starting" /\ (n # 1 => node'[n] = node[n])
        /\ node'[1] \in {"got", "blocked"}
      BY <1>2, <1>4, NodesAre DEF Any!SendDownstream, RingTypes, Any!TypeOK, NodeFacts
  <2>1. \A n \in Any!Nodes : pkt'[n].kind # "bad" => n = 1 /\ pkt'[n] = Any!Request(request)
      BY <1>2, <1>4, BadType, NodesAre DEF Any!SendDownstream, RingTypes, Any!TypeOK
  <2>2. inReady' /\ m' \in {"wait", "unsent"}
      BY <1>2, <1>4, <2>0 DEF Any!SendDownstream
  <2>3. \A n \in Any!Compute : (Idle(n))' = Idle(n) /\ (Ready(n))' = Ready(n)
      BY <2>0 DEF Idle, Ready
  <2>4. AllIdle => AllIdle'
      BY <2>3 DEF AllIdle
  <2>5. \A n \in Any!Compute : ~(n < 1) /\ node'[n] # "starting" /\ node'[1] # "send"
      BY <2>0, NodesAre DEF Any!Compute
  <2>6. ASSUME Shape(request).kind = "start" PROVE StartJobs'
    <3>1. AllIdle
        BY <1>1, <2>0, <2>6 DEF JobsOfRequest, StartJobs
    <3>2. \A n \in Any!Compute : ~Processed(n, 1)'
        BY <2>5 DEF Processed
    <3>3. \A n \in Any!Compute : Idle(n)'
        BY <2>4, <3>1 DEF AllIdle
    <3>4. ASSUME NEW a \in Any!Nodes, pkt'[a].kind # "bad", NEW n \in Any!Compute
          PROVE  ~(Processed(n, a))' /\ Idle(n)' /\ node'[n] # "starting"
      <4>1. a = 1
          BY <2>1, <3>4
      <4> QED BY <2>5, <3>3, <4>1 DEF Processed
    <3> QED BY <2>2, <3>4 DEF StartJobs
  <2>7. ASSUME Shape(request).kind = "collect" PROVE CollectJobs'
    <3>1. PICK t \in Any!Compute : t = Shape(request).target
        BY <2>7, ShapeTypes
    <3>2. Ready(t) /\ \A n \in Any!Compute : (n < t => Idle(n)) /\ (n > t => Ready(n))
        BY <1>1, <2>0, <2>7, <3>1 DEF JobsOfRequest, CollectJobs
    <3>3. Ready(t)'
        BY <2>3, <3>2
    <3>4. \A a \in Any!Nodes : pkt'[a].kind # "bad" => pkt'[a].kind # "reply"
        BY <2>1, <2>7, ShapeOf
    <3>5. t = Shape(request').target
        BY <1>1, <3>1
    <3> QED BY <2>2, <2>3, <3>2, <3>3, <3>4, <3>5 DEF CollectJobs
  <2> QED BY <1>1, <2>4, <2>6, <2>7 DEF JobsOfRequest
<1> QED BY <1>3, <1>4

LEMMA NodeJobs ==
    ASSUME Any!RingAssumption, RingTypes, RingFlow, Vectors, Jobs, NEW n \in Any!Nodes,
           Any!Passes(n) \/ Any!Drops(n) \/ Any!IdleTimeout(n)
    PROVE  Jobs'
<1>0. /\ UNCHANGED <<m, request, inReady, reply, genuine, job, timeouts>>
      /\ \A k \in Any!Nodes : k # n => node'[k] = node[k] /\ pkt'[k] = pkt[k]
      /\ node'[n] # "starting" /\ node \in [Any!Nodes -> {"armed", "got", "starting", "send", "blocked"}]
    BY DEF Any!Passes, Any!Drops, Any!IdleTimeout, Any!master, RingTypes, Any!TypeOK
<1>1. \/ pkt'[n].kind = "bad"
      \/ /\ pkt' = pkt /\ node'[n] = "send" /\ node[n] = "got"
         /\ pkt[n].target \notin {n, Any!Broadcast} \/ n = Any!Relay
    BY BadType DEF Any!Passes, Any!Drops, Any!IdleTimeout, RingTypes, Any!TypeOK, NodeFacts, Live, Any!Targeted
<1> SUFFICES ASSUME timeouts = 0, m # "idle" PROVE JobsOfRequest'
    BY <1>0 DEF Jobs
<1>2. JobsOfRequest
    BY DEF Jobs
<1>3. \A k \in Any!Compute : (Idle(k))' = Idle(k) /\ (Ready(k))' = Ready(k)
    BY <1>0 DEF Idle, Ready
<1>4. (AllIdle => AllIdle') /\ (AllReady => AllReady')
    BY <1>3 DEF AllIdle, AllReady
<1>5. ASSUME NEW a \in Any!Nodes, pkt'[a].kind # "bad"
      PROVE  /\ Live(a) /\ pkt'[a] = pkt[a]
             /\ a # n \/ (node'[n] = "send" /\ node[n] = "got" /\ Form(pkt[n])
                          /\ (pkt[n].target \notin {n, Any!Broadcast} \/ n = Any!Relay))
    BY <1>0, <1>1, <1>5, OnePacket DEF Live, Vectors
<1>6. ASSUME Shape(request).kind = "start" PROVE StartJobs'
  <2>1. ASSUME NEW a \in Any!Nodes, pkt'[a].kind # "bad", NEW k \in Any!Compute
        PROVE  (Processed(k, a))' <=> Processed(k, a)
    <3>1. CASE a # n
        BY <1>0, <3>1, NodesAre DEF Processed
    <3>2. CASE a = n
      <4>1. n = Any!Relay
        <5>1. Shape(request).target = Any!Broadcast
            BY <1>6, ShapeTypes
        <5> QED BY <1>5, <1>6, <2>1, <3>2, <5>1 DEF Form, Asked, Answered
      <4>2. k # n
          BY <4>1, NodesAre
      <4> QED BY <3>2, <4>2 DEF Processed
    <3> QED BY <3>1, <3>2
  <2>2. ASSUME NEW a \in Any!Nodes, pkt'[a].kind # "bad", NEW k \in Any!Compute
        PROVE  IF (Processed(k, a))' THEN Ready(k)' ELSE Idle(k)' /\ (node'[k] = "starting" => ~job'[k].done)
    <3>1. node'[k] = "starting" => node[k] = "starting"
        BY <1>0, NodesAre
    <3> QED BY <1>0, <1>2, <1>3, <1>5, <1>6, <2>1, <2>2, <3>1 DEF JobsOfRequest, StartJobs
  <2> QED BY <1>0, <1>2, <1>4, <1>6, <2>2 DEF JobsOfRequest, StartJobs, Live
<1>7. ASSUME Shape(request).kind = "collect" PROVE CollectJobs'
  <2>1. PICK t \in Any!Compute : t = Shape(request).target
      BY <1>7, ShapeTypes
  <2>2. ASSUME NEW a \in Any!Nodes, pkt'[a].kind # "bad", pkt[a].kind # "reply"
        PROVE  (Processed(t, a))' <=> Processed(t, a)
    <3>1. CASE a # n
        BY <1>0, <3>1, NodesAre DEF Processed
    <3>2. CASE a = n
      <4>1. t # n
          BY <1>5, <2>1, <2>2, <3>2, NodesAre DEF Form, Asked, Answered
      <4> QED BY <3>2, <4>1 DEF Processed
    <3> QED BY <3>1, <3>2
  <2>3. t = Shape(request').target
      BY <1>0, <2>1
  <2> QED BY <1>0, <1>2, <1>3, <1>5, <1>7, <2>1, <2>2, <2>3 DEF JobsOfRequest, CollectJobs, Live
<1> QED BY <1>0, <1>2, <1>4, <1>6, <1>7 DEF JobsOfRequest

LEMMA ForwardJobs ==
    ASSUME Any!RingAssumption, RingTypes, RingFlow, Vectors, Jobs, NEW n \in Any!Nodes, Any!Forward(n)
    PROVE  Jobs'
<1>1. PICK p \in {pkt[n], Any!Bad} : Moved(n, p)
    BY ForwardIs
<1>2. UNCHANGED <<m, request, genuine, job, timeouts>> /\ Live(n) /\ node[n] = "send" /\ pkt'[n].kind = "bad"
    BY <1>1, BadType DEF Moved, RingTypes, NodeFacts
<1>3. p.kind # "bad" => p = pkt[n]
    BY <1>1, BadType DEF Moved
<1> SUFFICES ASSUME timeouts = 0, m # "idle" PROVE JobsOfRequest'
    BY <1>2 DEF Jobs
<1>4. JobsOfRequest /\ m = "wait" /\ inReady
    BY <1>2, OnePacket DEF Jobs, Vectors
<1>5. \A k \in Any!Nodes : k # n => ~Live(k)
    BY <1>2, OnePacket DEF Vectors, Alone
<1>6. \A k \in Any!Compute : (Idle(k))' = Idle(k) /\ (Ready(k))' = Ready(k)
    BY <1>2 DEF Idle, Ready
<1>7. AllIdle => AllIdle'
    BY <1>6 DEF AllIdle
<1>8. CASE /\ n \in Any!Compute /\ n + 1 \in Any!Nodes
           /\ pkt'[n + 1] = p /\ node'[n + 1] = "got"
           /\ \A k \in Any!Nodes : k \notin {n, n + 1} => pkt'[k] = pkt[k] /\ node'[k] = node[k]
           /\ UNCHANGED <<reply, inReady>>
  <2>1. \A a \in Any!Nodes : pkt'[a].kind # "bad" => a = n + 1 /\ pkt'[a] = pkt[n]
      BY <1>2, <1>3, <1>5, <1>8 DEF Live
  <2>2. \A k \in Any!Compute : (Processed(k, n + 1))' <=> Processed(k, n)
      BY <1>2, <1>8, NodesAre DEF Processed, Any!Compute
  <2>3. \A k \in Any!Compute : node'[k] = "starting" => node[k] = "starting"
      BY <1>1, <1>8, NodesAre DEF Moved
  <2>4. ASSUME Shape(request).kind = "start" PROVE StartJobs'
    <3>1. ASSUME NEW k \in Any!Compute
          PROVE  IF Processed(k, n + 1)' THEN Ready(k)'
                 ELSE Idle(k)' /\ (node'[k] = "starting" => ~job'[k].done)
        BY <1>2, <1>4, <1>6, <2>2, <2>3, <2>4 DEF JobsOfRequest, StartJobs
    <3>2. ASSUME NEW a \in Any!Nodes, pkt'[a].kind # "bad", NEW k \in Any!Compute
          PROVE  IF Processed(k, a)' THEN Ready(k)' ELSE Idle(k)' /\ (node'[k] = "starting" => ~job'[k].done)
      <4>1. a = n + 1
          BY <2>1, <3>2
      <4>2. (Processed(k, a))' <=> (Processed(k, n + 1))'
          BY <4>1 DEF Processed
      <4> QED BY <3>1, <4>2
    <3> QED BY <1>2, <1>4, <1>8, <3>2 DEF StartJobs, Live
  <2>5. ASSUME Shape(request).kind = "collect" PROVE CollectJobs'
    <3>1. PICK t \in Any!Compute : t = Shape(request).target
        BY <2>5, ShapeTypes
    <3>2. t = Shape(request').target
        BY <1>2, <3>1
    <3>3. ASSUME NEW a \in Any!Nodes, pkt'[a].kind # "bad"
          PROVE  IF pkt'[a].kind = "reply" THEN Idle(t)' /\ pkt'[a].good ELSE ~(Processed(t, a))' => Ready(t)'
      <4>1. a = n + 1 /\ pkt'[a] = pkt[n]
          BY <2>1, <3>3
      <4>2. (Processed(t, a))' <=> Processed(t, n)
          BY <2>2, <4>1 DEF Processed
      <4> QED BY <1>2, <1>4, <1>6, <2>5, <3>1, <4>1, <4>2 DEF JobsOfRequest, CollectJobs
    <3> QED BY <1>2, <1>4, <1>6, <1>8, <2>5, <3>1, <3>2, <3>3 DEF JobsOfRequest, CollectJobs, Live
  <2> QED BY <1>2, <1>4, <1>7, <2>4, <2>5 DEF JobsOfRequest
<1>9. CASE /\ n = Any!Relay /\ inReady' = FALSE /\ reply' = p
           /\ \A k \in Any!Nodes : k # n => pkt'[k] = pkt[k] /\ node'[k] = node[k]
  <2>1. \A a \in Any!Nodes : pkt'[a].kind = "bad"
      BY <1>2, <1>5, <1>9 DEF Live
  <2>2. \A k \in Any!Compute : Processed(k, n)
      BY <1>9, Counts DEF Processed, Any!Compute, Any!Relay
  <2>3. ASSUME Shape(request).kind = "start" PROVE StartJobs'
    <3>1. AllReady'
        BY <1>2, <1>4, <1>6, <2>2, <2>3 DEF JobsOfRequest, StartJobs, AllReady
    <3> QED BY <1>2, <1>4, <2>1, <3>1 DEF StartJobs, Live
  <2>4. ASSUME Shape(request).kind = "collect" PROVE CollectJobs'
    <3>1. PICK t \in Any!Compute : t = Shape(request).target
        BY <2>4, ShapeTypes
    <3>2. t = Shape(request').target
        BY <1>2, <3>1
    <3>3. reply'.kind = "reply" => Idle(t) /\ reply'.good
        BY <1>2, <1>3, <1>4, <1>9, <2>4, <3>1 DEF JobsOfRequest, CollectJobs
    <3> QED BY <1>2, <1>4, <1>6, <2>1, <2>4, <3>1, <3>2, <3>3 DEF JobsOfRequest, CollectJobs, Live
  <2> QED BY <1>2, <1>4, <1>7, <2>3, <2>4 DEF JobsOfRequest
<1> QED BY <1>1, <1>8, <1>9 DEF Moved

LEMMA StageJobs ==
    ASSUME Any!RingAssumption, RingTypes, RingFlow, Vectors, Jobs, NEW n \in Any!Compute, Any!StageStep(n)
    PROVE  Jobs'
<1>0. /\ n \in Any!Nodes /\ Live(n) /\ UNCHANGED <<m, request, inReady, reply, genuine, timeouts>>
      /\ \A k \in Any!Nodes : k # n => node'[k] = node[k] /\ pkt'[k] = pkt[k]
      /\ \A k \in Any!Compute : k # n => job'[k] = job[k]
      /\ job \in [Any!Compute -> JobRecords] /\ pkt \in [Any!Nodes -> Any!Packets]
      /\ node'[n] = "send" \/ (node'[n] = "starting" /\ pkt[n].kind = "start" /\ pkt' = pkt)
    BY NodesAre, StageIs, StageData DEF Any!master, RingTypes, Any!TypeOK, JobRecords
<1> SUFFICES ASSUME timeouts = 0, m # "idle" PROVE JobsOfRequest'
    BY <1>0 DEF Jobs
<1>1. /\ JobsOfRequest /\ m = "wait" /\ inReady /\ pkt[n].own /\ Form(pkt[n])
      /\ \A k \in Any!Nodes : k # n => ~Live(k)
    BY <1>0, OnePacket DEF Jobs, Vectors, Alone
<1>2. \A a \in Any!Nodes : pkt'[a].kind # "bad" => a = n
    BY <1>0, <1>1 DEF Live
<1>3. \A k \in Any!Compute : k # n => (Idle(k))' = Idle(k) /\ (Ready(k))' = Ready(k)
    BY <1>0 DEF Idle, Ready
<1>4. \A k \in Any!Compute : k # n => ((Processed(k, n))' <=> Processed(k, n))
    BY DEF Processed
<1>5. /\ ~Processed(n, n)
      /\ node'[n] = "send" => (Processed(n, n))'
      /\ node'[n] = "starting" => ~(Processed(n, n))'
  <2>1. node[n] \in {"got", "starting"} /\ ~(n < n)
      BY StageIs DEF Any!Compute
  <2> QED BY <2>1 DEF Processed
<1>6. CASE Any!Reset(n) \/ Any!Layers(n)
  <2>1. job' = job /\ node'[n] = "send" /\ pkt[n].kind \in {"reset", "layers"}
      BY <1>0, <1>6 DEF Any!Reset, Any!Layers, RingTypes, Any!TypeOK
  <2>2. Shape(request).kind \in {"reset", "layers"}
      BY <1>1, <2>1 DEF Form, Asked, Answered
  <2>3. AllIdle'
      BY <1>1, <2>1, <2>2 DEF JobsOfRequest, AllIdle, Idle
  <2> QED BY <1>0, <2>2, <2>3 DEF JobsOfRequest
<1>7. CASE Any!Drain(n) \/ Any!StartScan(n)
  <2>1. pkt[n].kind = "start" /\ pkt' = pkt
      BY <1>0, <1>7 DEF Any!Drain, Any!StartScan, RingTypes, NodeFacts
  <2>2. Shape(request).kind = "start"
      BY <1>1, <2>1 DEF Form, Asked, Answered
  <2>3. \A k \in Any!Compute :
           IF Processed(k, n) THEN Ready(k) ELSE Idle(k) /\ (node[k] = "starting" => ~job[k].done)
      BY <1>0, <1>1, <2>2 DEF JobsOfRequest, StartJobs
  <2>4. CASE Any!Drain(n)
    <3>1. Idle(n)' /\ ~job'[n].done /\ node'[n] = "starting"
        BY <1>0, <1>5, <2>3, <2>4, DrainJob DEF Idle, Any!Drain, RingTypes, Any!TypeOK
    <3>2. ASSUME NEW k \in Any!Compute
          PROVE  IF (Processed(k, n))' THEN Ready(k)' ELSE Idle(k)' /\ (node'[k] = "starting" => ~job'[k].done)
      <4>1. CASE k = n
          BY <1>5, <3>1, <4>1
      <4>2. CASE k # n
          BY <1>0, <1>3, <1>4, <2>3, <4>2, NodesAre
      <4> QED BY <4>1, <4>2
    <3>3. StartJobs'
        BY <1>0, <1>1, <1>2, <3>2 DEF StartJobs, Live
    <3> QED BY <1>0, <2>2, <3>3 DEF JobsOfRequest
  <2>5. CASE Any!StartScan(n)
    <3>1. node[n] = "starting" /\ node'[n] = "send" /\ Idle(n) /\ ~job[n].done
        BY <1>0, <1>5, <2>3, <2>5 DEF Any!StartScan, RingTypes, Any!TypeOK
    <3>2. Ready(n)'
      <4>1. job'[n].hidden /\ job'[n].using = "none" /\ ~job'[n].done
          BY <1>0, <1>1, <2>5, <3>1, StartScanJob DEF Idle, Any!Packets
      <4> QED BY <4>1 DEF Ready
    <3>3. ASSUME NEW k \in Any!Compute
          PROVE  IF (Processed(k, n))' THEN Ready(k)' ELSE Idle(k)' /\ (node'[k] = "starting" => ~job'[k].done)
      <4>1. CASE k = n
          BY <1>5, <3>1, <3>2, <4>1
      <4>2. CASE k # n
          BY <1>0, <1>3, <1>4, <2>3, <4>2, NodesAre
      <4> QED BY <4>1, <4>2
    <3>4. StartJobs'
        BY <1>0, <1>1, <1>2, <3>3 DEF StartJobs, Live
    <3> QED BY <1>0, <2>2, <3>4 DEF JobsOfRequest
  <2> QED BY <1>7, <2>4, <2>5
<1>8. CASE Any!Collect(n)
  <2>1. /\ node[n] = "got" /\ Any!Targeted(n) /\ pkt[n].kind = "collect" /\ job[n].done
        /\ pkt' = IF job[n].ok THEN Any!Replied(n, job[n].good) ELSE pkt
        /\ node'[n] = "send"
      BY <1>0, <1>8 DEF Any!Collect, RingTypes, Any!TypeOK
  <2>2. Asked(pkt[n]) /\ Shape(request).kind = "collect"
      BY <1>1, <2>1 DEF Form, Asked, Answered
  <2>3. Shape(request).target = n
      BY <2>1, <2>2, ShapeTypes, NodesAre DEF Asked, Any!Targeted
  <2>4. Ready(n)
      BY <1>0, <1>1, <1>5, <2>1, <2>2, <2>3 DEF JobsOfRequest, CollectJobs
  <2>5. Idle(n)'
      BY <1>0, <1>8, <2>1, <2>4, CollectJob DEF Ready, Idle
  <2>6. pkt'[n].kind = "reply" => pkt'[n].good
    <3>1. CASE job[n].ok
      <4>1. job[n].good = TRUE
          BY <1>0, <2>1, <2>4, <3>1 DEF Ready, JobRecords
      <4>2. pkt' = Any!Replied(n, TRUE)
          BY <2>1, <3>1, <4>1
      <4> QED BY <1>0, <4>2, RepliedIs
    <3>2. CASE ~job[n].ok
        BY <2>1, <3>2
    <3> QED BY <3>1, <3>2
  <2>7. \A k \in Any!Compute : (k < n => Idle(k)') /\ (k > n => Ready(k)')
    <3>1. \A k \in Any!Compute : (k < n => k # n) /\ (k > n => k # n)
        BY DEF Any!Compute
    <3> QED BY <1>1, <1>3, <2>2, <2>3, <3>1 DEF JobsOfRequest, CollectJobs
  <2>8. n = Shape(request').target
      BY <1>0, <2>3
  <2>9. CollectJobs'
      BY <1>0, <1>1, <1>2, <1>5, <2>1, <2>5, <2>6, <2>7, <2>8 DEF CollectJobs, Live
  <2> QED BY <1>0, <2>2, <2>9 DEF JobsOfRequest
<1> QED BY <1>6, <1>7, <1>8 DEF Any!StageStep

LEMMA JobsKept ==
    ASSUME Any!RingAssumption, RingTypes, RingFlow, Vectors, Jobs, [Any!Next]_(Any!vars),
           Any!Command => Any!ScansOver
    PROVE  Jobs'
<1>1. CASE UNCHANGED Any!vars
    BY <1>1 DEF Any!vars, Any!master, Jobs, JobsOfRequest, StartJobs, CollectJobs, AllIdle, AllReady,
       Idle, Ready,
           Processed, Live
<1>2. CASE Any!Next
    BY <1>2, MasterJobs, RequestJobs, NodeJobs, ForwardJobs, StageJobs, ScanJobs
       DEF Any!Next, Any!MasterStep, Any!NodeStep
<1> QED BY <1>1, <1>2

LEMMA JobsInit == Any!Init => Jobs
BY DEF Any!Init, Jobs

-----------------------------------------------------------------------------
\* The two rings of the small instances are such rings.

LEMMA SameRequests ==
    /\ Ring!Compute = Any!Compute /\ Ring!Nodes = Any!Nodes /\ Ring!Bad = Any!Bad
    /\ Late!Compute = Any!Compute /\ Late!Nodes = Any!Nodes /\ Late!Bad = Any!Bad
    /\ \A s : Ring!Request(s) = Any!Request(s) /\ Late!Request(s) = Any!Request(s)
<1>1. /\ \A k, t, p : Ring!Message(k, t, p) = Any!Message(k, t, p)
      /\ \A k, t, p : Late!Message(k, t, p) = Any!Message(k, t, p)
    BY DEF Ring!Message, Late!Message, Any!Message
<1>2. /\ Ring!Prefill = Any!Prefill /\ Ring!Round = Any!Round /\ Ring!Broadcast = Any!Broadcast
      /\ Late!Prefill = Any!Prefill /\ Late!Round = Any!Round /\ Late!Broadcast = Any!Broadcast
    BY DEF Ring!Prefill, Any!Prefill, Late!Prefill, Ring!Round, Any!Round, Late!Round,
           Ring!Broadcast, Any!Broadcast, Late!Broadcast
<1>3. ASSUME NEW s PROVE Ring!Request(s) = Any!Request(s) /\ Late!Request(s) = Any!Request(s)
    BY <1>1, <1>2, Zenon DEF Ring!Request, Any!Request, Late!Request
<1> QED BY <1>3 DEF Ring!Compute, Any!Compute, Late!Compute, Ring!Nodes, Any!Nodes, Late!Nodes,
           Ring!Relay, Any!Relay, Late!Relay, Ring!Bad, Any!Bad, Late!Bad

\* A transfer of the patient host's ring is never given up before it is lost.
LEMMA RingSteps ==
    ASSUME timeouts = 0, Ring!Next
    PROVE  Any!Next /\ (Any!Command => Any!ScansOver)
<1> USE SameRequests
<1>1. ASSUME Ring!Command PROVE Any!Command /\ Any!ScansOver
    BY <1>1
    DEF Ring!Command, Any!Command, Ring!ScansOver, Any!ScansOver
<1> DEFINE NoCommand == m # "idle" \/ m' = m
<1>2. ASSUME Ring!QueueIncoming PROVE NoCommand /\ Any!QueueIncoming
    BY <1>2
    DEF Ring!QueueIncoming, Any!QueueIncoming, Ring!Disowned, Any!Disowned, Ring!Earlier, Any!Earlier,
        Ring!InAir, Any!InAir
<1>3. ASSUME Ring!SendDownstream PROVE NoCommand /\ Any!SendDownstream
    BY <1>3
    DEF Ring!SendDownstream, Any!SendDownstream, Ring!Arrives, Any!Arrives
<1>4. ASSUME Ring!Completes PROVE NoCommand /\ Any!Completes
    BY <1>4
    DEF Ring!Completes, Any!Completes, Ring!Answers, Any!Answers, Ring!Expected, Any!Expected,
        Ring!LastRequest, Any!LastRequest, Ring!Prefill, Any!Prefill, Ring!Round, Any!Round, Ring!Fails,
        Any!Fails
<1>5. ASSUME Ring!TimesOut PROVE NoCommand /\ Any!TimesOut
    BY <1>5
    DEF Ring!TimesOut, Any!TimesOut, Ring!Lost, Any!Lost, Ring!ScansOver, Any!ScansOver, Ring!Fails, Any!Fails
<1>6. ASSUME Ring!OwnPartFails PROVE NoCommand /\ Any!OwnPartFails
    BY <1>6
    DEF Ring!OwnPartFails, Any!OwnPartFails, Ring!Fails, Any!Fails
<1>7. ASSUME NEW n \in Ring!Nodes, Ring!Passes(n) PROVE NoCommand /\ Any!Passes(n) /\ n \in Any!Nodes
    BY <1>7
    DEF Ring!Passes, Any!Passes, Ring!Targeted, Any!Targeted, Ring!Relay, Any!Relay, Ring!Broadcast,
        Any!Broadcast, Ring!master, Any!master
<1>8. ASSUME NEW n \in Ring!Nodes, Ring!Forward(n) PROVE NoCommand /\ Any!Forward(n) /\ n \in Any!Nodes
    BY <1>8
    DEF Ring!Forward, Any!Forward, Ring!Arrives, Any!Arrives, Ring!Relay, Any!Relay
<1>9. ASSUME NEW n \in Ring!Nodes, Ring!Drops(n) PROVE NoCommand /\ Any!Drops(n) /\ n \in Any!Nodes
    BY <1>9
    DEF Ring!Drops, Any!Drops, Ring!Relay, Any!Relay, Ring!master, Any!master
<1>10. ASSUME NEW n \in Ring!Nodes, Ring!IdleTimeout(n)
       PROVE  NoCommand /\ Any!IdleTimeout(n) /\ n \in Any!Nodes
    BY <1>10
    DEF Ring!IdleTimeout, Any!IdleTimeout, Ring!InAir, Any!InAir, Ring!master, Any!master
<1>11. ASSUME NEW n \in Ring!Compute, Ring!Reset(n) PROVE NoCommand /\ Any!Reset(n) /\ n \in Any!Compute
    BY <1>11
    DEF Ring!Reset, Any!Reset, Ring!Targeted, Any!Targeted, Ring!Relay, Any!Relay, Ring!Broadcast,
        Any!Broadcast, Ring!master, Any!master
<1>12. ASSUME NEW n \in Ring!Compute, Ring!Layers(n) PROVE NoCommand /\ Any!Layers(n) /\ n \in Any!Compute
    BY <1>12
    DEF Ring!Layers, Any!Layers, Ring!Targeted, Any!Targeted, Ring!Relay, Any!Relay, Ring!Broadcast,
        Any!Broadcast, Ring!Replied, Any!Replied, Ring!OverOwnEntries, Any!OverOwnEntries, Ring!master,
        Any!master
<1>13. ASSUME NEW n \in Ring!Compute, Ring!Drain(n) PROVE NoCommand /\ Any!Drain(n) /\ n \in Any!Compute
    BY <1>13
    DEF Ring!Drain, Any!Drain, Ring!Targeted, Any!Targeted, Ring!Relay, Any!Relay, Ring!Broadcast,
        Any!Broadcast, Ring!master, Any!master
<1>14. ASSUME NEW n \in Ring!Compute, Ring!StartScan(n)
       PROVE  NoCommand /\ Any!StartScan(n) /\ n \in Any!Compute
    BY <1>14
    DEF Ring!StartScan, Any!StartScan, Ring!master, Any!master
<1>15. ASSUME NEW n \in Ring!Compute, Ring!Collect(n)
       PROVE  NoCommand /\ Any!Collect(n) /\ n \in Any!Compute
    BY <1>15
    DEF Ring!Collect, Any!Collect, Ring!Targeted, Any!Targeted, Ring!Relay, Any!Relay, Ring!Broadcast,
        Any!Broadcast, Ring!Replied, Any!Replied, Ring!master, Any!master
<1>16. ASSUME NEW n \in Ring!Compute, Ring!Scan(n) PROVE NoCommand /\ Any!Scan(n) /\ n \in Any!Compute
    BY <1>16
    DEF Ring!Scan, Any!Scan, Ring!ScanBegins, Any!ScanBegins, Ring!ScanEnds, Any!ScanEnds, Ring!master,
        Any!master
<1>17. NoCommand => ~Any!Command
    BY DEF Any!Command
<1> QED BY <1>1, <1>2, <1>3, <1>4, <1>5, <1>6, <1>7, <1>8, <1>9, <1>10, <1>11, <1>12, <1>13, <1>14, <1>15,
           <1>16, <1>17
        DEF Ring!Next, Any!Next, Ring!MasterStep, Any!MasterStep, Ring!NodeStep, Any!NodeStep, Ring!StageStep,
            Any!StageStep

\* No time passes on an armed stage of the ring whose transfers may be late.
LEMMA LateSteps ==
    ASSUME Any!TypeOK, Late!Next
    PROVE  Any!Next
<1> USE SameRequests
<1>1. ASSUME Late!Command PROVE Any!Command
    BY <1>1
    DEF Late!Command, Any!Command
<1>2. ASSUME Late!QueueIncoming PROVE Any!QueueIncoming
    BY <1>2
    DEF Late!QueueIncoming, Any!QueueIncoming, Late!Disowned, Any!Disowned, Late!Earlier, Any!Earlier,
        Late!InAir, Any!InAir
<1>3. ASSUME Late!SendDownstream PROVE Any!SendDownstream
    BY <1>3
    DEF Late!SendDownstream, Any!SendDownstream, Late!Arrives, Any!Arrives
<1>4. ASSUME Late!Completes PROVE Any!Completes
    BY <1>4
    DEF Late!Completes, Any!Completes, Late!Answers, Any!Answers, Late!Expected, Any!Expected,
        Late!LastRequest, Any!LastRequest, Late!Prefill, Any!Prefill, Late!Round, Any!Round, Late!Fails,
        Any!Fails
<1>5. ASSUME Late!TimesOut PROVE Any!TimesOut
    BY <1>5
    DEF Late!TimesOut, Any!TimesOut, Late!Lost, Any!Lost, Late!ScansOver, Any!ScansOver, Late!Fails, Any!Fails
<1>6. ASSUME Late!OwnPartFails PROVE Any!OwnPartFails
    BY <1>6
    DEF Late!OwnPartFails, Any!OwnPartFails, Late!Fails, Any!Fails
<1>7. ASSUME NEW n \in Late!Nodes, Late!Passes(n) PROVE Any!Passes(n) /\ n \in Any!Nodes
    BY <1>7
    DEF Late!Passes, Any!Passes, Late!Targeted, Any!Targeted, Late!Relay, Any!Relay, Late!Broadcast,
        Any!Broadcast, Late!master, Any!master
<1>8. ASSUME NEW n \in Late!Nodes, Late!Forward(n) PROVE Any!Forward(n) /\ n \in Any!Nodes
    BY <1>8
    DEF Late!Forward, Any!Forward, Late!Arrives, Any!Arrives, Late!Relay, Any!Relay
<1>9. ASSUME NEW n \in Late!Nodes, Late!Drops(n) PROVE Any!Drops(n) /\ n \in Any!Nodes
    BY <1>9
    DEF Late!Drops, Any!Drops, Late!Relay, Any!Relay, Late!master, Any!master
<1>10. ASSUME NEW n \in Late!Nodes PROVE ~Late!IdleTimeout(n)
    BY DEF Late!IdleTimeout, Any!TypeOK, Any!InAir
<1>11. ASSUME NEW n \in Late!Compute, Late!Reset(n) PROVE Any!Reset(n) /\ n \in Any!Compute
    BY <1>11
    DEF Late!Reset, Any!Reset, Late!Targeted, Any!Targeted, Late!Relay, Any!Relay, Late!Broadcast,
        Any!Broadcast, Late!master, Any!master
<1>12. ASSUME NEW n \in Late!Compute, Late!Layers(n) PROVE Any!Layers(n) /\ n \in Any!Compute
    BY <1>12
    DEF Late!Layers, Any!Layers, Late!Targeted, Any!Targeted, Late!Relay, Any!Relay, Late!Broadcast,
        Any!Broadcast, Late!Replied, Any!Replied, Late!OverOwnEntries, Any!OverOwnEntries, Late!master,
        Any!master
<1>13. ASSUME NEW n \in Late!Compute, Late!Drain(n) PROVE Any!Drain(n) /\ n \in Any!Compute
    BY <1>13
    DEF Late!Drain, Any!Drain, Late!Targeted, Any!Targeted, Late!Relay, Any!Relay, Late!Broadcast,
        Any!Broadcast, Late!master, Any!master
<1>14. ASSUME NEW n \in Late!Compute, Late!StartScan(n) PROVE Any!StartScan(n) /\ n \in Any!Compute
    BY <1>14
    DEF Late!StartScan, Any!StartScan, Late!master, Any!master
<1>15. ASSUME NEW n \in Late!Compute, Late!Collect(n) PROVE Any!Collect(n) /\ n \in Any!Compute
    BY <1>15
    DEF Late!Collect, Any!Collect, Late!Targeted, Any!Targeted, Late!Relay, Any!Relay, Late!Broadcast,
        Any!Broadcast, Late!Replied, Any!Replied, Late!master, Any!master
<1>16. ASSUME NEW n \in Late!Compute, Late!Scan(n) PROVE Any!Scan(n) /\ n \in Any!Compute
    BY <1>16
    DEF Late!Scan, Any!Scan, Late!ScanBegins, Any!ScanBegins, Late!ScanEnds, Any!ScanEnds, Late!master,
        Any!master
<1> QED BY <1>1, <1>2, <1>3, <1>4, <1>5, <1>6, <1>7, <1>8, <1>9, <1>10, <1>11, <1>12, <1>13, <1>14, <1>15,
           <1>16
        DEF Late!Next, Any!Next, Late!MasterStep, Any!MasterStep, Late!NodeStep, Any!NodeStep, Late!StageStep,
            Any!StageStep

-----------------------------------------------------------------------------
\* The parts together.

LEMMA PackagesParts == PackagesSpec => Spec /\ Train!Spec
<1>1. PackagesInit => Init /\ Train!Init
    BY DEF PackagesInit
<1>2. ASSUME [PackagesNext]_allVars PROVE [Next]_vars /\ [Train!Next]_(Train!vars)
  <2>1. UNCHANGED trainVars => UNCHANGED Train!vars
      BY DEF trainVars, Train!vars, Train!run, Train!learned
  <2>2. CASE part = "loader" /\ Next /\ UNCHANGED <<part, ringVars, trainVars>>
      BY <2>1, <2>2
  <2>3. CASE part \in {"ring", "late"} /\ UNCHANGED <<part, vars, trainVars>>
      BY <2>1, <2>3
  <2>4. CASE part = "train" /\ Train!Next /\ UNCHANGED <<part, vars, ringVars>>
      BY <2>4
  <2>5. CASE UNCHANGED allVars
      BY <2>1, <2>5 DEF allVars
  <2> QED BY <1>2, <2>2, <2>3, <2>4, <2>5, Zenon DEF PackagesNext, Stops
<1> QED BY <1>1, <1>2, PTL DEF PackagesSpec, Spec, Train!Spec

(***************************************************************************)
(* What holds of the rings.  What a scan reads is known only of the ring   *)
(* with a patient host, where no transfer is given up before it is lost.   *)
(***************************************************************************)
RingInv ==
    /\ RingTypes /\ RingFlow /\ Vectors
    /\ part # "late" => timeouts = 0 /\ Jobs

LEMMA RingInvariant == PackagesSpec => []RingInv
<1>0. Any!RingAssumption
    BY PackagesAssumption
    DEF PackagesAssumption, Ring!RingAssumption, Late!RingAssumption, Any!RingAssumption,
        Ring!Broadcast, Late!Broadcast, Any!Broadcast
<1>1. PackagesInit => RingInv
  <2> SUFFICES ASSUME PackagesInit PROVE RingInv
      OBVIOUS
  <2>1. Any!Init
      BY SameRequests DEF PackagesInit, Ring!Init, Any!Init, Ring!NoJob, Any!NoJob
  <2> QED BY <1>0, <2>1, RingTypesInit, RingFlowInit, VectorsInit, JobsInit DEF RingInv, Any!Init
<1>2. ASSUME RingInv, [PackagesNext]_allVars
      PROVE  RingInv'
  <2>1. part' = part
      BY <1>2 DEF PackagesNext, Stops, allVars
  <2>2. CASE UNCHANGED ringVars
    <3>1. UNCHANGED Any!vars /\ ~Any!Command
        BY <2>2 DEF ringVars, Any!vars, Any!master, Any!Command
    <3>2. RingTypes' /\ RingFlow' /\ Vectors' /\ (Jobs => Jobs')
        BY <1>0, <1>2, <3>1, RingTypesKept, RingFlowKept, VectorsKept, JobsKept DEF RingInv
    <3> QED BY <1>2, <2>1, <2>2, <3>2 DEF RingInv, ringVars
  <2>3. CASE part = "ring" /\ Ring!Next
    <3>1. Any!Next /\ (Any!Command => Any!ScansOver)
        BY <1>2, <2>3, RingSteps DEF RingInv
    <3>2. RingTypes' /\ RingFlow' /\ Vectors' /\ Jobs'
        BY <1>0, <1>2, <2>3, <3>1, RingTypesKept, RingFlowKept, VectorsKept, JobsKept DEF RingInv
    <3>3. timeouts' = 0
      <4> USE <1>2, <2>3 DEF RingInv
      <4>1. CASE Ring!TimesOut
          BY <4>1 DEF Ring!TimesOut
      <4>2. CASE \/ Ring!Command \/ Ring!QueueIncoming \/ Ring!SendDownstream
                 \/ Ring!Completes \/ Ring!OwnPartFails
          BY <4>2 DEF Ring!Command, Ring!QueueIncoming, Ring!SendDownstream, Ring!Completes, Ring!OwnPartFails
      <4>3. ASSUME NEW n \in Ring!Nodes, Ring!NodeStep(n) \/ Ring!IdleTimeout(n) PROVE timeouts' = 0
          BY <4>3 DEF Ring!NodeStep, Ring!Passes, Ring!Forward, Ring!Drops, Ring!IdleTimeout
      <4>4. ASSUME NEW n \in Ring!Compute, Ring!StageStep(n) \/ Ring!Scan(n) PROVE timeouts' = 0
          BY <4>4 DEF Ring!StageStep, Ring!Reset, Ring!Layers, Ring!Drain, Ring!StartScan, Ring!Collect,
                      Ring!Scan, Ring!ScanBegins, Ring!ScanEnds
      <4> QED BY <4>1, <4>2, <4>3, <4>4 DEF Ring!Next, Ring!MasterStep
    <3> QED BY <3>2, <3>3 DEF RingInv
  <2>4. CASE part = "late" /\ Late!Next
    <3>1. Any!Next
        BY <1>2, <2>4, LateSteps DEF RingInv, RingTypes
    <3>2. RingTypes' /\ RingFlow' /\ Vectors'
        BY <1>0, <1>2, <3>1, RingTypesKept, RingFlowKept, VectorsKept DEF RingInv
    <3> QED BY <2>1, <2>4, <3>2 DEF RingInv
  <2> QED BY <1>2, <2>2, <2>3, <2>4, Zenon DEF PackagesNext, Stops, allVars
<1> QED BY <1>1, <1>2, PTL DEF PackagesSpec

(***************************************************************************)
(* The token that a command selects comes from logits of its own hidden    *)
(* vector as long as the host is patient; that vector was computed over    *)
(* keys and values of this command, and no answer to an earlier request    *)
(* passes for one to the present, however many packets are late.  With any *)
(* number of stages and tokens, of packets damaged, of transfers given up  *)
(* and of idle stages, and for sequences of every width above one bit.     *)
(***************************************************************************)
THEOREM SelectionsAreOwn == PackagesSpec => []LogitsAreOwn
<1>0. Any!RingAssumption
    BY PackagesAssumption
    DEF PackagesAssumption, Ring!RingAssumption, Late!RingAssumption, Any!RingAssumption,
        Ring!Broadcast, Late!Broadcast, Any!Broadcast
<1>1. ASSUME RingInv, TypeOK
      PROVE  LogitsAreOwn
  <2> USE <1>1 DEF RingInv
  <2>1. Any!TypeOK
      BY DEF RingTypes
  <2>2. Late!TypeOK
      BY <2>1, SameRequests
      DEF Late!TypeOK, Any!TypeOK, Late!LastRequest, Any!LastRequest, Late!Prefill, Any!Prefill,
          Late!Round, Any!Round, Late!Packets, Any!Packets, Late!InAir, Any!InAir, Late!Broadcast, Any!Broadcast
  <2>3. part # "late" => Ring!TypeOK
      BY <2>1, SameRequests
      DEF Ring!TypeOK, Any!TypeOK, Ring!LastRequest, Any!LastRequest, Ring!Prefill, Any!Prefill,
          Ring!Round, Any!Round, Ring!Packets, Any!Packets, Ring!InAir, Any!InAir, Ring!Broadcast, Any!Broadcast
  <2>4. part = "ring" => Ring!LogitsAreOwn
      BY DEF Jobs, Ring!LogitsAreOwn
  <2>5. Ring!HiddenIsOwn
      BY DEF Vectors, Ring!HiddenIsOwn
  <2>6. Any!AcceptedIsOwn
      BY <1>0, AcceptedOwn DEF RingFlow
  <2>7. Ring!AcceptedIsOwn
      BY <2>6, SameRequests
      DEF Ring!AcceptedIsOwn, Any!AcceptedIsOwn, Ring!Answers, Any!Answers, Ring!Expected, Any!Expected
  <2> QED BY <2>2, <2>3, <2>4, <2>5, <2>7 DEF LogitsAreOwn
<1> QED BY <1>1, RingInvariant, PackagesParts, LoaderTypes, PTL

(***************************************************************************)
(* A checkpoint counts what its weights were presented with and is of one  *)
(* moment, a run that completes passes its target by less than one step,   *)
(* and no run takes more steps than the largest goal.                      *)
(***************************************************************************)
THEOREM TrainingIsExact == PackagesSpec => []CheckpointsExact
<1>1. Train!Spec => []Train!CheckpointsExact
    BY TrainExact, PackagesAssumption DEF PackagesAssumption
<1>2. Train!CheckpointsExact => CheckpointsExact
    BY DEF CheckpointsExact
<1> QED BY <1>1, <1>2, PackagesParts, PTL

(***************************************************************************)
(* Under the name of a whole checkpoint there is always a whole one.       *)
(***************************************************************************)
THEOREM WholeStays == PackagesSpec => ResumableStays
<1>1. Train!Spec => Train!ResumableStays
    BY TrainStays, PackagesAssumption DEF PackagesAssumption
<1> QED BY <1>1, PackagesParts, PTL DEF ResumableStays
=============================================================================
