----------------------------- MODULE HostProofs -----------------------------
(***************************************************************************)
(* The host programs, for all values of their parameters: the installation *)
(* from Termux, with any number of images and of faults, the bridge        *)
(* cdc-pty, with any buffers, the command-line clients of the console,     *)
(* with any windows, transfers and lines, and ssos_model, with a bank of   *)
(* any size and any crowd, lag and number of losses.                       *)
(***************************************************************************)
EXTENDS MCInstall, MCConsole, SequenceTheorems, FiniteSetTheorems, WellFoundedInduction, TLAPS

-----------------------------------------------------------------------------
\* From the verification on all images are new, and while usb_app_reset runs
\* without a failed transfer the lines are where it has set them.

FlashInv ==
    /\ pc \in {"idle", "bl_reset", "bridge", "write", "verify", "erase",
               "app_reset", "completed", "failed"}
    /\ pc \in {"verify", "erase", "app_reset", "completed"} => Flash!Flashed
    /\ pc \notin {"bl_reset", "app_reset"} => lines = <<>>
    /\ pc = "app_reset" => lines \in {Flash!ResetApp, <<<<0, 1>>, <<0, 0>>>>, <<<<0, 0>>>>, <<>>}
    /\ pc = "app_reset" /\ ~unset /\ lines = <<<<0, 1>>, <<0, 0>>>> => ~armed
    /\ pc = "app_reset" /\ ~unset /\ lines \in {<<<<0, 0>>>>, <<>>} => mode = "app"
    /\ pc = "completed" /\ ~unset => mode = "app"

\* One line of usb_app_reset.
LEMMA SetLineKeeps ==
    ASSUME FlashInv, Flash!SetLine
    PROVE  FlashInv'
<1> USE DEF FlashInv
<1>1. UNCHANGED <<pc, flash, unset>> /\ (Flash!Flashed' <=> Flash!Flashed)
    BY DEF Flash!SetLine, Flash!Flashed, Flash!All
<1>2. lines # <<>> /\ lines' = Tail(lines) /\ pc \in {"bl_reset", "app_reset"}
    BY DEF Flash!SetLine
<1>3. CASE pc = "bl_reset"
    BY <1>1, <1>2, <1>3
<1>4. CASE pc = "app_reset" /\ lines = Flash!ResetApp
  <2>1. Head(lines) = <<0, 0>> /\ Tail(lines) = <<<<0, 1>>, <<0, 0>>>>
      BY <1>4 DEF Flash!ResetApp
  <2>2. lines' = <<<<0, 1>>, <<0, 0>>>>
      BY <2>1 DEF Flash!SetLine
  <2>3. ~armed'
    <3>1. Head(lines)[1] = 0 /\ Head(lines)[2] = 0
        BY <2>1
    <3>2. armed' = (Head(lines)[1] = 1 \/ (armed /\ Head(lines)[2] = 1))
        BY DEF Flash!SetLine
    <3>3. ~(Head(lines)[1] = 1 \/ (armed /\ Head(lines)[2] = 1))
        BY <3>1
    <3> QED BY <3>2, <3>3
  <2>4. lines' # <<>> /\ lines' # <<<<0, 0>>>>
      BY <2>2
  <2> QED BY <1>1, <1>4, <2>2, <2>3, <2>4
<1>5. CASE pc = "app_reset" /\ lines = <<<<0, 1>>, <<0, 0>>>>
  <2>1. lines' = <<<<0, 0>>>> /\ (~armed => mode' = "app")
      BY <1>5 DEF Flash!SetLine
  <2> QED BY <1>1, <1>5, <2>1
<1>6. CASE pc = "app_reset" /\ lines = <<<<0, 0>>>>
  <2>1. lines' = <<>> /\ mode' = mode
      BY <1>6 DEF Flash!SetLine
  <2> QED BY <1>1, <1>6, <2>1
<1> QED BY <1>2, <1>3, <1>4, <1>5, <1>6

\* A transfer of either tool that fails.
LEMMA SetLineFailsKeeps ==
    ASSUME FlashInv, Flash!SetLineFails
    PROVE  FlashInv'
<1> USE DEF FlashInv
<1>1. /\ UNCHANGED <<pc, flash>> /\ (Flash!Flashed' <=> Flash!Flashed) /\ unset' = TRUE
      /\ lines # <<>> /\ lines' = Tail(lines) /\ pc \in {"bl_reset", "app_reset"}
    BY DEF Flash!SetLineFails, Flash!board, Flash!Flashed, Flash!All
<1>2. pc = "app_reset" => lines' \in {<<<<0, 1>>, <<0, 0>>>>, <<<<0, 0>>>>, <<>>}
  <2>1. Tail(Flash!ResetApp) = <<<<0, 1>>, <<0, 0>>>>
      BY DEF Flash!ResetApp
  <2>2. Tail(<<<<0, 1>>, <<0, 0>>>>) = <<<<0, 0>>>> /\ Tail(<<<<0, 0>>>>) = <<>>
      OBVIOUS
  <2> QED BY <1>1, <2>1, <2>2
<1> QED BY <1>1, <1>2

LEMMA FlashInvariant == Flash!Spec => []FlashInv
<1>1. Flash!Init => FlashInv
  <2> SUFFICES ASSUME Flash!Init
               PROVE  FlashInv
      OBVIOUS
  <2>1. pc = "idle" /\ lines = <<>>
      BY DEF Flash!Init
  <2> QED BY <2>1 DEF FlashInv
<1>2. ASSUME FlashInv, [Flash!Next]_(Flash!vars)
      PROVE  FlashInv'
  <2> USE <1>2 DEF FlashInv
  <2>1. CASE Flash!Start
      BY <2>1 DEF Flash!Start, Flash!board
  <2>2. CASE Flash!SetLine
      BY <2>2, SetLineKeeps
  <2>3. CASE Flash!SetLineFails
      BY <2>3, SetLineFailsKeeps
  <2>4. CASE Flash!ToolEnds
      BY <2>4 DEF Flash!ToolEnds, Flash!board, Flash!Flashed, Flash!All
  <2>5. CASE Flash!StartBridge
      BY <2>5 DEF Flash!StartBridge
  <2>6. CASE Flash!WriteImage
      BY <2>6 DEF Flash!WriteImage
  <2>7. CASE Flash!Written
      BY <2>7 DEF Flash!Written, Flash!board, Flash!Flashed, Flash!All
  <2>8. CASE Flash!Verified \/ Flash!Erase
    <3>1. flash' = flash /\ Flash!Flashed /\ Flash!Flashed'
        BY <2>8 DEF Flash!Verified, Flash!Erase, Flash!board, Flash!Flashed, Flash!All
    <3>2. CASE pc' = "erase"
        BY <2>8, <3>1, <3>2 DEF Flash!Verified, Flash!Erase
    <3>3. CASE pc' = "app_reset"
      <4>1. lines' = Flash!ResetApp
          BY <2>8, <3>3 DEF Flash!Verified, Flash!Erase, Flash!Finish
      <4> QED BY <3>1, <3>3, <4>1 DEF Flash!ResetApp
    <3> QED BY <2>8, <3>2, <3>3 DEF Flash!Verified, Flash!Erase
  <2>9. CASE Flash!Fails \/ Flash!Unreachable
      BY <2>9 DEF Flash!Fails, Flash!Unreachable, Flash!Aborts
  <2>10. CASE Flash!BridgeEnds
      BY <2>10 DEF Flash!BridgeEnds, Flash!board, Flash!Flashed, Flash!All
  <2>11. CASE Flash!PowerCycle
    <3>1. /\ mode' = "app" /\ armed' = FALSE
          /\ UNCHANGED <<pc, lines, unset>>
          /\ pc # "write" => flash' = flash
        BY <2>11 DEF Flash!PowerCycle
    <3> QED BY <3>1 DEF Flash!Flashed, Flash!All
  <2>12. CASE UNCHANGED Flash!vars
      BY <2>12 DEF Flash!vars, Flash!Flashed, Flash!All
  <2> QED BY <2>1, <2>2, <2>3, <2>4, <2>5, <2>6, <2>7, <2>8, <2>9, <2>10, <2>11, <2>12
      DEF Flash!Next, Flash!Step
<1> QED BY <1>1, <1>2, PTL DEF Flash!Spec

(***************************************************************************)
(* The type invariant.  A reset tool has lines to set only while it runs,  *)
(* and a torn image is one of those being written.                         *)
(***************************************************************************)
THEOREM FlashTypes == Flash!FlashAssumption => (Flash!Spec => []Flash!TypeOK)
<1> SUFFICES ASSUME Flash!FlashAssumption PROVE Flash!Spec => []Flash!TypeOK
    OBVIOUS
<1>1. Flash!Init => Flash!TypeOK
  <2> SUFFICES ASSUME Flash!Init PROVE Flash!TypeOK
      OBVIOUS
  <2>1. flash \in [1..Images -> {"old", "torn", "new"}]
      BY DEF Flash!Init, Flash!All
  <2>2. 0 \in 0..MaxFaults
      BY DEF Flash!FlashAssumption
  <2>3. {initialize, bridge, unset} \subseteq BOOLEAN /\ armed \in BOOLEAN
      BY DEF Flash!Init
  <2> QED BY <2>1, <2>2, <2>3 DEF Flash!Init, Flash!TypeOK
<1>2. Flash!TypeOK /\ FlashInv /\ FlashInv' /\ [Flash!Next]_(Flash!vars) => Flash!TypeOK'
  <2> SUFFICES ASSUME Flash!TypeOK, FlashInv, FlashInv', [Flash!Next]_(Flash!vars)
               PROVE  Flash!TypeOK'
      OBVIOUS
  <2>1. pc' \in {"idle", "bl_reset", "bridge", "write", "verify", "erase", "app_reset", "completed", "failed"}
        /\ (lines' # <<>> => pc' \in {"bl_reset", "app_reset"})
      BY DEF FlashInv
  <2>2. settings' \in {"kept", "erased"} /\ {initialize', bridge', unset'} \subseteq BOOLEAN
      BY DEF Flash!TypeOK, Flash!Next, Flash!Step, Flash!Start, Flash!SetLine, Flash!SetLineFails,
             Flash!ToolEnds, Flash!StartBridge, Flash!WriteImage, Flash!Written,
             Flash!Verified, Flash!Erase, Flash!Finish, Flash!Unreachable, Flash!Fails, Flash!Aborts,
             Flash!BridgeEnds, Flash!PowerCycle, Flash!board, Flash!vars
  <2>3. mode' \in {"app", "loader"} /\ armed' \in BOOLEAN
      BY DEF Flash!TypeOK, Flash!Next, Flash!Step, Flash!Start, Flash!SetLine, Flash!SetLineFails,
             Flash!ToolEnds, Flash!StartBridge, Flash!WriteImage, Flash!Written,
             Flash!Verified, Flash!Erase, Flash!Unreachable, Flash!Fails, Flash!BridgeEnds, Flash!PowerCycle,
             Flash!board, Flash!vars
  <2>4. faults' \in 0..MaxFaults
      BY DEF Flash!FlashAssumption, Flash!TypeOK, Flash!Next, Flash!Step, Flash!Start, Flash!SetLine,
             Flash!SetLineFails, Flash!ToolEnds, Flash!StartBridge,
             Flash!WriteImage, Flash!Written, Flash!Verified, Flash!Erase, Flash!Unreachable, Flash!Fails,
             Flash!BridgeEnds, Flash!PowerCycle, Flash!Fault, Flash!vars
  <2>5. flash' \in [1..Images -> {"old", "torn", "new"}]
      BY DEF Flash!TypeOK, Flash!Next, Flash!Step, Flash!Start, Flash!SetLine, Flash!SetLineFails,
             Flash!ToolEnds, Flash!StartBridge, Flash!WriteImage, Flash!Written,
             Flash!Verified, Flash!Erase, Flash!Unreachable, Flash!Fails, Flash!Aborts, Flash!BridgeEnds,
             Flash!PowerCycle, Flash!board, Flash!vars
  <2> QED BY <2>1, <2>2, <2>3, <2>4, <2>5 DEF Flash!TypeOK
<1> QED BY <1>1, <1>2, FlashInvariant, PTL DEF Flash!Spec

-----------------------------------------------------------------------------
\* The bridge between the console and a pseudo-terminal.

\* The instance of PtyBridge brings its own names of two operators.
LEMMA PtyNames == \A S : Pty!Cardinality(S) = Cardinality(S) /\ Pty!Range(S) = Range(S)
BY DEF Pty!Cardinality, Cardinality, Pty!Range, Range

LEMMA RangeIs ==
    ASSUME NEW s \in Seq(Nat)
    PROVE  /\ Len(s) \in Nat /\ s \in [1..Len(s) -> Nat]
           /\ Range(s) = {s[i] : i \in 1..Len(s)} /\ Range(s) \subseteq Nat
<1>1. Len(s) \in Nat /\ s \in [1..Len(s) -> Nat] /\ DOMAIN s = 1..Len(s)
    BY LenProperties
<1>2. Range(s) = {s[i] : i \in 1..Len(s)}
    BY <1>1, Zenon DEF Range
<1> QED BY <1>1, <1>2

LEMMA Associates == \A a, b, c \in Seq(Nat) : (a \o b) \o c = a \o (b \o c)
<1> SUFFICES ASSUME NEW a \in Seq(Nat), NEW b \in Seq(Nat), NEW c \in Seq(Nat)
             PROVE  (a \o b) \o c = a \o (b \o c)
    OBVIOUS
<1> QED BY ConcatAssociative

\* The front of a chunk moves on to the end of what was carried before it.
LEMMA Moved ==
    ASSUME NEW a \in Seq(Nat), NEW b \in Seq(Nat), NEW n \in 1..Len(b)
    PROVE  /\ SubSeq(b, 1, n) \in Seq(Nat) /\ SubSeq(b, n + 1, Len(b)) \in Seq(Nat)
           /\ Len(SubSeq(b, 1, n)) = n /\ Len(SubSeq(b, n + 1, Len(b))) = Len(b) - n
           /\ a \o SubSeq(b, 1, n) \in Seq(Nat) /\ Len(a \o SubSeq(b, 1, n)) = Len(a) + n
           /\ (a \o SubSeq(b, 1, n)) \o SubSeq(b, n + 1, Len(b)) = a \o b
<1>0. Len(b) \in Nat /\ n \in Nat /\ \A i \in 1..Len(b) : b[i] \in Nat
    OBVIOUS
<1>1. SubSeq(b, 1, n) \in Seq(Nat) /\ Len(SubSeq(b, 1, n)) = n
    BY <1>0, SubSeqProperties
<1>2. SubSeq(b, n + 1, Len(b)) \in Seq(Nat) /\ Len(SubSeq(b, n + 1, Len(b))) = Len(b) - n
    BY <1>0, SubSeqProperties
<1>3. SubSeq(b, 1, n) \o SubSeq(b, n + 1, Len(b)) = b
  <2>1. SubSeq(b, 1, n) \o SubSeq(b, n + 1, Len(b)) = SubSeq(b, 1, Len(b))
      BY <1>0, ConcatAdjacentSubSeq
  <2> QED BY <2>1, SubSeqFull
<1>4. a \o SubSeq(b, 1, n) \in Seq(Nat) /\ Len(a \o SubSeq(b, 1, n)) = Len(a) + n
    BY <1>1, ConcatProperties
<1>5. (a \o SubSeq(b, 1, n)) \o SubSeq(b, n + 1, Len(b)) = a \o (SubSeq(b, 1, n) \o SubSeq(b, n + 1, Len(b)))
    BY <1>1, <1>2, Associates
<1> QED BY <1>1, <1>2, <1>3, <1>4, <1>5

\* As many new numbers as there are positions of a sequence without repetition.
LEMMA NewNumbers ==
    ASSUME NEW T, IsFiniteSet(T), NEW s \in Seq(Nat),
           \A i, j \in 1..Len(s) : i < j => s[i] # s[j],
           \A i \in 1..Len(s) : s[i] \notin T
    PROVE  IsFiniteSet(T \cup Range(s)) /\ Cardinality(T \cup Range(s)) = Cardinality(T) + Len(s)
<1>1. s \in [1..Len(s) -> Range(s)] /\ Len(s) \in Nat /\ Range(s) = {s[i] : i \in 1..Len(s)}
    BY DEF Range
<1>2. s \in Bijection(1..Len(s), Range(s))
  <2>1. \A i, j \in 1..Len(s) : s[i] = s[j] => i = j
      BY <1>1
  <2> QED BY <1>1, <2>1 DEF Bijection, Injection, Surjection, IsInjective
<1>3. IsFiniteSet(1..Len(s)) /\ Cardinality(1..Len(s)) = Len(s)
  <2>1. \A n \in Nat : IsFiniteSet(1..n) /\ Cardinality(1..n) = n
      BY FS_Interval
  <2> QED BY <1>1, <2>1
<1>4. IsFiniteSet(Range(s)) /\ Cardinality(Range(s)) = Len(s)
    BY <1>2, <1>3, FS_Bijection DEF ExistsBijection
<1>5. T \cap Range(s) = {}
    BY <1>1
<1>6. /\ IsFiniteSet(T \cup Range(s))
      /\ Cardinality(T \cup Range(s)) = Cardinality(T) + Cardinality(Range(s)) - Cardinality(T \cap Range(s))
    BY <1>4, FS_Union
<1>7. Cardinality(T \cap Range(s)) = 0 /\ Cardinality(T) \in Nat
    BY <1>5, FS_EmptySet, FS_CardinalityType
<1>8. Cardinality(T) + Len(s) - 0 = Cardinality(T) + Len(s)
    BY <1>1, <1>7
<1> QED BY <1>4, <1>6, <1>7, <1>8, Zenon

-----------------------------------------------------------------------------
(***************************************************************************)
(* Towards the terminal: what was carried and what was lost are together   *)
(* all units that transfers have taken, and nothing is carried twice.      *)
(***************************************************************************)
UType == [pc: {"transfer", "test", "write", "exit"}, buf: Seq(Nat)]
MType == [pc: {"read", "send", "join", "exit"}, buf: Seq(Nat)]

Stream == (seen \o tty) \o threadU.buf

Increasing(s) == \A i, j \in 1..Len(s) : i < j => s[i] < s[j]

Outward ==
    /\ threadU \in UType /\ seen \in Seq(Nat) /\ tty \in Seq(Nat)
    /\ threadU.pc \in {"transfer", "exit"} => threadU.buf = <<>>
    /\ fromBoard \in Nat /\ Pty!Taken <= fromBoard
    /\ IsFiniteSet(timedOut)
    /\ Increasing(Stream)
    /\ Range(Stream) \cup timedOut = 1..Pty!Taken
    /\ Range(Stream) \cap timedOut = {}

LEMMA StreamIs ==
    ASSUME Outward
    PROVE  /\ threadU.buf \in Seq(Nat) /\ Stream \in Seq(Nat) /\ seen \o tty \in Seq(Nat)
           /\ Len(Stream) = Len(seen) + Len(tty) + Len(threadU.buf)
           /\ Pty!Taken = Cardinality(timedOut) + Len(Stream)
           /\ Cardinality(timedOut) \in Nat /\ Pty!Taken \in Nat
           /\ Range(Stream) = {Stream[i] : i \in 1..Len(Stream)}
<1>1. threadU.buf \in Seq(Nat) /\ seen \in Seq(Nat) /\ tty \in Seq(Nat)
    BY DEF Outward, UType
<1>2. seen \o tty \in Seq(Nat) /\ Len(seen \o tty) = Len(seen) + Len(tty)
    BY <1>1, ConcatProperties
<1>3. Stream \in Seq(Nat) /\ Len(Stream) = Len(seen) + Len(tty) + Len(threadU.buf)
    BY <1>1, <1>2, ConcatProperties DEF Stream
<1>4. Cardinality(timedOut) \in Nat
    BY FS_CardinalityType DEF Outward
<1>5. Pty!Taken = Cardinality(timedOut) + Len(seen) + Len(tty) + Len(threadU.buf)
    BY PtyNames DEF Pty!Taken
<1>6. Len(seen) \in Nat /\ Len(tty) \in Nat /\ Len(threadU.buf) \in Nat
    BY <1>1
<1>7. Range(Stream) = {Stream[i] : i \in 1..Len(Stream)}
    BY <1>3, RangeIs
<1>8. Pty!Taken = Cardinality(timedOut) + Len(Stream) /\ Pty!Taken \in Nat
  <2> DEFINE c == Cardinality(timedOut)
             x == Len(seen)
             y == Len(tty)
             z == Len(threadU.buf)
  <2>1. c \in Nat /\ x \in Nat /\ y \in Nat /\ z \in Nat
      BY <1>4, <1>6
  <2> HIDE DEF c, x, y, z
  <2>2. c + x + y + z = c + (x + y + z) /\ c + x + y + z \in Nat
      BY <2>1
  <2>3. Len(Stream) = x + y + z /\ Pty!Taken = c + x + y + z
      BY <1>3, <1>5 DEF c, x, y, z
  <2> QED BY <2>2, <2>3 DEF c
<1> QED BY <1>1, <1>2, <1>3, <1>4, <1>7, <1>8, Zenon

\* Sums.
LEMMA SumOfFour ==
    ASSUME NEW c \in Nat, NEW x \in Nat, NEW y \in Nat, NEW z \in Nat
    PROVE  c + x + y + z = c + (x + y + z)
OBVIOUS

\* A step that only moves units along the stream.
LEMMA StreamMoves ==
    ASSUME Outward, threadU' \in UType, seen' \in Seq(Nat), tty' \in Seq(Nat),
           threadU'.pc \in {"transfer", "exit"} => threadU'.buf = <<>>,
           (seen' \o tty') \o threadU'.buf = Stream,
           Len(seen') + Len(tty') + Len(threadU'.buf) = Len(seen) + Len(tty) + Len(threadU.buf),
           timedOut' = timedOut, fromBoard' \in Nat, fromBoard' >= fromBoard
    PROVE  Outward'
<1>1. Stream' = Stream
    BY DEF Stream
<1>2. Pty!Taken' = Pty!Taken
  <2>1. Pty!Taken = Cardinality(timedOut) + Len(seen) + Len(tty) + Len(threadU.buf)
      BY PtyNames DEF Pty!Taken
  <2>2. Pty!Taken' = Cardinality(timedOut) + Len(seen') + Len(tty') + Len(threadU'.buf)
      BY PtyNames DEF Pty!Taken
  <2>3. /\ Len(seen') \in Nat /\ Len(tty') \in Nat /\ Len(threadU'.buf) \in Nat
        /\ Len(seen) \in Nat /\ Len(tty) \in Nat /\ Len(threadU.buf) \in Nat /\ Cardinality(timedOut) \in Nat
    <3>1. /\ seen \in Seq(Nat) /\ tty \in Seq(Nat) /\ threadU.buf \in Seq(Nat) /\ threadU'.buf \in Seq(Nat)
          /\ Cardinality(timedOut) \in Nat
        BY StreamIs DEF Outward, UType
    <3> QED BY <3>1, RangeIs
  <2> DEFINE c == Cardinality(timedOut)
             x == Len(seen)
             y == Len(tty)
             z == Len(threadU.buf)
             v == Len(seen')
             w == Len(tty')
             n == Len(threadU'.buf)
  <2>4. /\ v + w + n = x + y + z
        /\ c \in Nat /\ x \in Nat /\ y \in Nat /\ z \in Nat /\ v \in Nat /\ w \in Nat /\ n \in Nat
      BY <2>3
  <2> HIDE DEF c, x, y, z, v, w, n
  <2>5. c + x + y + z = c + v + w + n
    <3>1. c + x + y + z = c + (x + y + z)
        BY <2>4, SumOfFour
    <3>2. c + v + w + n = c + (v + w + n)
        BY <2>4, SumOfFour
    <3> QED BY <2>4, <3>1, <3>2
  <2> QED BY <2>1, <2>2, <2>5 DEF c, x, y, z, v, w, n
<1>3. Pty!Taken \in Nat
    BY StreamIs
<1> QED BY <1>1, <1>2, <1>3 DEF Outward

\* Units that a transfer has taken are counted once: carried or lost.
LEMMA TransferTakes ==
    ASSUME Pty!BridgeAssumption, Outward, threadU.pc = "transfer", NEW s \in Pty!InTransfers
    PROVE  /\ s \in Seq(Nat) /\ Len(s) <= Chunk /\ Pty!Taken + Len(s) <= fromBoard
           /\ \A i \in 1..Len(s) : s[i] = Pty!Taken + i
           /\ Range(s) = (Pty!Taken + 1)..(Pty!Taken + Len(s))
<1>1. PICK n \in 0..Chunk : Pty!Taken + n <= fromBoard /\ s = [i \in 1..n |-> Pty!Taken + i]
    BY DEF Pty!InTransfers
<1>2. Pty!Taken \in Nat /\ Chunk \in Nat
    BY StreamIs DEF Pty!BridgeAssumption
<1>3. s \in Seq(Nat) /\ Len(s) = n
    BY <1>1, <1>2
<1>4. Range(s) = {Pty!Taken + i : i \in 1..n}
    BY <1>1 DEF Range
<1>5. {Pty!Taken + i : i \in 1..n} = (Pty!Taken + 1)..(Pty!Taken + n)
  <2>1. \A x \in (Pty!Taken + 1)..(Pty!Taken + n) : x - Pty!Taken \in 1..n /\ x = Pty!Taken + (x - Pty!Taken)
      BY <1>2
  <2> QED BY <1>2, <2>1
<1>6. Len(s) <= Chunk /\ Pty!Taken + Len(s) <= fromBoard /\ \A i \in 1..Len(s) : s[i] = Pty!Taken + i
    BY <1>1, <1>2, <1>3
<1> QED BY <1>3, <1>4, <1>5, <1>6, Zenon

LEMMA Joined ==
    ASSUME NEW a \in Seq(Nat), NEW b \in Seq(Nat)
    PROVE  /\ a \o b \in Seq(Nat) /\ Len(a \o b) = Len(a) + Len(b)
           /\ Range(a \o b) = Range(a) \cup Range(b)
           /\ Increasing(a \o b) <=>
                Increasing(a) /\ Increasing(b) /\ \A x \in Range(a), y \in Range(b) : x < y
<1>1. /\ a \o b \in Seq(Nat) /\ Len(a \o b) = Len(a) + Len(b)
      /\ \A i \in 1..(Len(a) + Len(b)) : (a \o b)[i] = IF i <= Len(a) THEN a[i] ELSE b[i - Len(a)]
    BY ConcatProperties
<1>2. /\ Len(a) \in Nat /\ Range(a) = {a[i] : i \in 1..Len(a)}
      /\ Len(b) \in Nat /\ Range(b) = {b[i] : i \in 1..Len(b)}
      /\ Range(a \o b) = {(a \o b)[i] : i \in 1..Len(a \o b)}
    BY <1>1, RangeIs
<1> DEFINE j == a \o b
           la == Len(a)
           lb == Len(b)
<1>3. /\ la \in Nat /\ lb \in Nat /\ Len(j) = la + lb
      /\ \A i \in 1..la : j[i] = a[i] /\ i \in 1..(la + lb)
      /\ \A i \in 1..lb : j[la + i] = b[i] /\ la + i \in 1..(la + lb)
      /\ \A i \in 1..(la + lb) : i \in 1..la \/ (i - la \in 1..lb /\ j[i] = b[i - la])
    BY <1>1, <1>2
<1>4. /\ Range(a) = {a[i] : i \in 1..la} /\ Range(b) = {b[i] : i \in 1..lb}
      /\ Range(j) = {j[i] : i \in 1..(la + lb)}
    BY <1>1, <1>2
<1>a. \A i \in 1..Len(a) : a[i] \in Nat
    OBVIOUS
<1>b. \A i \in 1..Len(b) : b[i] \in Nat
    OBVIOUS
<1>c. j \in Seq(Nat)
    BY <1>1
<1>d. (Increasing(a) <=> \A x, y \in 1..la : x < y => a[x] < a[y])
      /\ (Increasing(b) <=> \A x, y \in 1..lb : x < y => b[x] < b[y])
      /\ (Increasing(j) <=> \A x, y \in 1..(la + lb) : x < y => j[x] < j[y])
    BY <1>3 DEF Increasing
<1> HIDE DEF j, la, lb
<1>5. Range(j) = Range(a) \cup Range(b)
    BY <1>3, <1>4
<1>6. ASSUME Increasing(j)
      PROVE  Increasing(a) /\ Increasing(b) /\ \A x \in Range(a), y \in Range(b) : x < y
  <2>1. \A x, y \in 1..la : x < y => a[x] < a[y]
      BY <1>3, <1>6, <1>d
  <2>2. \A x, y \in 1..lb : x < y => b[x] < b[y]
    <3> SUFFICES ASSUME NEW x \in 1..lb, NEW y \in 1..lb, x < y PROVE b[x] < b[y]
        OBVIOUS
    <3>1. la + x < la + y /\ la + x \in 1..(la + lb) /\ la + y \in 1..(la + lb)
        BY <1>3
    <3> QED BY <1>3, <1>6, <1>d, <3>1
  <2>3. \A x \in 1..la, y \in 1..lb : a[x] < b[y]
    <3> SUFFICES ASSUME NEW x \in 1..la, NEW y \in 1..lb PROVE a[x] < b[y]
        OBVIOUS
    <3>1. x < la + y /\ x \in 1..(la + lb) /\ la + y \in 1..(la + lb)
        BY <1>3
    <3> QED BY <1>3, <1>6, <1>d, <3>1
  <2> QED BY <1>4, <1>d, <2>1, <2>2, <2>3
<1>7. ASSUME Increasing(a), Increasing(b), \A x \in Range(a), y \in Range(b) : x < y
      PROVE  Increasing(j)
  <2> SUFFICES ASSUME NEW x \in 1..(la + lb), NEW y \in 1..(la + lb), x < y PROVE j[x] < j[y]
      BY <1>d
  <2>1. CASE x \in 1..la /\ y \in 1..la
      BY <1>3, <1>7, <1>d, <2>1
  <2>2. CASE x \in 1..la /\ y \notin 1..la
      BY <1>3, <1>4, <1>7, <2>2
  <2>3. CASE x \notin 1..la /\ y \notin 1..la
    <3>1. x - la < y - la /\ x - la \in 1..lb /\ y - la \in 1..lb
        BY <1>3, <2>3
    <3> QED BY <1>3, <1>7, <1>d, <2>3, <3>1
  <2>4. ~(x \notin 1..la /\ y \in 1..la)
      BY <1>3
  <2> QED BY <2>1, <2>2, <2>3, <2>4
<1> QED BY <1>1, <1>5, <1>6, <1>7 DEF j, la, lb

LEMMA NoBuffer ==
    ASSUME Outward, threadU.buf = <<>>
    PROVE  Stream = seen \o tty /\ Pty!Taken = Cardinality(timedOut) + Len(seen \o tty)
BY StreamIs, ConcatEmptySeq DEF Stream

LEMMA LostAndCarried ==
    ASSUME Outward
    PROVE  /\ \A x \in Range(Stream) : x \in 1..Pty!Taken /\ x \notin timedOut
           /\ \A x \in timedOut : x \in 1..Pty!Taken
BY DEF Outward

LEMMA GotKeeps ==
    ASSUME Pty!BridgeAssumption, Outward, Pty!TransferGot
    PROVE  Outward' /\ Len(threadU'.buf) <= Chunk
<1>1. PICK s \in Pty!InTransfers : threadU' = [pc |-> "test", buf |-> s]
    BY DEF Pty!TransferGot
<1>2. threadU.pc = "transfer" /\ threadU.buf = <<>> /\ UNCHANGED <<tty, seen, fromBoard, timedOut>>
    BY DEF Pty!TransferGot, Outward
<1>3. /\ s \in Seq(Nat) /\ Len(s) <= Chunk /\ Pty!Taken + Len(s) <= fromBoard
      /\ \A i \in 1..Len(s) : s[i] = Pty!Taken + i
      /\ Range(s) = (Pty!Taken + 1)..(Pty!Taken + Len(s))
    BY <1>2, TransferTakes
<1>4. threadU' \in UType /\ threadU'.buf = s /\ threadU'.pc = "test"
    BY <1>1, <1>3 DEF UType
<1>5. Stream = seen \o tty /\ Pty!Taken \in Nat /\ Stream \in Seq(Nat)
    BY <1>2, NoBuffer, StreamIs
<1>6. Stream' = Stream \o s
    BY <1>2, <1>4, <1>5 DEF Stream
<1>7. Increasing(s)
    BY <1>3, <1>5 DEF Increasing
<1>8. \A x \in Range(Stream), y \in Range(s) : x < y
    BY <1>3, <1>5, LostAndCarried
<1>9. Range(Stream') = Range(Stream) \cup Range(s) /\ Increasing(Stream')
    BY <1>3, <1>5, <1>6, <1>7, <1>8, Joined DEF Outward
<1>10. Pty!Taken' = Pty!Taken + Len(s)
  <2> DEFINE c == Cardinality(timedOut)
             x == Len(seen)
             y == Len(tty)
             z == Len(s)
  <2>1. c \in Nat /\ x \in Nat /\ y \in Nat /\ z \in Nat
      BY <1>3, StreamIs, RangeIs DEF Outward
  <2>2. Pty!Taken' = c + x + y + z
      BY <1>2, <1>4, PtyNames DEF Pty!Taken
  <2>3. Pty!Taken = c + x + y + 0
      BY <1>2, PtyNames DEF Pty!Taken
  <2> HIDE DEF c, x, y, z
  <2>4. c + x + y + z = (c + x + y + 0) + z
      BY <2>1
  <2> QED BY <2>2, <2>3, <2>4 DEF z
<1>11. Range(Stream') \cup timedOut' = 1..Pty!Taken' /\ Range(Stream') \cap timedOut' = {}
  <2>1. Len(s) \in Nat
      BY <1>3, RangeIs
  <2>2. 1..(Pty!Taken + Len(s)) = (1..Pty!Taken) \cup ((Pty!Taken + 1)..(Pty!Taken + Len(s)))
      BY <2>1, <1>5
  <2>3. \A x \in Range(s) : x \notin 1..Pty!Taken
      BY <1>3, <1>5, <2>1
  <2> QED BY <1>2, <1>3, <1>9, <1>10, <2>2, <2>3 DEF Outward
<1>12. Pty!Taken' <= fromBoard'
    BY <1>2, <1>3, <1>10
<1> QED BY <1>2, <1>3, <1>4, <1>9, <1>11, <1>12 DEF Outward

LEMMA TimeoutKeeps ==
    ASSUME Pty!BridgeAssumption, Outward, Pty!TransferTimesOut
    PROVE  Outward'
<1>1. PICK s \in Pty!InTransfers : timedOut' = timedOut \cup Range(s)
    BY PtyNames DEF Pty!TransferTimesOut
<1>2. threadU.pc = "transfer" /\ UNCHANGED <<threadU, tty, seen, fromBoard>>
    BY DEF Pty!TransferTimesOut
<1>3. /\ s \in Seq(Nat) /\ Pty!Taken + Len(s) <= fromBoard
      /\ \A i \in 1..Len(s) : s[i] = Pty!Taken + i
      /\ Range(s) = (Pty!Taken + 1)..(Pty!Taken + Len(s))
    BY <1>2, TransferTakes
<1>4. Pty!Taken \in Nat /\ Len(s) \in Nat
    BY <1>3, StreamIs, RangeIs
<1>5. IsFiniteSet(timedOut') /\ Cardinality(timedOut') = Cardinality(timedOut) + Len(s)
  <2>1. \A i \in 1..Len(s) : s[i] \notin timedOut
      BY <1>3, <1>4, LostAndCarried
  <2>2. \A i, j \in 1..Len(s) : i < j => s[i] # s[j]
      BY <1>3, <1>4
  <2> QED BY <1>1, <1>3, <2>1, <2>2, NewNumbers DEF Outward
<1>6. Pty!Taken' = Pty!Taken + Len(s)
  <2> DEFINE c == Cardinality(timedOut)
             x == Len(seen)
             y == Len(tty)
             z == Len(threadU.buf)
             n == Len(s)
  <2>1. c \in Nat /\ x \in Nat /\ y \in Nat /\ z \in Nat /\ n \in Nat
      BY <1>3, StreamIs, RangeIs DEF Outward
  <2>2. Pty!Taken' = (c + n) + x + y + z
      BY <1>2, <1>5, PtyNames DEF Pty!Taken
  <2>3. Pty!Taken = c + x + y + z
      BY <1>2, PtyNames DEF Pty!Taken
  <2> HIDE DEF c, x, y, z, n
  <2>4. (c + n) + x + y + z = (c + x + y + z) + n
      BY <2>1
  <2> QED BY <2>2, <2>3, <2>4 DEF n
<1>7. Stream' = Stream
    BY <1>2 DEF Stream
<1>8. Range(Stream') \cup timedOut' = 1..Pty!Taken' /\ Range(Stream') \cap timedOut' = {}
  <2>2. 1..(Pty!Taken + Len(s)) = (1..Pty!Taken) \cup ((Pty!Taken + 1)..(Pty!Taken + Len(s)))
      BY <1>4
  <2>3. \A x \in Range(s) : x \notin 1..Pty!Taken
      BY <1>3, <1>4
  <2> QED BY <1>1, <1>3, <1>6, <1>7, <2>2, <2>3 DEF Outward
<1> QED BY <1>2, <1>3, <1>5, <1>6, <1>7, <1>8 DEF Outward

LEMMA NothingTwice ==
    ASSUME NEW s \in Seq(Nat), Increasing(s)
    PROVE  \A i, j \in 1..Len(s) : i < j => s[i] # s[j]
<1>1. \A i \in 1..Len(s) : s[i] \in Nat
    OBVIOUS
<1> QED BY <1>1 DEF Increasing

LEMMA DroppedKeeps ==
    ASSUME Outward, Pty!Test, threadU.buf = <<>> \/ stop
    PROVE  Outward'
<1>1. /\ threadU' = [pc |-> "transfer", buf |-> <<>>] /\ timedOut' = timedOut \cup Range(threadU.buf)
      /\ UNCHANGED <<tty, seen, fromBoard>>
    BY PtyNames DEF Pty!Test
<1>2. threadU' \in UType /\ threadU'.buf = <<>>
    BY <1>1 DEF UType
<1> DEFINE b == threadU.buf
           a == seen \o tty
<1>3. /\ b \in Seq(Nat) /\ a \in Seq(Nat) /\ Stream = a \o b /\ Len(a) \in Nat /\ Len(b) \in Nat
      /\ Len(a) = Len(seen) + Len(tty) /\ Len(seen) \in Nat /\ Len(tty) \in Nat
    BY StreamIs, RangeIs, Joined DEF Stream, Outward
<1>4. Stream' = a
  <2>1. Stream' = a \o <<>>
      BY <1>1, <1>2 DEF Stream
  <2> QED BY <1>3, <2>1, ConcatEmptySeq
<1>5. /\ Range(Stream) = Range(a) \cup Range(b) /\ Increasing(a) /\ Increasing(b)
      /\ \A x \in Range(a), y \in Range(b) : x < y
    BY <1>3, Joined DEF Outward
<1>6. IsFiniteSet(timedOut') /\ Cardinality(timedOut') = Cardinality(timedOut) + Len(b)
  <2>1. \A i \in 1..Len(b) : b[i] \in Range(b) /\ b[i] \in Nat
      BY <1>3, RangeIs
  <2>2. \A i \in 1..Len(b) : b[i] \notin timedOut
      BY <2>1, <1>5, LostAndCarried
  <2>3. \A i, j \in 1..Len(b) : i < j => b[i] # b[j]
      BY <1>3, <1>5, NothingTwice
  <2> QED BY <1>1, <1>3, <2>2, <2>3, NewNumbers DEF Outward
<1>7. Pty!Taken' = Pty!Taken
  <2> DEFINE c == Cardinality(timedOut)
             x == Len(seen)
             y == Len(tty)
             z == Len(b)
  <2>1. c \in Nat /\ x \in Nat /\ y \in Nat /\ z \in Nat
      BY <1>3, StreamIs
  <2>2. Pty!Taken' = (c + z) + x + y + 0
      BY <1>1, <1>2, <1>6, PtyNames DEF Pty!Taken
  <2>3. Pty!Taken = c + x + y + z
      BY PtyNames DEF Pty!Taken
  <2> HIDE DEF c, x, y, z
  <2>4. (c + z) + x + y + 0 = c + x + y + z
      BY <2>1
  <2> QED BY <2>2, <2>3, <2>4
<1>8. Range(a) \cap Range(b) = {}
  <2>1. \A x \in Range(a) : x \in Nat
      BY <1>3, RangeIs
  <2> QED BY <1>5, <2>1
<1>9. Range(Stream') \cup timedOut' = 1..Pty!Taken' /\ Range(Stream') \cap timedOut' = {}
    BY <1>1, <1>4, <1>5, <1>7, <1>8 DEF Outward
<1> QED BY <1>1, <1>2, <1>4, <1>5, <1>6, <1>7, <1>9 DEF Outward

LEMMA WriteKeeps ==
    ASSUME Outward, Pty!Write, Len(tty) <= PtyCap
    PROVE  Outward' /\ Len(threadU'.buf) <= Len(threadU.buf) /\ Len(tty') <= PtyCap
<1> DEFINE b == threadU.buf
<1>1. PICK n \in 1..Len(b) :
         /\ Len(tty) + n <= PtyCap
         /\ tty' = tty \o SubSeq(b, 1, n)
         /\ threadU' = [pc |-> "test", buf |-> SubSeq(b, n + 1, Len(b))]
    BY DEF Pty!Write
<1>2. UNCHANGED <<seen, fromBoard, timedOut>>
    BY DEF Pty!Write
<1>3. b \in Seq(Nat) /\ tty \in Seq(Nat) /\ seen \in Seq(Nat)
    BY StreamIs DEF Outward
<1> DEFINE f == SubSeq(b, 1, n)
           r == SubSeq(b, n + 1, Len(b))
<1>4. /\ f \in Seq(Nat) /\ r \in Seq(Nat) /\ Len(f) = n /\ Len(r) = Len(b) - n
      /\ tty \o f \in Seq(Nat) /\ Len(tty \o f) = Len(tty) + n
      /\ (tty \o f) \o r = tty \o b
    BY <1>3, Moved
<1>5. threadU' \in UType /\ threadU'.buf = r /\ threadU'.pc = "test"
    BY <1>1, <1>4 DEF UType
<1>6. (seen' \o tty') \o threadU'.buf = Stream
  <2>1. (seen \o (tty \o f)) \o r = seen \o ((tty \o f) \o r)
      BY <1>3, <1>4, Associates
  <2>2. seen \o (tty \o b) = (seen \o tty) \o b
      BY <1>3, Associates
  <2> QED BY <1>1, <1>2, <1>4, <1>5, <2>1, <2>2 DEF Stream
<1>7. Len(seen) \in Nat /\ Len(tty) \in Nat /\ Len(b) \in Nat
    BY <1>3, RangeIs
<1>8. Len(seen') + Len(tty') + Len(threadU'.buf) = Len(seen) + Len(tty) + Len(threadU.buf)
  <2> DEFINE x == Len(seen)
             y == Len(tty)
             z == Len(b)
  <2>1. Len(seen') = x /\ Len(tty') = y + n /\ Len(threadU'.buf) = z - n
      BY <1>1, <1>2, <1>4, <1>5
  <2>3. x \in Nat /\ y \in Nat /\ z \in Nat /\ n \in Nat
      BY <1>7
  <2> HIDE DEF x, y, z
  <2>2. x + (y + n) + (z - n) = x + y + z
      BY <2>3
  <2> QED BY <2>1, <2>2 DEF x, y, z
<1>9. Outward'
  <2>1. fromBoard' \in Nat /\ fromBoard' >= fromBoard /\ tty' \in Seq(Nat) /\ seen' \in Seq(Nat)
      BY <1>1, <1>2, <1>3, <1>4 DEF Outward
  <2> QED BY <1>2, <1>5, <1>6, <1>8, <2>1, StreamMoves
<1> QED BY <1>1, <1>4, <1>5, <1>7, <1>9

LEMMA TerminalReadsKeeps ==
    ASSUME Outward, Pty!TerminalReads
    PROVE  Outward' /\ Len(tty') <= Len(tty)
<1>1. /\ tty # <<>> /\ seen' = Append(seen, Head(tty)) /\ tty' = Tail(tty)
      /\ UNCHANGED <<threadU, fromBoard, timedOut>>
    BY DEF Pty!TerminalReads
<1>2. tty \in Seq(Nat) /\ seen \in Seq(Nat) /\ threadU \in UType
    BY DEF Outward
<1>3. /\ Head(tty) \in Nat /\ Tail(tty) \in Seq(Nat) /\ Len(Tail(tty)) = Len(tty) - 1
      /\ Len(tty) \in Nat /\ Len(tty) > 0
    BY <1>1, <1>2
<1>4. seen' \in Seq(Nat) /\ Len(seen') = Len(seen) + 1 /\ Len(seen) \in Nat
    BY <1>1, <1>2, <1>3
<1>5. seen' \o tty' = seen \o tty
  <2>1. seen' \o tty' \in Seq(Nat) /\ Len(seen' \o tty') = Len(seen') + Len(tty')
      BY <1>1, <1>3, <1>4, Joined
  <2>2. seen \o tty \in Seq(Nat) /\ Len(seen \o tty) = Len(seen) + Len(tty)
      BY <1>2, Joined
  <2>3. \A i \in 1..Len(seen \o tty) : (seen' \o tty')[i] = (seen \o tty)[i]
      BY <1>1, <1>2, <1>3, <1>4, <2>1, <2>2
  <2>4. Len(seen' \o tty') = Len(seen \o tty)
      BY <1>1, <1>3, <1>4, <2>1, <2>2
  <2> QED BY <2>1, <2>2, <2>3, <2>4, SeqEqual
<1>6. Len(seen') + Len(tty') + Len(threadU'.buf) = Len(seen) + Len(tty) + Len(threadU.buf)
  <2> DEFINE x == Len(seen)
             y == Len(tty)
             z == Len(threadU.buf)
  <2>1. Len(seen') = x + 1 /\ Len(tty') = y - 1 /\ Len(threadU'.buf) = z
      BY <1>1, <1>3, <1>4
  <2>2. x \in Nat /\ y \in Nat /\ z \in Nat
      BY <1>3, <1>4, StreamIs, RangeIs
  <2> HIDE DEF x, y, z
  <2>3. (x + 1) + (y - 1) + z = x + y + z
      BY <2>2
  <2> QED BY <2>1, <2>3 DEF x, y, z
<1>7. /\ fromBoard' \in Nat /\ fromBoard' >= fromBoard
      /\ threadU'.pc \in {"transfer", "exit"} => threadU'.buf = <<>>
    BY <1>1 DEF Outward
<1>8. (seen' \o tty') \o threadU'.buf = Stream
    BY <1>1, <1>5 DEF Stream
<1>9. tty' \in Seq(Nat) /\ seen' \in Seq(Nat) /\ threadU' \in UType /\ timedOut' = timedOut
    BY <1>1, <1>2, <1>3, <1>4
<1>10. Outward'
    BY <1>6, <1>7, <1>8, <1>9, StreamMoves
<1> QED BY <1>1, <1>3, <1>10

\* Every other step leaves the stream as it is.
LEMMA OthersKeep ==
    ASSUME Outward, timedOut' = timedOut, seen' = seen, tty' = tty,
           threadU' = threadU \/ \E p \in {"transfer", "test", "write", "exit"} :
              threadU' = [threadU EXCEPT !.pc = p] /\ (p \in {"transfer", "exit"} => threadU.buf = <<>>),
           fromBoard' = fromBoard \/ fromBoard' = fromBoard + 1
    PROVE  Outward' /\ threadU'.buf = threadU.buf
<1>1. threadU' \in UType /\ threadU'.buf = threadU.buf
      /\ (threadU'.pc \in {"transfer", "exit"} => threadU'.buf = <<>>)
    BY DEF Outward, UType
<1>2. fromBoard' \in Nat /\ fromBoard' >= fromBoard
    BY DEF Outward
<1>3. Stream' = Stream /\ seen' \in Seq(Nat) /\ tty' \in Seq(Nat)
    BY <1>1 DEF Stream, Outward
<1> QED BY <1>1, <1>2, <1>3, StreamMoves DEF Stream

-----------------------------------------------------------------------------
(***************************************************************************)
(* Towards the board: every number that was taken, is in the hands of M or *)
(* waits for it follows all smaller ones, and none is missing, until the   *)
(* bridge stops.                                                           *)
(***************************************************************************)
Faithful(s) == \A i \in 1..Len(s) : s[i] # 0 => {s[j] : j \in 1..(i - 1)} \ {0} = 1..(s[i] - 1)

Typing == (got \o threadM.buf) \o keys

Inward ==
    /\ threadM \in MType /\ got \in Seq(Nat) /\ keys \in Seq(Nat) /\ typed \in Nat
    /\ threadM.pc # "send" => threadM.buf = <<>>
    /\ Faithful(got)
    /\ ~stop => Faithful(Typing) /\ Range(Typing) \ {0} = 1..typed

LEMMA TypingIs ==
    ASSUME Inward
    PROVE  /\ threadM.buf \in Seq(Nat) /\ got \o threadM.buf \in Seq(Nat) /\ Typing \in Seq(Nat)
           /\ Typing = got \o (threadM.buf \o keys) /\ threadM.buf \o keys \in Seq(Nat)
<1>1. threadM.buf \in Seq(Nat) /\ got \in Seq(Nat) /\ keys \in Seq(Nat)
    BY DEF Inward, MType
<1>2. got \o threadM.buf \in Seq(Nat) /\ threadM.buf \o keys \in Seq(Nat)
    BY <1>1, Joined
<1>3. Typing \in Seq(Nat)
    BY <1>1, <1>2, Joined DEF Typing
<1>4. Typing = got \o (threadM.buf \o keys)
    BY <1>1, Associates DEF Typing
<1> QED BY <1>1, <1>2, <1>3, <1>4

LEMMA FaithfulFront ==
    ASSUME NEW a \in Seq(Nat), NEW b \in Seq(Nat), Faithful(a \o b)
    PROVE  Faithful(a)
<1> DEFINE s == a \o b
<1>1. Len(a) \in Nat /\ \A i \in 1..Len(a) : i \in 1..Len(s) /\ s[i] = a[i]
    OBVIOUS
<1>2. \A i \in 1..Len(s) : s[i] # 0 => {s[j] : j \in 1..(i - 1)} \ {0} = 1..(s[i] - 1)
    BY DEF Faithful
<1> HIDE DEF s
<1>3. ASSUME NEW i \in 1..Len(a), a[i] # 0 PROVE {a[j] : j \in 1..(i - 1)} \ {0} = 1..(a[i] - 1)
  <2>1. \A j \in 1..(i - 1) : s[j] = a[j]
      BY <1>1
  <2>2. {a[j] : j \in 1..(i - 1)} = {s[j] : j \in 1..(i - 1)}
      BY <2>1
  <2> QED BY <1>1, <1>2, <1>3, <2>2
<1> QED BY <1>3 DEF Faithful

\* What may follow a faithful sequence: echoes, or the next number.
LEMMA EchoesFollow ==
    ASSUME NEW a \in Seq(Nat), NEW b \in Seq(Nat), Faithful(a), \A i \in 1..Len(b) : b[i] = 0
    PROVE  Faithful(a \o b) /\ Range(a \o b) \ {0} = Range(a) \ {0}
<1> DEFINE s == a \o b
<1>1. /\ Len(a) \in Nat /\ Len(b) \in Nat /\ Len(s) = Len(a) + Len(b) /\ Range(s) = Range(a) \cup Range(b)
      /\ Range(b) = {b[i] : i \in 1..Len(b)} /\ s \in Seq(Nat)
    BY RangeIs, Joined
<1>2. /\ \A i \in 1..Len(a) : s[i] = a[i] /\ i \in 1..Len(s)
      /\ \A i \in 1..Len(s) : i \in 1..Len(a) \/ (i - Len(a) \in 1..Len(b) /\ s[i] = b[i - Len(a)])
    BY <1>1
<1>3. \A i \in 1..Len(a) : a[i] # 0 => {a[j] : j \in 1..(i - 1)} \ {0} = 1..(a[i] - 1)
    BY DEF Faithful
<1> HIDE DEF s
<1>4. ASSUME NEW i \in 1..Len(s), s[i] # 0
      PROVE  {s[j] : j \in 1..(i - 1)} \ {0} = 1..(s[i] - 1)
  <2>1. i \in 1..Len(a)
      BY <1>2, <1>4
  <2>2. \A j \in 1..(i - 1) : s[j] = a[j]
      BY <1>1, <1>2, <2>1
  <2>3. {s[j] : j \in 1..(i - 1)} = {a[j] : j \in 1..(i - 1)}
      BY <2>2
  <2> QED BY <1>2, <1>3, <1>4, <2>1, <2>3
<1>5. Range(b) \subseteq {0}
    BY <1>1
<1> QED BY <1>1, <1>4, <1>5 DEF s, Faithful

LEMMA NumberFollows ==
    ASSUME NEW a \in Seq(Nat), NEW t \in Nat, Faithful(a), Range(a) \ {0} = 1..t
    PROVE  Faithful(a \o <<t + 1>>) /\ Range(a \o <<t + 1>>) \ {0} = 1..(t + 1)
<1> DEFINE b == <<t + 1>>
           s == a \o b
<1>1. b \in Seq(Nat) /\ Len(b) = 1 /\ b[1] = t + 1
    OBVIOUS
<1>2. Range(b) = {t + 1}
  <2> HIDE DEF b
  <2>1. Range(b) = {b[i] : i \in 1..Len(b)}
      BY <1>1, RangeIs
  <2>2. {b[i] : i \in 1..Len(b)} = {b[1]}
      BY <1>1
  <2> QED BY <1>1, <2>1, <2>2
<1>3. /\ Len(a) \in Nat /\ Len(s) = Len(a) + 1 /\ Range(s) = Range(a) \cup {t + 1}
      /\ Range(a) = {a[i] : i \in 1..Len(a)}
    BY <1>1, <1>2, RangeIs, Joined
<1>4. (\A i \in 1..Len(a) : s[i] = a[i]) /\ s[Len(a) + 1] = t + 1
    BY <1>1, <1>3
<1>5. \A i \in 1..Len(a) : a[i] # 0 => {a[j] : j \in 1..(i - 1)} \ {0} = 1..(a[i] - 1)
    BY DEF Faithful
<1> HIDE DEF s, b
<1>6. ASSUME NEW i \in 1..Len(s), s[i] # 0
      PROVE  {s[j] : j \in 1..(i - 1)} \ {0} = 1..(s[i] - 1)
  <2>1. {s[j] : j \in 1..(i - 1)} = {a[j] : j \in 1..(i - 1)}
    <3>1. \A j \in 1..(i - 1) : s[j] = a[j]
        BY <1>3, <1>4
    <3> QED BY <3>1
  <2>2. CASE i \in 1..Len(a)
      BY <1>4, <1>5, <1>6, <2>1, <2>2
  <2>3. CASE i = Len(a) + 1
    <3>1. s[i] = t + 1 /\ i - 1 = Len(a) /\ (t + 1) - 1 = t
        BY <1>3, <1>4, <2>3
    <3>2. {s[j] : j \in 1..(i - 1)} = Range(a)
        BY <1>3, <2>1, <3>1
    <3> QED BY <3>1, <3>2
  <2> QED BY <1>3, <2>2, <2>3
<1>7. Range(s) \ {0} = 1..(t + 1)
  <2>1. Range(s) \ {0} = (Range(a) \ {0}) \cup {t + 1}
      BY <1>3
  <2>2. (1..t) \cup {t + 1} = 1..(t + 1)
      OBVIOUS
  <2> QED BY <2>1, <2>2
<1> QED BY <1>6, <1>7 DEF s, b, Faithful

LEMMA KeysGrow ==
    ASSUME Inward, NEW b \in Seq(Nat), keys' = keys \o b, UNCHANGED <<stop, threadM, got>>,
           \/ typed' = typed /\ \A i \in 1..Len(b) : b[i] = 0
           \/ typed' = typed + 1 /\ b = <<typed + 1>>
    PROVE  Inward'
<1>1. Typing' = Typing \o b
  <2> DEFINE x == got \o threadM.buf
  <2>1. x \in Seq(Nat) /\ keys \in Seq(Nat)
      BY TypingIs DEF Inward
  <2>2. Typing = x \o keys /\ Typing' = x \o (keys \o b)
      BY DEF Typing
  <2> HIDE DEF x
  <2>3. (x \o keys) \o b = x \o (keys \o b)
      BY <2>1, Associates
  <2> QED BY <2>2, <2>3
<1>2. keys' \in Seq(Nat) /\ typed' \in Nat
    BY Joined DEF Inward
<1>4. ~stop => Faithful(Typing') /\ Range(Typing') \ {0} = 1..typed'
  <2> SUFFICES ASSUME ~stop PROVE Faithful(Typing') /\ Range(Typing') \ {0} = 1..typed'
      OBVIOUS
  <2>1. Typing \in Seq(Nat) /\ typed \in Nat /\ Faithful(Typing) /\ Range(Typing) \ {0} = 1..typed
      BY TypingIs DEF Inward
  <2>2. CASE typed' = typed /\ \A i \in 1..Len(b) : b[i] = 0
    <3>1. Faithful(Typing \o b) /\ Range(Typing \o b) \ {0} = Range(Typing) \ {0}
        BY <2>1, <2>2, EchoesFollow
    <3> QED BY <1>1, <2>1, <2>2, <3>1
  <2>3. CASE typed' = typed + 1 /\ b = <<typed + 1>>
    <3>1. Faithful(Typing \o <<typed + 1>>) /\ Range(Typing \o <<typed + 1>>) \ {0} = 1..(typed + 1)
        BY <2>1, NumberFollows
    <3> QED BY <1>1, <2>3, <3>1
  <2> QED BY <2>2, <2>3
<1> QED BY <1>2, <1>4 DEF Inward

\* The front of what M holds goes to the board.
LEMMA SendMoves ==
    ASSUME Inward, NEW n \in 0..Len(threadM.buf)
    PROVE  /\ got \o SubSeq(threadM.buf, 1, n) \in Seq(Nat)
           /\ ~stop => Faithful(got \o SubSeq(threadM.buf, 1, n))
<1> DEFINE b == threadM.buf
<1>1. /\ b \in Seq(Nat) /\ got \in Seq(Nat) /\ keys \in Seq(Nat) /\ Typing = got \o (b \o keys)
      /\ got \o b \in Seq(Nat) /\ Faithful(got)
    BY TypingIs DEF Inward
<1>2. CASE n = 0
  <2>1. SubSeq(b, 1, n) = <<>>
      BY <1>1, <1>2
  <2>2. got \o SubSeq(b, 1, n) = got
      BY <1>1, <2>1, ConcatEmptySeq
  <2> QED BY <1>1, <2>2
<1>3. CASE n # 0
  <2> DEFINE f == SubSeq(b, 1, n)
             r == SubSeq(b, n + 1, Len(b))
  <2>1. n \in 1..Len(b)
      BY <1>1, <1>3
  <2>2. f \in Seq(Nat) /\ r \in Seq(Nat) /\ got \o f \in Seq(Nat) /\ (got \o f) \o r = got \o b
      BY <1>1, <2>1, Moved
  <2>3. Typing = ((got \o f) \o r) \o keys
      BY <2>2 DEF Typing
  <2> HIDE DEF f, r, b
  <2>4. ((got \o f) \o r) \o keys = (got \o f) \o (r \o keys) /\ r \o keys \in Seq(Nat)
    <3>1. got \o f \in Seq(Nat) /\ r \in Seq(Nat) /\ keys \in Seq(Nat)
        BY <1>1, <2>2
    <3>2. r \o keys \in Seq(Nat)
        BY <3>1, Joined
    <3> QED BY <3>1, <3>2, Associates
  <2>5. ASSUME ~stop PROVE Faithful(got \o f)
    <3>1. Faithful((got \o f) \o (r \o keys))
        BY <2>3, <2>4, <2>5 DEF Inward
    <3> DEFINE h == got \o f
               k == r \o keys
    <3>2. h \in Seq(Nat) /\ k \in Seq(Nat) /\ Faithful(h \o k)
        BY <2>2, <2>4, <3>1
    <3> HIDE DEF h, k
    <3>3. Faithful(h)
        BY <3>2, FaithfulFront
    <3> QED BY <3>3 DEF h
  <2> QED BY <2>2, <2>5 DEF f, b
<1> QED BY <1>1, <1>2, <1>3

LEMMA ReadKeeps ==
    ASSUME Inward, Pty!Read
    PROVE  Inward' /\ Len(threadM'.buf) <= Chunk
<1>1. PICK n \in 1..Len(keys) :
         /\ n <= Chunk
         /\ threadM' = [pc |-> "send", buf |-> SubSeq(keys, 1, n)]
         /\ keys' = SubSeq(keys, n + 1, Len(keys))
    BY DEF Pty!Read
<1>2. UNCHANGED <<stop, got, typed>> /\ threadM.buf = <<>> /\ keys \in Seq(Nat) /\ got \in Seq(Nat)
    BY DEF Pty!Read, Inward
<1> DEFINE f == SubSeq(keys, 1, n)
           r == SubSeq(keys, n + 1, Len(keys))
<1>3. f \in Seq(Nat) /\ r \in Seq(Nat) /\ Len(f) = n /\ (got \o f) \o r = got \o keys
    BY <1>2, Moved
<1>4. threadM' \in MType /\ threadM'.buf = f /\ threadM'.pc = "send" /\ keys' = r
    BY <1>1, <1>3 DEF MType
<1>5. Typing' = Typing
  <2>1. got \o threadM.buf = got
      BY <1>2, ConcatEmptySeq
  <2> QED BY <1>2, <1>3, <1>4, <2>1 DEF Typing
<1> QED BY <1>1, <1>2, <1>3, <1>4, <1>5 DEF Inward

LEMMA SendKeeps ==
    ASSUME Inward, Pty!Send
    PROVE  Inward' /\ Len(threadM'.buf) <= Len(threadM.buf) /\ threadM'.pc = threadM.pc
<1> DEFINE b == threadM.buf
<1>1. PICK n \in 1..Len(b) :
         /\ got' = got \o SubSeq(b, 1, n)
         /\ threadM' = [threadM EXCEPT !.buf = SubSeq(b, n + 1, Len(b))]
    BY DEF Pty!Send
<1>2. UNCHANGED <<stop, keys, typed>> /\ ~stop /\ threadM.pc = "send"
    BY DEF Pty!Send
<1>3. b \in Seq(Nat) /\ got \in Seq(Nat) /\ keys \in Seq(Nat) /\ typed \in Nat /\ threadM \in MType
    BY TypingIs DEF Inward
<1>4. /\ SubSeq(b, n + 1, Len(b)) \in Seq(Nat) /\ Len(SubSeq(b, n + 1, Len(b))) = Len(b) - n
      /\ (got \o SubSeq(b, 1, n)) \o SubSeq(b, n + 1, Len(b)) = got \o b
    BY <1>3, Moved
<1>5. /\ threadM' \in MType /\ threadM'.buf = SubSeq(b, n + 1, Len(b)) /\ threadM'.pc = "send"
    BY <1>1, <1>2, <1>3, <1>4 DEF MType
<1>6. Typing' = Typing
    BY <1>1, <1>2, <1>4, <1>5 DEF Typing
<1>7. n \in 0..Len(b) /\ Len(b) \in Nat /\ Len(b) - n <= Len(b)
    BY <1>3
<1>8. got' \in Seq(Nat) /\ Faithful(got')
    BY <1>1, <1>2, <1>7, SendMoves
<1> QED BY <1>2, <1>3, <1>4, <1>5, <1>6, <1>7, <1>8 DEF Inward

LEMMA SendFailsKeeps ==
    ASSUME Inward, Pty!SendFails
    PROVE  Inward' /\ threadM'.buf = <<>> /\ threadM'.pc = threadM.pc /\ stop'
<1>1. PICK n \in 0..Len(threadM.buf) : got' = got \o SubSeq(threadM.buf, 1, n)
    BY DEF Pty!SendFails
<1>2. UNCHANGED <<keys, typed>> /\ ~stop /\ stop' /\ threadM' = [threadM EXCEPT !.buf = <<>>]
    BY DEF Pty!SendFails
<1>3. threadM' \in MType /\ threadM'.buf = <<>> /\ threadM'.pc = threadM.pc
  <2>1. threadM \in [pc : {"read", "send", "join", "exit"}, buf : Seq(Nat)] /\ <<>> \in Seq(Nat)
      BY DEF Inward, MType
  <2>2. threadM' = [threadM EXCEPT !.buf = <<>>]
      BY <1>2
  <2> QED BY ONLY <2>1, <2>2 DEF MType
<1>4. got' \in Seq(Nat) /\ Faithful(got')
    BY <1>1, <1>2, SendMoves
<1> QED BY <1>2, <1>3, <1>4 DEF Inward

\* A chunk that is given up when the bridge has stopped, and the end of one that is empty.
LEMMA SendEndsKeeps ==
    ASSUME Inward, Pty!SendEnds
    PROVE  /\ Inward' /\ threadM'.buf = <<>> /\ threadM' \in MType
           /\ threadM'.pc = "join" => stop
           /\ threadM'.pc # "exit"
<1>1. /\ threadM' = [pc |-> IF stop THEN "join" ELSE "read", buf |-> <<>>] /\ (stop \/ threadM.buf = <<>>)
      /\ UNCHANGED <<stop, keys, got, typed>>
    BY DEF Pty!SendEnds
<1>2. threadM' \in MType /\ threadM'.buf = <<>> /\ (threadM'.pc = "join" => stop) /\ threadM'.pc # "exit"
    BY <1>1 DEF MType
<1>3. ~stop => Typing' = Typing
    BY <1>1 DEF Typing
<1> QED BY <1>1, <1>2, <1>3 DEF Inward

LEMMA InwardSame ==
    ASSUME Inward, UNCHANGED <<threadM, got, keys, typed>>, stop' = stop \/ stop'
    PROVE  Inward'
<1>1. Typing' = Typing
    BY DEF Typing
<1> QED BY <1>1 DEF Inward

-----------------------------------------------------------------------------
\* The bridge: both directions, the sizes, and who has left when.
Bounded ==
    /\ {stop, raw} \subseteq BOOLEAN
    /\ fromBoard <= MaxPrinted /\ typed <= MaxTyped
    /\ Len(threadU.buf) <= Chunk /\ Len(threadM.buf) <= Chunk /\ Len(tty) <= PtyCap

Leaving ==
    /\ threadM.pc \in {"join", "exit"} \/ threadU.pc = "exit" => stop
    /\ threadM.pc = "exit" => threadU.pc = "exit"

BridgeInv == Outward /\ Inward /\ Bounded /\ Leaving

LEMMA BridgeUSteps ==
    ASSUME Pty!BridgeAssumption, BridgeInv, Pty!UStep
    PROVE  BridgeInv'
<1>1. /\ Outward /\ Inward /\ Bounded /\ Leaving
      /\ threadU.pc # "exit" /\ threadM.pc # "exit" /\ threadU \in UType
    BY DEF BridgeInv, Leaving, Outward, Pty!UStep, Pty!UExit, Pty!TransferGot, Pty!TransferTimesOut,
           Pty!TransferStops, Pty!Test, Pty!Write
<1>2. UNCHANGED <<threadM, got, typed, raw, fromBoard>>
    BY DEF Pty!UStep, Pty!UExit, Pty!TransferGot, Pty!TransferTimesOut, Pty!TransferStops, Pty!Test,
           Pty!Write, Pty!inward
<1>3. CASE Pty!UExit
  <2>1. /\ stop /\ threadU.pc = "transfer" /\ threadU' = [threadU EXCEPT !.pc = "exit"]
        /\ UNCHANGED <<stop, tty, seen, timedOut, keys>>
      BY <1>3 DEF Pty!UExit
  <2>2. threadU.buf = <<>>
      BY <1>1, <2>1 DEF Outward
  <2>3. Outward' /\ threadU'.buf = threadU.buf
      BY <1>1, <1>2, <2>1, <2>2, OthersKeep
  <2>4. Inward'
      BY <1>1, <1>2, <2>1, InwardSame
  <2>5. threadU'.pc = "exit"
      BY <1>1, <2>1 DEF UType
  <2> QED BY <1>1, <1>2, <2>1, <2>3, <2>4, <2>5 DEF BridgeInv, Bounded, Leaving
<1>4. CASE Pty!TransferGot
  <2>1. UNCHANGED <<stop, tty, seen, timedOut, keys>> /\ threadU'.pc # "exit"
      BY <1>4 DEF Pty!TransferGot
  <2>2. Outward' /\ Len(threadU'.buf) <= Chunk
      BY <1>1, <1>4, GotKeeps
  <2>3. Inward'
      BY <1>1, <1>2, <2>1, InwardSame
  <2> QED BY <1>1, <1>2, <2>1, <2>2, <2>3 DEF BridgeInv, Bounded, Leaving
<1>5. CASE Pty!TransferTimesOut
  <2>1. UNCHANGED <<stop, threadU, tty, seen, keys>>
      BY <1>5 DEF Pty!TransferTimesOut
  <2>2. Outward'
      BY <1>1, <1>5, TimeoutKeeps
  <2>3. Inward'
      BY <1>1, <1>2, <2>1, InwardSame
  <2> QED BY <1>1, <1>2, <2>1, <2>2, <2>3 DEF BridgeInv, Bounded, Leaving
<1>6. CASE Pty!TransferStops
  <2>1. UNCHANGED <<threadU, tty, seen, timedOut, keys>> /\ stop' = TRUE
      BY <1>6 DEF Pty!TransferStops
  <2>2. Outward'
      BY <1>1, <1>2, <2>1, OthersKeep
  <2>3. Inward'
      BY <1>1, <1>2, <2>1, InwardSame
  <2> QED BY <1>1, <1>2, <2>1, <2>2, <2>3 DEF BridgeInv, Bounded, Leaving
<1>7. CASE Pty!Test
  <2>1. UNCHANGED <<stop, tty, seen, keys>>
      BY <1>7 DEF Pty!Test
  <2>2. Inward'
      BY <1>1, <1>2, <2>1, InwardSame
  <2>3. CASE threadU.buf = <<>> \/ stop
    <3>1. Outward'
        BY <1>1, <1>7, <2>3, DroppedKeeps
    <3>2. threadU' = [pc |-> "transfer", buf |-> <<>>]
        BY <1>7, <2>3 DEF Pty!Test
    <3>3. threadU'.pc # "exit" /\ Len(threadU'.buf) = 0 /\ 0 <= Chunk
        BY <3>2 DEF Pty!BridgeAssumption
    <3> QED BY <1>1, <1>2, <2>1, <2>2, <3>1, <3>3 DEF BridgeInv, Bounded, Leaving
  <2>4. CASE ~(threadU.buf = <<>> \/ stop)
    <3>1. threadU' = [threadU EXCEPT !.pc = "write"] /\ timedOut' = timedOut
        BY <1>7, <2>4 DEF Pty!Test
    <3>2. Outward' /\ threadU'.buf = threadU.buf
        BY <1>1, <1>2, <2>1, <3>1, OthersKeep
    <3>3. threadU'.pc # "exit"
        BY <1>1, <3>1 DEF UType
    <3> QED BY <1>1, <1>2, <2>1, <2>2, <3>2, <3>3 DEF BridgeInv, Bounded, Leaving
  <2> QED BY <2>3, <2>4
<1>8. CASE Pty!Write
  <2>1. UNCHANGED <<stop, seen, timedOut>> /\ threadU'.pc # "exit"
      BY <1>8 DEF Pty!Write
  <2>2. Outward' /\ Len(threadU'.buf) <= Len(threadU.buf) /\ Len(tty') <= PtyCap
      BY <1>1, <1>8, WriteKeeps DEF Bounded
  <2>3. PICK n \in 1..Len(threadU.buf) : keys' = IF raw THEN keys ELSE keys \o [i \in 1..n |-> 0]
      BY <1>8 DEF Pty!Write
  <2>4. Inward'
    <3>1. CASE raw
        BY <1>1, <1>2, <2>1, <2>3, <3>1, InwardSame
    <3>2. CASE ~raw
      <4> DEFINE e == [i \in 1..n |-> 0]
      <4>1. n \in Nat
          BY <1>1, StreamIs, RangeIs
      <4>2. e \in Seq(Nat) /\ \A i \in 1..Len(e) : e[i] = 0
          BY <4>1
      <4>3. keys' = keys \o e
          BY <2>3, <3>2
      <4> HIDE DEF e
      <4> QED BY <1>1, <1>2, <2>1, <4>2, <4>3, KeysGrow
    <3> QED BY <3>1, <3>2
  <2>5. Len(threadU'.buf) <= Chunk
    <3>1. Len(threadU'.buf) \in Nat /\ Len(threadU.buf) \in Nat /\ Chunk \in Nat /\ Len(threadU.buf) <= Chunk
      <4>1. threadU'.buf \in Seq(Nat) /\ threadU.buf \in Seq(Nat)
          BY <1>1, <2>2 DEF Outward, UType
      <4> QED BY <1>1, <4>1, RangeIs DEF Pty!BridgeAssumption, Bounded
    <3> QED BY <2>2, <3>1
  <2> QED BY <1>1, <1>2, <2>1, <2>2, <2>4, <2>5 DEF BridgeInv, Bounded, Leaving
<1> QED BY <1>3, <1>4, <1>5, <1>6, <1>7, <1>8 DEF Pty!UStep

LEMMA BridgeMSteps ==
    ASSUME Pty!BridgeAssumption, BridgeInv, Pty!MStep
    PROVE  BridgeInv'
<1>1. Outward /\ Inward /\ Bounded /\ Leaving /\ threadM \in MType /\ threadM.pc # "exit" /\ 0 <= Chunk
    BY DEF BridgeInv, Inward, MType, Pty!MStep, Pty!Read, Pty!Send, Pty!SendFails, Pty!SendEnds, Pty!Join,
           Pty!BridgeAssumption
<1>2. UNCHANGED <<threadU, tty, seen, fromBoard, timedOut, raw, typed>>
    BY DEF Pty!MStep, Pty!Read, Pty!Send, Pty!SendFails, Pty!SendEnds, Pty!Join, Pty!outward
<1>3. Outward'
    BY <1>1, <1>2, OthersKeep
<1>4. CASE Pty!Read
  <2>1. Inward' /\ Len(threadM'.buf) <= Chunk
      BY <1>1, <1>4, ReadKeeps
  <2>2. stop' = stop /\ threadM'.pc = "send"
      BY <1>4 DEF Pty!Read
  <2> QED BY <1>1, <1>2, <1>3, <2>1, <2>2 DEF BridgeInv, Bounded, Leaving
<1>5. CASE Pty!Send
  <2>1. Inward' /\ Len(threadM'.buf) <= Len(threadM.buf) /\ threadM'.pc = threadM.pc
      BY <1>1, <1>5, SendKeeps
  <2>2. stop' = stop
      BY <1>5 DEF Pty!Send
  <2>3. Len(threadM'.buf) <= Chunk
    <3>1. Len(threadM'.buf) \in Nat /\ Len(threadM.buf) \in Nat /\ Chunk \in Nat /\ Len(threadM.buf) <= Chunk
      <4>1. threadM'.buf \in Seq(Nat) /\ threadM.buf \in Seq(Nat)
          BY <1>1, <2>1 DEF Inward, MType
      <4> QED BY <1>1, <4>1, RangeIs DEF Pty!BridgeAssumption, Bounded
    <3> QED BY <2>1, <3>1
  <2> QED BY <1>1, <1>2, <1>3, <2>1, <2>2, <2>3 DEF BridgeInv, Bounded, Leaving
<1>6. CASE Pty!SendFails
  <2>1. Inward' /\ threadM'.buf = <<>> /\ threadM'.pc = threadM.pc /\ stop' = TRUE
      BY <1>1, <1>6, SendFailsKeeps DEF Pty!SendFails
  <2> QED BY <1>1, <1>2, <1>3, <2>1 DEF BridgeInv, Bounded, Leaving
<1>7. CASE Pty!SendEnds
  <2>1. Inward' /\ threadM'.buf = <<>> /\ (threadM'.pc = "join" => stop) /\ threadM'.pc # "exit"
      BY <1>1, <1>7, SendEndsKeeps
  <2>2. stop' = stop
      BY <1>7 DEF Pty!SendEnds
  <2> QED BY <1>1, <1>2, <1>3, <2>1, <2>2 DEF BridgeInv, Bounded, Leaving
<1>8. CASE Pty!Join
  <2>1. /\ threadM.pc = "join" /\ threadU.pc = "exit" /\ threadM' = [threadM EXCEPT !.pc = "exit"]
        /\ UNCHANGED <<stop, keys, got>>
      BY <1>8 DEF Pty!Join
  <2>2. threadM' \in MType /\ threadM'.pc = "exit" /\ threadM'.buf = threadM.buf /\ threadM.buf = <<>>
      BY <1>1, <2>1 DEF MType, Inward
  <2>3. Typing' = Typing
      BY <2>1, <2>2 DEF Typing
  <2>4. Inward'
      BY <1>1, <1>2, <2>1, <2>2, <2>3 DEF Inward
  <2> QED BY <1>1, <1>2, <1>3, <2>1, <2>2, <2>4 DEF BridgeInv, Bounded, Leaving
<1> QED BY <1>4, <1>5, <1>6, <1>7, <1>8 DEF Pty!MStep

LEMMA BridgeWorldSteps ==
    ASSUME Pty!BridgeAssumption, BridgeInv,
           Pty!BoardPrints \/ Pty!TerminalTypes \/ Pty!TerminalReads \/ Pty!SetRaw
    PROVE  BridgeInv'
<1>1. /\ Outward /\ Inward /\ Bounded /\ Leaving
      /\ typed \in Nat /\ fromBoard \in Nat /\ MaxPrinted \in Nat /\ MaxTyped \in Nat
    BY DEF BridgeInv, Outward, Inward, Pty!BridgeAssumption
<1>2. UNCHANGED <<stop, threadU, threadM>>
    BY DEF Pty!BoardPrints, Pty!TerminalTypes, Pty!TerminalReads, Pty!SetRaw, Pty!inward, Pty!outward
<1>3. Leaving'
    BY <1>1, <1>2 DEF Leaving
<1>4. CASE Pty!BoardPrints
  <2>1. /\ fromBoard < MaxPrinted /\ fromBoard' = fromBoard + 1
        /\ UNCHANGED <<tty, seen, timedOut, keys, raw, got, typed>>
      BY <1>4 DEF Pty!BoardPrints, Pty!inward
  <2>2. Outward'
      BY <1>1, <1>2, <2>1, OthersKeep
  <2>3. Inward'
      BY <1>1, <1>2, <2>1, InwardSame
  <2>4. fromBoard' <= MaxPrinted
      BY <1>1, <2>1
  <2> QED BY <1>1, <1>2, <1>3, <2>1, <2>2, <2>3, <2>4 DEF BridgeInv, Bounded
<1>5. CASE Pty!TerminalTypes
  <2>1. /\ typed < MaxTyped /\ typed' = typed + 1 /\ keys' = Append(keys, typed')
        /\ UNCHANGED <<tty, seen, fromBoard, timedOut, raw, got>>
      BY <1>5 DEF Pty!TerminalTypes, Pty!outward
  <2>2. Outward'
      BY <1>1, <1>2, <2>1, OthersKeep
  <2>3. keys' = keys \o <<typed + 1>> /\ <<typed + 1>> \in Seq(Nat)
    <3>1. keys \in Seq(Nat) /\ typed + 1 \in Nat
        BY <1>1 DEF Inward
    <3> QED BY <2>1, <3>1, AppendIsConcat
  <2>4. Inward'
      BY <1>1, <1>2, <2>1, <2>3, KeysGrow
  <2>5. typed' <= MaxTyped
      BY <1>1, <2>1
  <2> QED BY <1>1, <1>2, <1>3, <2>1, <2>2, <2>4, <2>5 DEF BridgeInv, Bounded
<1>6. CASE Pty!TerminalReads
  <2>1. UNCHANGED <<fromBoard, keys, raw, got, typed>>
      BY <1>6 DEF Pty!TerminalReads, Pty!inward
  <2>2. Outward' /\ Len(tty') <= Len(tty)
      BY <1>1, <1>6, TerminalReadsKeeps
  <2>3. Inward'
      BY <1>1, <1>2, <2>1, InwardSame
  <2>4. Len(tty') <= PtyCap
    <3>1. Len(tty') \in Nat /\ Len(tty) \in Nat /\ PtyCap \in Nat /\ Len(tty) <= PtyCap
      <4>1. tty \in Seq(Nat) /\ tty' \in Seq(Nat)
          BY <1>1, <2>2 DEF Outward
      <4> QED BY <1>1, <4>1, RangeIs DEF Pty!BridgeAssumption, Bounded
    <3> QED BY <2>2, <3>1
  <2> QED BY <1>1, <1>2, <1>3, <2>1, <2>2, <2>3, <2>4 DEF BridgeInv, Bounded
<1>7. CASE Pty!SetRaw
  <2>1. raw' = TRUE /\ UNCHANGED <<tty, seen, fromBoard, timedOut, keys, got, typed>>
      BY <1>7 DEF Pty!SetRaw, Pty!inward, Pty!outward
  <2>2. Outward'
      BY <1>1, <1>2, <2>1, OthersKeep
  <2>3. Inward'
      BY <1>1, <1>2, <2>1, InwardSame
  <2> QED BY <1>1, <1>2, <1>3, <2>1, <2>2, <2>3 DEF BridgeInv, Bounded
<1> QED BY <1>4, <1>5, <1>6, <1>7

LEMMA BridgeStarts ==
    ASSUME Pty!BridgeAssumption, Pty!Init
    PROVE  BridgeInv
<1>1. /\ stop = FALSE /\ raw = FALSE /\ threadU = [pc |-> "transfer", buf |-> <<>>]
      /\ threadM = [pc |-> "read", buf |-> <<>>] /\ tty = <<>> /\ seen = <<>> /\ keys = <<>> /\ got = <<>>
      /\ fromBoard = 0 /\ typed = 0 /\ timedOut = {}
    BY DEF Pty!Init
<1>2. threadU \in UType /\ threadM \in MType /\ threadU.buf = <<>> /\ threadM.buf = <<>> /\ <<>> \in Seq(Nat)
    BY <1>1 DEF UType, MType
<1>3. Stream = <<>> /\ Typing = <<>>
    BY <1>1, <1>2, ConcatEmptySeq DEF Stream, Typing
<1>4. Pty!Taken = 0 /\ IsFiniteSet({})
  <2>1. Cardinality({}) = 0 /\ IsFiniteSet({})
      BY FS_EmptySet
  <2>2. Pty!Cardinality(timedOut) = 0 /\ Len(tty) = 0 /\ Len(seen) = 0 /\ Len(threadU.buf) = 0
      BY <1>1, <1>2, <2>1, PtyNames
  <2> QED BY <2>1, <2>2 DEF Pty!Taken
<1>5. Range(<<>>) = {} /\ Increasing(<<>>) /\ Faithful(<<>>)
    BY DEF Range, Increasing, Faithful
<1>6. Outward
    BY <1>1, <1>2, <1>3, <1>4, <1>5 DEF Outward
<1>7. Inward
    BY <1>1, <1>2, <1>3, <1>5 DEF Inward
<1>8. Bounded /\ Leaving
  <2>1. {MaxPrinted, MaxTyped, Chunk, PtyCap} \subseteq Nat
      BY DEF Pty!BridgeAssumption
  <2>2. Len(threadU.buf) = 0 /\ Len(threadM.buf) = 0 /\ Len(tty) = 0
      BY <1>1, <1>2
  <2>3. threadU.pc = "transfer" /\ threadM.pc = "read"
      BY <1>1
  <2>4. 0 <= Chunk /\ 0 <= PtyCap /\ fromBoard <= MaxPrinted /\ typed <= MaxTyped
      BY <1>1, <2>1
  <2>5. Bounded
      BY <1>1, <2>2, <2>4 DEF Bounded
  <2>6. Leaving
      BY <2>3 DEF Leaving
  <2> QED BY <2>5, <2>6
<1> QED BY <1>6, <1>7, <1>8 DEF BridgeInv

LEMMA BridgeInvImplies ==
    ASSUME Pty!BridgeAssumption, BridgeInv
    PROVE  Pty!BridgeExact
<1>1. Outward /\ Inward /\ Bounded /\ Leaving
    BY DEF BridgeInv
<1>2. Pty!ToBoardExact
    BY <1>1 DEF Inward, Faithful, Pty!ToBoardExact
<1>3. Pty!ToTerminalExact
  <2>1. (seen \o tty) \o threadU.buf = Stream /\ Range(Stream) = Pty!Range(Stream)
      BY PtyNames DEF Stream
  <2>2. \A i, j \in 1..Len(Stream) : i < j => Stream[i] < Stream[j]
      BY <1>1 DEF Outward, Increasing
  <2>3. \A i \in 1..Pty!Taken : (i \in Range(Stream)) # (i \in timedOut)
      BY <1>1, Zenon DEF Outward
  <2> QED BY <2>1, <2>2, <2>3 DEF Pty!ToTerminalExact, Stream
<1>4. Pty!ClosedAfterUse
    BY <1>1 DEF Leaving, Pty!ClosedAfterUse
<1>5. Pty!TypeOK
  <2>1. timedOut \subseteq 1..fromBoard
    <3>1. /\ Pty!Taken \in Nat /\ fromBoard \in Nat /\ Pty!Taken <= fromBoard
          /\ \A x \in timedOut : x \in 1..Pty!Taken
        BY <1>1, LostAndCarried, StreamIs DEF Outward
    <3> QED BY ONLY <3>1
  <2>2. /\ threadU.pc \in {"transfer", "test", "write", "exit"}
        /\ threadM.pc \in {"read", "send", "join", "exit"}
        /\ fromBoard \in 0..MaxPrinted /\ typed \in 0..MaxTyped
      BY <1>1 DEF Outward, Inward, Bounded, UType, MType, Pty!BridgeAssumption
  <2> QED BY <1>1, <2>1, <2>2 DEF Bounded, Pty!TypeOK
<1> QED BY <1>2, <1>3, <1>4, <1>5 DEF Pty!BridgeExact

(***************************************************************************)
(* cdc-pty for any buffers and any capacity of the pty: both directions    *)
(* are exact, and the device is closed after its last use.                 *)
(***************************************************************************)
THEOREM PtyIsExact == Pty!BridgeAssumption => (Pty!Spec => []Pty!BridgeExact)
<1> SUFFICES ASSUME Pty!BridgeAssumption PROVE Pty!Spec => []Pty!BridgeExact
    OBVIOUS
<1>1. Pty!Init => BridgeInv
    BY BridgeStarts
<1>2. BridgeInv /\ [Pty!Next]_(Pty!vars) => BridgeInv'
  <2>1. ASSUME BridgeInv, UNCHANGED Pty!vars PROVE BridgeInv'
    <3>1. UNCHANGED <<stop, threadU, threadM, tty, seen, keys, got, fromBoard, typed, timedOut, raw>>
        BY <2>1 DEF Pty!vars
    <3>2. Outward'
        BY <2>1, <3>1, OthersKeep DEF BridgeInv
    <3>3. Inward'
        BY <2>1, <3>1, InwardSame DEF BridgeInv
    <3> QED BY <2>1, <3>1, <3>2, <3>3 DEF BridgeInv, Bounded, Leaving
  <2> QED BY <2>1, BridgeUSteps, BridgeMSteps, BridgeWorldSteps DEF Pty!Next
<1>3. BridgeInv => Pty!BridgeExact
    BY BridgeInvImplies
<1> QED BY <1>1, <1>2, <1>3, PTL DEF Pty!Spec

-----------------------------------------------------------------------------
\* The two programs side by side, as the run checks them.
LEMMA InstallParts == InstallSpec => Flash!Spec /\ Pty!Spec
<1>1. InstallInit => Flash!Init /\ Pty!Init
    BY DEF InstallInit
<1>2. [InstallNext]_<<program, ptyVars, flashVars>> => [Flash!Next]_(Flash!vars) /\ [Pty!Next]_(Pty!vars)
    BY DEF InstallNext, ptyVars, flashVars, Flash!vars, Pty!vars
<1> QED BY <1>1, <1>2, PTL DEF InstallSpec, Flash!Spec, Pty!Spec

(***************************************************************************)
(* flash-termux says completed of a board that holds every new image, and  *)
(* runs the application if usb_app_reset could set its lines, whatever     *)
(* failed before.                                                          *)
(***************************************************************************)
THEOREM CompletedIsFlashed == InstallSpec => []CompletedMeansFlashed
<1>1. FlashInv => CompletedMeansFlashed
    BY DEF FlashInv, CompletedMeansFlashed, Flash!CompletedMeansFlashed
<1> QED BY <1>1, InstallParts, FlashInvariant, PTL

(***************************************************************************)
(* Only a board that holds every new image has its settings erased.        *)
(***************************************************************************)
THEOREM ErasedIsFlashed == InstallSpec => ErasedOnlyAfterVerify
<1>1. ASSUME FlashInv, [Flash!Next]_(Flash!vars)
      PROVE  [settings' # settings => Flash!Flashed]_(Flash!vars)
  <2> SUFFICES ASSUME Flash!Next, settings' # settings
               PROVE  Flash!Flashed
      BY <1>1
  <2>1. CASE Flash!Erase
      BY <2>1, <1>1 DEF Flash!Erase, FlashInv
  <2>2. CASE ~Flash!Erase
      BY <2>2 DEF Flash!Next, Flash!Step, Flash!Start, Flash!SetLine, Flash!SetLineFails, Flash!ToolEnds,
                  Flash!StartBridge, Flash!WriteImage,
                  Flash!Written, Flash!Verified, Flash!Unreachable, Flash!Fails, Flash!BridgeEnds,
                  Flash!PowerCycle, Flash!board
  <2> QED BY <2>1, <2>2
<1> QED BY <1>1, InstallParts, FlashInvariant, PTL DEF Flash!Spec, ErasedOnlyAfterVerify,
                                                       Flash!ErasedOnlyAfterVerify

(***************************************************************************)
(* The types of flash-termux, and cdc-pty exact in both directions, for    *)
(* any number of images and faults, any buffers and any capacity of the    *)
(* pty.                                                                    *)
(***************************************************************************)
THEOREM BridgeIsExact == InstallSpec => []BridgeExact
<1>1. Pty!Spec => []Pty!BridgeExact
    BY PtyIsExact, InstallAssumption DEF InstallAssumption
<1>2. Flash!Spec => []Flash!TypeOK
    BY FlashTypes, InstallAssumption DEF InstallAssumption
<1> QED BY <1>1, <1>2, InstallParts, PTL DEF BridgeExact

-----------------------------------------------------------------------------
(***************************************************************************)
(* The command-line clients on the console, which MCConsole runs beside    *)
(* the host model.                                                         *)
(***************************************************************************)
Names == Commands \cup {"ID", "DUMP"}
Pieces == {Session!NL} \cup (Names \X {1, 2})
Sends == {Session!Send(t) : t \in Seq(Pieces)}
Acts == {Session!Listen, Session!Drain} \cup Sends
Ghosts == [typed : Seq(Names), done : Seq(Names \cup {"unknown"}), dropped : SUBSET Nat,
           base : Nat, cut : BOOLEAN]

Typed ==
    /\ Session!TypeOK
    /\ script \in Seq(Acts)
    /\ rx \in Seq(Pieces) /\ line \in Seq(Pieces)
    /\ tx \in Seq(Session!Packet) /\ xfer \in Seq(Session!Packet)
    /\ captured \in Seq(Nat)
    /\ g \in Ghosts

\* The line of a command, and what distinguishes the steps of a script.
LineOf(c) == Append(Session!Whole(c), Session!NL)

LEMMA LineIs ==
    ASSUME NEW c \in Names
    PROVE  /\ LineOf(c) \in Seq(Pieces) /\ Len(LineOf(c)) = 3
           /\ LineOf(c)[1] = <<c, 1>> /\ LineOf(c)[2] = <<c, 2>> /\ LineOf(c)[3] = Session!NL
<1> DEFINE p == <<c, 1>>
           q == <<c, 2>>
           n == Session!NL
<1>1. LineOf(c) = Append(<<p, q>>, n) /\ p \in Pieces /\ q \in Pieces /\ n \in Pieces
    BY DEF LineOf, Session!Whole, Session!Piece, Pieces
<1> HIDE DEF p, q, n
<1>2. <<p, q>> \in Seq(Pieces) /\ Len(<<p, q>>) = 2 /\ <<p, q>>[1] = p /\ <<p, q>>[2] = q
    BY <1>1
<1>3. /\ LineOf(c) \in Seq(Pieces) /\ Len(LineOf(c)) = 3
      /\ LineOf(c)[1] = p /\ LineOf(c)[2] = q /\ LineOf(c)[3] = n
    BY <1>1, <1>2, AppendProperties
<1> QED BY <1>3 DEF p, q, n

LEMMA NoNewline == \A c, i : <<c, i>> # Session!NL
<1> SUFFICES ASSUME NEW c, NEW i, <<c, i>> = Session!NL PROVE FALSE
    OBVIOUS
<1>1. Len(<<c, i>>) = 2 /\ Len(Session!NL) = 1
    BY DEF Session!NL
<1> QED BY <1>1

LEMMA ActIs ==
    /\ Session!Listen \in Acts /\ Session!Drain \in Acts
    /\ \A t \in Seq(Pieces) : Session!Send(t) \in Acts /\ Session!Send(t)[1] = "send" /\ Session!Send(t)[2] = t
    /\ \A t : Session!Send(t) \notin {Session!Listen, Session!Drain}
    /\ Session!Listen[1] # "send" /\ Session!Drain[1] # "send"
    /\ \A a \in Acts : a[1] = "send" => a[2] \in Seq(Pieces) /\ a = Session!Send(a[2])
<1>1. Session!Listen \in Acts /\ Session!Drain \in Acts
    BY DEF Acts
<1>2. \A t \in Seq(Pieces) : Session!Send(t) \in Acts /\ Session!Send(t)[1] = "send" /\ Session!Send(t)[2] = t
    BY DEF Acts, Sends, Session!Send
<1>3. Session!Listen[1] # "send" /\ Session!Drain[1] # "send"
    BY DEF Session!Listen, Session!Drain
<1>4. \A t : Session!Send(t) \notin {Session!Listen, Session!Drain}
  <2> TAKE t
  <2>1. Session!Send(t)[1] = "send"
      BY DEF Session!Send
  <2> QED BY <1>3, <2>1
<1>5. \A a \in Acts : a[1] = "send" => a[2] \in Seq(Pieces) /\ a = Session!Send(a[2])
  <2> SUFFICES ASSUME NEW a \in Acts, a[1] = "send" PROVE a[2] \in Seq(Pieces) /\ a = Session!Send(a[2])
      OBVIOUS
  <2>1. a \in Sends
      BY <1>3 DEF Acts
  <2>2. PICK t \in Seq(Pieces) : a = Session!Send(t)
      BY <2>1 DEF Sends
  <2> QED BY <1>2, <2>2
<1> QED BY <1>1, <1>2, <1>3, <1>4, <1>5

-----------------------------------------------------------------------------
\* What is being carried to the client: written, in the transfer, printed.

Carried == (captured \o Session!Numbers(xfer)) \o Session!Numbers(tx)

Capturing ==
    /\ Increasing(Carried)
    /\ \A n \in Range(Carried) : n \in 1..printed
    /\ (g.base + 1)..printed \subseteq Range(Carried) \cup g.dropped

LEMMA NumbersAre ==
    ASSUME NEW s \in Seq(Session!Packet)
    PROVE  /\ Session!Numbers(s) \in Seq(Nat) /\ Len(Session!Numbers(s)) = Len(s)
           /\ \A i \in 1..Len(s) : Session!Numbers(s)[i] = s[i].no /\ s[i].no \in Nat
           /\ Range(Session!Numbers(s)) = {s[i].no : i \in 1..Len(s)}
<1>1. Len(s) \in Nat /\ \A i \in 1..Len(s) : s[i].no \in Nat
  <2>1. Len(s) \in Nat /\ \A i \in 1..Len(s) : s[i] \in Session!Packet
      OBVIOUS
  <2>2. \A p \in Session!Packet : p.no \in Nat
      BY DEF Session!Packet
  <2> QED BY <2>1, <2>2
<1>2. Session!Numbers(s) \in Seq(Nat) /\ Len(Session!Numbers(s)) = Len(s)
    BY <1>1 DEF Session!Numbers
<1>3. \A i \in 1..Len(s) : Session!Numbers(s)[i] = s[i].no
    BY DEF Session!Numbers
<1>4. Range(Session!Numbers(s)) = {Session!Numbers(s)[i] : i \in 1..Len(s)}
    BY <1>2, RangeIs
<1> QED BY <1>1, <1>2, <1>3, <1>4

LEMMA NumbersNone == Session!Numbers(<<>>) = <<>>
BY DEF Session!Numbers

LEMMA NumbersAppend ==
    ASSUME NEW s \in Seq(Session!Packet), NEW p \in Session!Packet
    PROVE  Append(s, p) \in Seq(Session!Packet)
           /\ Session!Numbers(Append(s, p)) = Session!Numbers(s) \o <<p.no>>
<1>1. Append(s, p) \in Seq(Session!Packet) /\ Len(Append(s, p)) = Len(s) + 1 /\ Len(s) \in Nat /\ p.no \in Nat
    BY DEF Session!Packet
<1>2. \A i \in 1..(Len(s) + 1) : Append(s, p)[i] = IF i <= Len(s) THEN s[i] ELSE p
    OBVIOUS
<1> DEFINE a == Session!Numbers(Append(s, p))
           b == Session!Numbers(s) \o <<p.no>>
<1>3. a \in Seq(Nat) /\ Len(a) = Len(s) + 1
      /\ \A i \in 1..(Len(s) + 1) : a[i] = IF i <= Len(s) THEN s[i].no ELSE p.no
  <2>1. a \in Seq(Nat) /\ Len(a) = Len(s) + 1 /\ \A i \in 1..(Len(s) + 1) : a[i] = Append(s, p)[i].no
      BY <1>1, NumbersAre
  <2> QED BY <1>2, <2>1
<1>4. b \in Seq(Nat) /\ Len(b) = Len(s) + 1
      /\ \A i \in 1..(Len(s) + 1) : b[i] = IF i <= Len(s) THEN s[i].no ELSE p.no
  <2>1. Session!Numbers(s) \in Seq(Nat) /\ Len(Session!Numbers(s)) = Len(s)
        /\ \A i \in 1..Len(s) : Session!Numbers(s)[i] = s[i].no
      BY NumbersAre
  <2> DEFINE n == Session!Numbers(s)
             h == <<p.no>>
  <2>2. n \in Seq(Nat) /\ Len(n) = Len(s) /\ \A i \in 1..Len(s) : n[i] = s[i].no
      BY <2>1
  <2>3. h \in Seq(Nat) /\ Len(h) = 1 /\ h[1] = p.no
      BY <1>1
  <2> HIDE DEF n, h
  <2>4. /\ n \o h \in Seq(Nat) /\ Len(n \o h) = Len(n) + Len(h)
        /\ \A i \in 1..(Len(n) + Len(h)) : (n \o h)[i] = IF i <= Len(n) THEN n[i] ELSE h[i - Len(n)]
    <3>1. n \in Seq(Nat) /\ h \in Seq(Nat)
        BY <2>2, <2>3
    <3> QED BY <3>1, ConcatProperties
  <2>5. Len(n \o h) = Len(s) + 1
        /\ \A i \in 1..(Len(s) + 1) : (n \o h)[i] = IF i <= Len(s) THEN s[i].no ELSE p.no
    <3>1. \A i \in 1..(Len(s) + 1) : i <= Len(s) => i \in 1..Len(s)
        BY <1>1
    <3>2. \A i \in 1..(Len(s) + 1) : ~(i <= Len(s)) => i - Len(s) = 1
        BY <1>1
    <3> QED BY <2>2, <2>3, <2>4, <3>1, <3>2
  <2> QED BY <2>4, <2>5 DEF n, h
<1> HIDE DEF a, b
<1>5. a = b
    BY <1>3, <1>4, SeqEqual
<1> QED BY <1>1, <1>5 DEF a, b

LEMMA NumbersHead ==
    ASSUME NEW s \in Seq(Session!Packet), s # <<>>
    PROVE  /\ Head(s) \in Session!Packet /\ Tail(s) \in Seq(Session!Packet)
           /\ Session!Numbers(s) = <<Head(s).no>> \o Session!Numbers(Tail(s))
<1>1. /\ Head(s) \in Session!Packet /\ Tail(s) \in Seq(Session!Packet) /\ Len(Tail(s)) = Len(s) - 1
      /\ Len(s) \in Nat /\ Len(s) >= 1 /\ Head(s) = s[1] /\ \A i \in 1..(Len(s) - 1) : Tail(s)[i] = s[i + 1]
    OBVIOUS
<1> DEFINE a == Session!Numbers(s)
           b == <<Head(s).no>> \o Session!Numbers(Tail(s))
<1>2. a \in Seq(Nat) /\ Len(a) = Len(s) /\ \A i \in 1..Len(s) : a[i] = s[i].no
    BY NumbersAre
<1>3. b \in Seq(Nat) /\ Len(b) = Len(s) /\ \A i \in 1..Len(s) : b[i] = s[i].no
  <2> DEFINE t == Session!Numbers(Tail(s))
             h == <<Head(s).no>>
  <2>1. t \in Seq(Nat) /\ Len(t) = Len(s) - 1 /\ \A i \in 1..(Len(s) - 1) : t[i] = s[i + 1].no
    <3>1. t \in Seq(Nat) /\ Len(t) = Len(s) - 1 /\ \A i \in 1..(Len(s) - 1) : t[i] = Tail(s)[i].no
        BY <1>1, NumbersAre
    <3> QED BY <1>1, <3>1
  <2>2. h \in Seq(Nat) /\ Len(h) = 1 /\ h[1] = s[1].no
      BY <1>1 DEF Session!Packet
  <2> HIDE DEF t, h
  <2>3. /\ h \o t \in Seq(Nat) /\ Len(h \o t) = Len(s)
        /\ \A i \in 1..Len(s) : (h \o t)[i] = IF i <= 1 THEN h[i] ELSE t[i - 1]
    <3>1. /\ h \o t \in Seq(Nat) /\ Len(h \o t) = Len(h) + Len(t)
          /\ \A i \in 1..(Len(h) + Len(t)) : (h \o t)[i] = IF i <= Len(h) THEN h[i] ELSE t[i - Len(h)]
        BY <2>1, <2>2, ConcatProperties
    <3>2. Len(h) = 1 /\ Len(h) + Len(t) = Len(s)
        BY <1>1, <2>1, <2>2
    <3> QED BY <3>1, <3>2
  <2>4. \A i \in 1..Len(s) : i > 1 => i - 1 \in 1..(Len(s) - 1) /\ (i - 1) + 1 = i
      BY <1>1
  <2>5. \A i \in 1..Len(s) : (h \o t)[i] = s[i].no
      BY <1>1, <2>1, <2>2, <2>3, <2>4
  <2> QED BY <2>3, <2>5 DEF h, t
<1> HIDE DEF a, b
<1>4. a = b
    BY <1>2, <1>3, SeqEqual
<1> QED BY <1>1, <1>4 DEF a, b

\* Nothing changes of what is carried, or only its origin.
LEMMA CarriedIs ==
    ASSUME Typed
    PROVE  LET a == captured
               b == Session!Numbers(xfer)
               c == Session!Numbers(tx)
           IN  /\ a \in Seq(Nat) /\ b \in Seq(Nat) /\ c \in Seq(Nat)
               /\ Carried \in Seq(Nat) /\ Carried = a \o (b \o c) /\ a \o b \in Seq(Nat)
               /\ Range(Carried) = Range(a) \cup Range(b) \cup Range(c)
               /\ Increasing(Carried) =>
                     /\ Increasing(a \o c) /\ Increasing(c)
<1> DEFINE a == captured
           b == Session!Numbers(xfer)
           c == Session!Numbers(tx)
<1>1. a \in Seq(Nat) /\ b \in Seq(Nat) /\ c \in Seq(Nat)
    BY NumbersAre DEF Typed
<1>2. Carried = (a \o b) \o c
    BY DEF Carried
<1> HIDE DEF a, b, c
<1>3. Carried = a \o (b \o c)
    BY <1>1, <1>2, Associates
<1>4. a \o b \in Seq(Nat) /\ Range(a \o b) = Range(a) \cup Range(b)
    BY <1>1, Joined
<1>5. Carried \in Seq(Nat) /\ Range(Carried) = Range(a \o b) \cup Range(c)
    BY <1>1, <1>2, <1>4, Joined
<1>6. ASSUME Increasing(Carried)
      PROVE  Increasing(a \o c) /\ Increasing(c)
  <2>1. Increasing(a \o b) /\ Increasing(c) /\ \A x \in Range(a \o b), y \in Range(c) : x < y
      BY <1>1, <1>2, <1>4, <1>6, Joined
  <2>2. Increasing(a)
      BY <1>1, <2>1, Joined
  <2>3. \A x \in Range(a), y \in Range(c) : x < y
      BY <1>4, <2>1
  <2> QED BY <1>1, <2>1, <2>2, <2>3, Joined
<1>7. Range(Carried) = Range(a) \cup Range(b) \cup Range(c)
    BY <1>4, <1>5
<1> QED BY <1>1, <1>3, <1>4, <1>5, <1>6, <1>7 DEF a, b, c

\* A packet arrives.
LEMMA ArriveCarries ==
    ASSUME Typed, Session!Arrive
    PROVE  Carried' = Carried /\ captured' \in Seq(Nat)
           /\ xfer' \in Seq(Session!Packet) /\ tx' \in Seq(Session!Packet)
<1> DEFINE a == captured
           b == Session!Numbers(xfer)
           h == <<Head(tx).no>>
           t == Session!Numbers(Tail(tx))
           full == Append(xfer, Head(tx))
<1>1. /\ Head(tx) \in Session!Packet /\ Tail(tx) \in Seq(Session!Packet)
      /\ Session!Numbers(tx) = h \o t /\ tx' = Tail(tx)
    BY NumbersHead DEF Typed, Session!Arrive
<1>2. full \in Seq(Session!Packet) /\ Session!Numbers(full) = b \o h
    BY <1>1, NumbersAppend DEF Typed
<1>3. Carried = (a \o b) \o (h \o t)
    BY <1>1 DEF Carried
<1>4. a \in Seq(Nat) /\ b \in Seq(Nat) /\ h \in Seq(Nat) /\ t \in Seq(Nat)
  <2>1. Head(tx).no \in Nat
      BY <1>1 DEF Session!Packet
  <2>2. b \in Seq(Nat) /\ t \in Seq(Nat)
      BY <1>1, NumbersAre DEF Typed
  <2> QED BY <2>1, <2>2 DEF Typed
<1>5. \/ captured' = a \o Session!Numbers(full) /\ xfer' = <<>>
      \/ captured' = a /\ xfer' = full
    BY DEF Session!Arrive, Session!NextSlice
<1>6. Carried' = (captured' \o Session!Numbers(xfer')) \o t
    BY <1>1 DEF Carried
<1>7. xfer' \in Seq(Session!Packet) /\ <<>> \in Seq(Session!Packet)
  <2>1. <<>> \in Seq(Session!Packet)
      OBVIOUS
  <2> HIDE DEF full
  <2> QED BY <1>2, <1>5, <2>1
<1> HIDE DEF a, b, h, t, full
<1>8. (a \o b) \o (h \o t) = ((a \o b) \o h) \o t /\ (a \o b) \o h = a \o (b \o h)
  <2>1. a \o b \in Seq(Nat)
      BY <1>4, ConcatProperties
  <2> QED BY <1>4, <2>1, Associates
<1>9. a \o (b \o h) \in Seq(Nat)
    BY <1>4, ConcatProperties
<1>10. (a \o (b \o h)) \o <<>> = a \o (b \o h)
    BY <1>9, ConcatEmptySeq
<1>11. captured' \in Seq(Nat)
    BY <1>2, <1>4, <1>5, <1>9 DEF a
<1>12. Carried' = (a \o (b \o h)) \o t
    BY <1>2, <1>5, <1>6, <1>10, NumbersNone DEF a
<1> QED BY <1>1, <1>3, <1>7, <1>8, <1>11, <1>12

\* A transfer times out: what it carried is written or dropped.
LEMMA TimesOutCarries ==
    ASSUME Typed, Capturing, Session!TimesOut
    PROVE  Capturing' /\ captured' \in Seq(Nat)
<1> DEFINE a == captured
           b == Session!Numbers(xfer)
           c == Session!Numbers(tx)
<1>1. /\ a \in Seq(Nat) /\ b \in Seq(Nat) /\ c \in Seq(Nat)
      /\ Carried \in Seq(Nat) /\ Carried = (a \o b) \o c /\ a \o b \in Seq(Nat)
      /\ Range(Carried) = Range(a) \cup Range(b) \cup Range(c)
      /\ Increasing(Carried) => Increasing(a \o c)
    BY CarriedIs DEF Carried
<1>2. xfer' = <<>> /\ UNCHANGED <<tx, printed>>
    BY DEF Session!TimesOut, Session!NextSlice, Session!board
<1>3. Carried' = (captured' \o <<>>) \o c
    BY <1>2, NumbersNone DEF Carried
<1>4. CASE captured' = a \o b /\ UNCHANGED g
  <2>1. Carried' = Carried
      BY <1>1, <1>3, <1>4, ConcatEmptySeq
  <2> QED BY <1>1, <1>2, <1>4, <2>1 DEF Capturing
<1>5. CASE captured' = a /\ g' = [g EXCEPT !.dropped = @ \cup {xfer[i].no : i \in 1..Len(xfer)}]
  <2>1. Carried' = a \o c
      BY <1>1, <1>3, <1>5, ConcatEmptySeq
  <2>2. Range(Carried') = Range(a) \cup Range(c)
      BY <1>1, <2>1, Joined
  <2>3. g'.base = g.base /\ g'.dropped = g.dropped \cup Range(b)
      BY <1>5, NumbersAre DEF Typed, Ghosts
  <2>4. Increasing(Carried')
      BY <1>1, <2>1 DEF Capturing
  <2>5. \A n \in Range(Carried') : n \in 1..printed'
      BY <1>1, <1>2, <2>2 DEF Capturing
  <2>6. (g'.base + 1)..printed' \subseteq Range(Carried') \cup g'.dropped
      BY <1>1, <1>2, <2>2, <2>3 DEF Capturing
  <2> QED BY <1>1, <1>5, <2>4, <2>5, <2>6 DEF Capturing, Increasing
<1>6. (captured' = a \o b /\ UNCHANGED g)
      \/ (captured' = a /\ g' = [g EXCEPT !.dropped = @ \cup {xfer[i].no : i \in 1..Len(xfer)}])
    BY DEF Session!TimesOut
<1> QED BY <1>4, <1>5, <1>6

\* The board prints an answer: consecutive numbers after all it has printed.
LEMMA AnswerIs ==
    ASSUME Session!SessionAssumption, printed \in Nat, NEW r \in Session!Answers
    PROVE  /\ r \in Seq(Session!Packet) /\ Len(r) \in Nat
           /\ \A i \in 1..Len(r) : r[i].no = printed + i
           /\ Increasing(Session!Numbers(r))
           /\ Range(Session!Numbers(r)) = (printed + 1)..(printed + Len(r))
<1>1. PICK n \in 1..MaxReply :
        r \in {[i \in 1..n |-> [no |-> printed + i, short |-> f[i]]] : f \in [1..n -> BOOLEAN]}
    BY DEF Session!Answers
<1>2. PICK f \in [1..n -> BOOLEAN] : r = [i \in 1..n |-> [no |-> printed + i, short |-> f[i]]]
    BY <1>1
<1>3. n \in Nat
    BY DEF Session!SessionAssumption
<1>4. \A i \in 1..n : r[i] \in Session!Packet /\ r[i].no = printed + i
    BY <1>2, <1>3 DEF Session!Packet
<1>5. r \in Seq(Session!Packet) /\ Len(r) = n
    BY <1>2, <1>3, <1>4
<1>6. Range(Session!Numbers(r)) = {printed + i : i \in 1..n}
  <2>1. Range(Session!Numbers(r)) = {r[i].no : i \in 1..n}
      BY <1>5, NumbersAre
  <2> QED BY <1>4, <2>1
<1>7. {printed + i : i \in 1..n} = (printed + 1)..(printed + n)
  <2>1. \A x \in (printed + 1)..(printed + n) : x - printed \in 1..n /\ x = printed + (x - printed)
      BY <1>3
  <2> QED BY <1>3, <2>1
<1>8. Increasing(Session!Numbers(r))
  <2>1. Len(Session!Numbers(r)) = n /\ \A i \in 1..n : Session!Numbers(r)[i] = printed + i
      BY <1>4, <1>5, NumbersAre
  <2> QED BY <1>3, <2>1 DEF Increasing
<1> QED BY <1>3, <1>4, <1>5, <1>6, <1>7, <1>8

LEMMA NumbersJoin ==
    ASSUME NEW s \in Seq(Session!Packet), NEW r \in Seq(Session!Packet)
    PROVE  s \o r \in Seq(Session!Packet)
           /\ Session!Numbers(s \o r) = Session!Numbers(s) \o Session!Numbers(r)
<1> DEFINE a == Session!Numbers(s \o r)
           m == Session!Numbers(s)
           n == Session!Numbers(r)
<1>1. /\ s \o r \in Seq(Session!Packet) /\ Len(s \o r) = Len(s) + Len(r)
      /\ \A i \in 1..(Len(s) + Len(r)) : (s \o r)[i] = IF i <= Len(s) THEN s[i] ELSE r[i - Len(s)]
    BY ConcatProperties
<1>2. m \in Seq(Nat) /\ Len(m) = Len(s) /\ n \in Seq(Nat) /\ Len(n) = Len(r)
      /\ (\A i \in 1..Len(s) : m[i] = s[i].no) /\ (\A i \in 1..Len(r) : n[i] = r[i].no)
      /\ Len(s) \in Nat /\ Len(r) \in Nat
    BY NumbersAre
<1>3. a \in Seq(Nat) /\ Len(a) = Len(s) + Len(r)
      /\ \A i \in 1..(Len(s) + Len(r)) : a[i] = (s \o r)[i].no
    BY <1>1, NumbersAre
<1> HIDE DEF a, m, n
<1>4. m \o n \in Seq(Nat) /\ Len(m \o n) = Len(s) + Len(r)
      /\ \A i \in 1..(Len(s) + Len(r)) : (m \o n)[i] = IF i <= Len(s) THEN m[i] ELSE n[i - Len(s)]
    BY <1>2, ConcatProperties
<1>5. \A i \in 1..(Len(s) + Len(r)) : a[i] = (m \o n)[i]
  <2> SUFFICES ASSUME NEW i \in 1..(Len(s) + Len(r)) PROVE a[i] = (m \o n)[i]
      OBVIOUS
  <2>1. CASE i <= Len(s)
    <3>1. i \in 1..Len(s)
        BY <1>2, <2>1
    <3> QED BY <1>1, <1>2, <1>3, <1>4, <2>1, <3>1
  <2>2. CASE ~(i <= Len(s))
    <3>1. i - Len(s) \in 1..Len(r)
        BY <1>2, <2>2
    <3> QED BY <1>1, <1>2, <1>3, <1>4, <2>2, <3>1
  <2> QED BY <2>1, <2>2
<1>6. a = m \o n
    BY <1>3, <1>4, <1>5, SeqEqual
<1> QED BY <1>1, <1>6 DEF a, m, n

LEMMA AnswerCarries ==
    ASSUME Session!SessionAssumption, Typed, Capturing, NEW r \in Session!Answers,
           tx' = tx \o r, printed' = printed + Len(r), UNCHANGED <<captured, xfer>>,
           g'.base = g.base, g'.dropped = g.dropped
    PROVE  Capturing' /\ tx' \in Seq(Session!Packet) /\ printed' \in Nat
<1> DEFINE n == Session!Numbers(r)
<1>1. printed \in Nat /\ tx \in Seq(Session!Packet)
    BY DEF Typed, Session!TypeOK
<1>2. /\ r \in Seq(Session!Packet) /\ Len(r) \in Nat /\ Increasing(n)
      /\ Range(n) = (printed + 1)..(printed + Len(r))
    BY <1>1, AnswerIs
<1>3. n \in Seq(Nat)
    BY <1>2, NumbersAre
<1>4. /\ tx' \in Seq(Session!Packet)
      /\ Session!Numbers(tx') = Session!Numbers(tx) \o n
    BY <1>1, <1>2, NumbersJoin
<1>5. Carried \in Seq(Nat) /\ captured \o Session!Numbers(xfer) \in Seq(Nat) /\ Session!Numbers(tx) \in Seq(Nat)
    BY CarriedIs
<1> HIDE DEF n
<1>6. Carried' = Carried \o n
  <2>1. Carried' = (captured \o Session!Numbers(xfer)) \o (Session!Numbers(tx) \o n)
      BY <1>4 DEF Carried
  <2> QED BY <1>3, <1>5, <2>1, Associates DEF Carried
<1>7. /\ Range(Carried') = Range(Carried) \cup Range(n)
      /\ Increasing(Carried') <=>
            Increasing(Carried) /\ Increasing(n) /\ \A x \in Range(Carried), y \in Range(n) : x < y
    BY <1>3, <1>5, <1>6, Joined
<1>8. \A x \in Range(Carried), y \in Range(n) : x < y
    BY <1>1, <1>2 DEF Capturing
<1>9. Increasing(Carried)'
    BY <1>2, <1>7, <1>8 DEF Capturing, Increasing
<1>10. \A x \in Range(Carried') : x \in 1..printed'
    BY <1>1, <1>2, <1>7 DEF Capturing
<1>11. (g'.base + 1)..printed' \subseteq Range(Carried') \cup g'.dropped
  <2>1. \A x \in (g.base + 1)..(printed + Len(r)) :
          x \in (g.base + 1)..printed \/ x \in (printed + 1)..(printed + Len(r))
    <3>1. g.base \in Nat
        BY DEF Typed, Ghosts
    <3> QED BY <1>1, <1>2, <3>1
  <2> QED BY <1>2, <1>7, <2>1 DEF Capturing
<1>12. printed' \in Nat
    BY <1>1, <1>2
<1> QED BY <1>4, <1>9, <1>10, <1>11, <1>12 DEF Capturing

\* A client starts: what earlier ones have left is before its first packet.
LEMMA StartCarries ==
    ASSUME Typed, Capturing, captured' = <<>>, UNCHANGED <<xfer, tx, printed>>,
           g'.base = printed
    PROVE  Capturing'
<1> DEFINE b == Session!Numbers(xfer)
           c == Session!Numbers(tx)
<1>1. /\ captured \in Seq(Nat) /\ b \in Seq(Nat) /\ c \in Seq(Nat)
      /\ Carried = captured \o (b \o c)
    BY CarriedIs
<1>2. Carried' = b \o c
    BY <1>1, ConcatEmptySeq DEF Carried
<1>3. b \o c \in Seq(Nat)
    BY <1>1, Joined
<1>4. /\ Range(Carried) = Range(captured) \cup Range(b \o c)
      /\ Increasing(Carried) => Increasing(b \o c)
    BY <1>1, <1>3, Joined
<1>5. Increasing(Carried)'
    BY <1>2, <1>4 DEF Capturing, Increasing
<1>6. \A n \in Range(Carried') : n \in 1..printed'
    BY <1>2, <1>4 DEF Capturing
<1>7. (g'.base + 1)..printed' = {}
  <2>1. printed \in Nat
      BY DEF Typed, Session!TypeOK
  <2> QED BY <2>1
<1> QED BY <1>5, <1>6, <1>7 DEF Capturing

-----------------------------------------------------------------------------
(***************************************************************************)
(* As long as nothing was cut: the script ends with the lines of the       *)
(* commands not yet sent, and what the firmware has of a line, with what   *)
(* it has not read, is the lines of the commands sent and not executed.    *)
(***************************************************************************)
Unsent == IF Len(script) <= 1 THEN 0 ELSE IF Len(script) <= 3 THEN 1 ELSE 2
Listens == {Session!Listen, Session!Drain}

Planned ==
    LET k == Len(script)
        n == Len(g.typed)
    IN  /\ k <= 5
        /\ k >= 1 => script[k] \in Listens
        /\ k >= 2 => n >= 1 /\ script[k - 1] = Session!Send(LineOf(g.typed[n]))
        /\ k >= 3 => script[k - 2] \in Listens
        /\ k >= 4 => n >= 2 /\ script[k - 3] = Session!Send(LineOf(g.typed[n - 1]))
        /\ k >= 5 => script[k - 4] \in Listens

Queued(text, cs, done, sent) ==
    /\ done <= sent
    /\ Len(text) = 3 * (sent - done)
    /\ \A j \in 1..(sent - done) :
          /\ text[3 * j - 2] = <<cs[done + j], 1>>
          /\ text[3 * j - 1] = <<cs[done + j], 2>>
          /\ text[3 * j] = Session!NL

Commanding ==
    ~g.cut => /\ Planned
              /\ Queued(line \o rx, g.typed, Len(g.done), Len(g.typed) - Unsent)
              /\ Len(line) <= 2
              /\ \A i \in 1..Len(g.done) : g.done[i] = g.typed[i]

\* The step of the script that is over.
LEMMA PlanAdvances ==
    ASSUME Typed, Planned, script # <<>>, script' = Tail(script), g'.typed = g.typed
    PROVE  /\ Planned'
           /\ Head(script) \in Listens => Unsent' = Unsent
           /\ Head(script) \notin Listens =>
                 /\ Unsent >= 1 /\ Unsent <= Len(g.typed) /\ Unsent' = Unsent - 1
                 /\ Head(script) = Session!Send(LineOf(g.typed[Len(g.typed) - Unsent + 1]))
<1> DEFINE k == Len(script)
           n == Len(g.typed)
<1>1. k \in Nat /\ k >= 1 /\ Head(script) = script[1] /\ Len(Tail(script)) = k - 1
      /\ \A i \in 1..(k - 1) : Tail(script)[i] = script[i + 1]
    BY DEF Typed
<1>2. n \in Nat
    BY DEF Typed, Ghosts
<1>3. \A c : Session!Send(LineOf(c)) \notin Listens
    BY ActIs DEF Listens
<1>4. /\ k <= 5
      /\ k >= 1 => script[k] \in Listens
      /\ k >= 2 => n >= 1 /\ script[k - 1] = Session!Send(LineOf(g.typed[n]))
      /\ k >= 3 => script[k - 2] \in Listens
      /\ k >= 4 => n >= 2 /\ script[k - 3] = Session!Send(LineOf(g.typed[n - 1]))
      /\ k >= 5 => script[k - 4] \in Listens
    BY DEF Planned
<1>5. Planned' <=>
      /\ k - 1 <= 5
      /\ k - 1 >= 1 => script'[k - 1] \in Listens
      /\ k - 1 >= 2 => n >= 1 /\ script'[k - 1 - 1] = Session!Send(LineOf(g.typed[n]))
      /\ k - 1 >= 3 => script'[k - 1 - 2] \in Listens
      /\ k - 1 >= 4 => n >= 2 /\ script'[k - 1 - 3] = Session!Send(LineOf(g.typed[n - 1]))
      /\ k - 1 >= 5 => script'[k - 1 - 4] \in Listens
    BY <1>1 DEF Planned, Listens, Session!Listen, Session!Drain, Session!Send, LineOf, Session!Whole,
                Session!Piece, Session!NL
<1>6. Unsent = (IF k <= 1 THEN 0 ELSE IF k <= 3 THEN 1 ELSE 2)
      /\ Unsent' = (IF k - 1 <= 1 THEN 0 ELSE IF k - 1 <= 3 THEN 1 ELSE 2)
    BY <1>1 DEF Unsent
<1>7. script' = Tail(script)
    OBVIOUS
<1> HIDE DEF k, n
<1>8. \A i \in 1..(k - 1) : script'[i] = script[i + 1]
    BY <1>1, <1>7
<1>9. Planned'
  <2>1. /\ k - 1 >= 1 => script'[k - 1] = script[k]
        /\ k - 1 >= 2 => script'[k - 1 - 1] = script[k - 1]
        /\ k - 1 >= 3 => script'[k - 1 - 2] = script[k - 2]
        /\ k - 1 >= 4 => script'[k - 1 - 3] = script[k - 3]
    <3>1. /\ k - 1 >= 1 => k - 1 \in 1..(k - 1) /\ k - 1 + 1 = k
          /\ k - 1 >= 2 => k - 1 - 1 \in 1..(k - 1) /\ k - 1 - 1 + 1 = k - 1
          /\ k - 1 >= 3 => k - 1 - 2 \in 1..(k - 1) /\ k - 1 - 2 + 1 = k - 2
          /\ k - 1 >= 4 => k - 1 - 3 \in 1..(k - 1) /\ k - 1 - 3 + 1 = k - 3
        BY <1>1
    <3> QED BY <1>8, <3>1, Zenon
  <2> QED BY <1>1, <1>4, <1>5, <2>1
<1>10. CASE k \in {1, 3, 5}
  <2>1. script[1] \in Listens
      BY <1>4, <1>10
  <2> QED BY <1>1, <1>6, <1>9, <1>10, <2>1
<1>11. CASE k = 2
  <2>1. script[1] = Session!Send(LineOf(g.typed[n])) /\ n >= 1
      BY <1>4, <1>11
  <2>2. Unsent = 1 /\ Unsent' = 0 /\ n - 1 + 1 = n
      BY <1>2, <1>6, <1>11
  <2> QED BY <1>1, <1>3, <1>9, <2>1, <2>2 DEF n
<1>12. CASE k = 4
  <2>1. script[1] = Session!Send(LineOf(g.typed[n - 1])) /\ n >= 2
      BY <1>4, <1>12
  <2>2. Unsent = 2 /\ Unsent' = 1 /\ n - 2 + 1 = n - 1
      BY <1>2, <1>6, <1>12
  <2> QED BY <1>1, <1>3, <1>9, <2>1, <2>2 DEF n
<1>13. k \in {1, 2, 3, 4, 5}
    BY <1>1, <1>4
<1> QED BY <1>10, <1>11, <1>12, <1>13

\* A client starts with a plan of its commands.
LEMMA StartPlans ==
    ASSUME Session!SessionAssumption, Typed, Commanding, ~g.cut, script = <<>>,
           NEW cs \in Seq(Names), NEW s,
           \/ \E c \in Commands : c \notin LongCommands /\ cs = <<c>>
                                 /\ s \in {Session!CmdScript(c), Session!HostScript(c)}
           \/ cs = <<"ID", "DUMP">> /\ s = Session!DumpScript,
           script' = s, g' \in Ghosts, g'.typed = g.typed \o cs, g'.done = g.done, UNCHANGED <<rx, line>>
    PROVE  Commanding'
<1> DEFINE n == Len(g.typed)
           m == Len(cs)
<1>1. /\ n \in Nat /\ m \in Nat /\ Len(g'.typed) = n + m
      /\ \A i \in 1..n : g'.typed[i] = g.typed[i]
      /\ \A i \in 1..m : g'.typed[n + i] = cs[i]
  <2>1. g.typed \in Seq(Names)
      BY DEF Typed, Ghosts
  <2>2. /\ Len(g.typed \o cs) = n + m /\ n \in Nat /\ m \in Nat
        /\ \A i \in 1..(n + m) : (g.typed \o cs)[i] = IF i <= n THEN g.typed[i] ELSE cs[i - n]
      BY <2>1, ConcatProperties
  <2> HIDE DEF n, m
  <2>3. \A i \in 1..n : i \in 1..(n + m) /\ i <= n
      BY <2>2
  <2>4. \A i \in 1..m : n + i \in 1..(n + m) /\ ~(n + i <= n) /\ (n + i) - n = i
      BY <2>2
  <2> QED BY <2>2, <2>3, <2>4 DEF n, m
<1>2. Planned' /\ Unsent' = m
  <2>1. CASE \E c \in Commands : c \notin LongCommands /\ cs = <<c>>
                                /\ s \in {Session!CmdScript(c), Session!HostScript(c)}
    <3>1. PICK c \in Commands : c \notin LongCommands /\ cs = <<c>>
                               /\ s \in {Session!CmdScript(c), Session!HostScript(c)}
        BY <2>1
    <3> DEFINE e == Session!Send(LineOf(c))
    <3>2. Session!CmdScript(c) = <<Session!Drain, e, Session!Listen>>
        BY <3>1 DEF Session!CmdScript, LineOf
    <3>3. Session!HostScript(c) = <<Session!Listen>> \o <<e, Session!Listen>>
        BY <3>1 DEF Session!HostScript, LineOf
    <3>4. m = 1 /\ cs[1] = c
        BY <3>1
    <3> HIDE DEF e
    <3>5. Len(s) = 3 /\ s[1] \in Listens /\ s[2] = e /\ s[3] \in Listens
      <4>1. CASE s = Session!CmdScript(c)
          BY <3>2, <4>1 DEF Listens
      <4>2. CASE s = Session!HostScript(c)
        <5> DEFINE l == Session!Listen
        <5>1. l \in Listens
            BY DEF Listens
        <5> HIDE DEF l
        <5>2. s = <<l>> \o <<e, l>>
            BY <3>3, <4>2 DEF l
        <5>3. <<l>> \in Seq({l, e}) /\ <<e, l>> \in Seq({l, e}) /\ Len(<<l>>) = 1 /\ Len(<<e, l>>) = 2
              /\ <<l>>[1] = l /\ <<e, l>>[1] = e /\ <<e, l>>[2] = l
            OBVIOUS
        <5>4. Len(s) = 3 /\ s[1] = l /\ s[2] = e /\ s[3] = l
            BY <5>2, <5>3, ConcatProperties
        <5> QED BY <5>1, <5>4
      <4> QED BY <3>1, <4>1, <4>2
    <3>6. g'.typed[n + 1] = c /\ Len(g'.typed) = n + 1
        BY <1>1, <3>4
    <3>7. s[3 - 1] = Session!Send(LineOf(g'.typed[Len(g'.typed)])) /\ Len(g'.typed) >= 1
        BY <1>1, <3>5, <3>6 DEF e
    <3>8. Planned'
        BY <3>5, <3>7 DEF Planned, Listens, Session!Listen, Session!Drain, Session!Send, LineOf,
                          Session!Whole, Session!Piece, Session!NL
    <3>9. Unsent' = 1
        BY <3>5 DEF Unsent
    <3> QED BY <3>4, <3>8, <3>9
  <2>2. CASE cs = <<"ID", "DUMP">> /\ s = Session!DumpScript
    <3> DEFINE l == Session!Listen
               d == Session!Send(LineOf("ID"))
               e == Session!Send(LineOf("DUMP"))
    <3>1. s = <<l, d, l, e, l>>
        BY <2>2 DEF Session!DumpScript, LineOf
    <3>2. m = 2 /\ cs[1] = "ID" /\ cs[2] = "DUMP"
        BY <2>2
    <3>3. l \in Listens
        BY DEF Listens
    <3> HIDE DEF l, d, e
    <3>4. Len(s) = 5 /\ s[1] = l /\ s[2] = d /\ s[3] = l /\ s[4] = e /\ s[5] = l
        BY <3>1
    <3>5. g'.typed[n + 1] = "ID" /\ g'.typed[n + 2] = "DUMP" /\ Len(g'.typed) = n + 2
        BY <1>1, <3>2
    <3>6. /\ s[5 - 1] = Session!Send(LineOf(g'.typed[Len(g'.typed)])) /\ Len(g'.typed) >= 1
          /\ s[5 - 3] = Session!Send(LineOf(g'.typed[Len(g'.typed) - 1])) /\ Len(g'.typed) >= 2
      <4>1. (n + 2) - 1 = n + 1 /\ n + 2 >= 2
          BY <1>1
      <4> QED BY <3>4, <3>5, <4>1 DEF d, e
    <3>7. Planned'
        BY <3>3, <3>4, <3>6 DEF Planned, Listens, Session!Listen, Session!Drain, Session!Send, LineOf,
                          Session!Whole, Session!Piece, Session!NL
    <3>8. Unsent' = 2
        BY <3>4 DEF Unsent
    <3> QED BY <3>2, <3>7, <3>8
  <2> QED BY <2>1, <2>2
<1>3. Unsent = 0 /\ Queued(line \o rx, g.typed, Len(g.done), n) /\ Len(line) <= 2
      /\ \A i \in 1..Len(g.done) : g.done[i] = g.typed[i]
    BY <1>1 DEF Commanding, Unsent
<1>4. Len(g'.typed) - Unsent' = n
    BY <1>1, <1>2
<1>5. Len(g.done) \in Nat /\ Len(g.done) <= n
    BY <1>3 DEF Typed, Ghosts, Queued
<1>6. Queued(line \o rx, g'.typed, Len(g.done), n)
  <2> DEFINE d == Len(g.done)
             w == line \o rx
  <2>1. d \in Nat /\ n \in Nat /\ d <= n
      BY <1>1, <1>5
  <2>2. Queued(w, g.typed, d, n)
      BY <1>3
  <2> HIDE DEF d, w, n
  <2>3. \A j \in 1..(n - d) : d + j \in 1..n
      BY <2>1
  <2>4. \A j \in 1..(n - d) : g'.typed[d + j] = g.typed[d + j]
      BY <1>1, <2>3
  <2> QED BY <2>2, <2>4 DEF Queued, d, w
<1>7. Queued(line \o rx, g.typed, Len(g.done), Len(g.typed) - Unsent)'
    BY <1>4, <1>6
<1>8. \A i \in 1..Len(g.done) : g'.typed[i] = g.typed[i]
    BY <1>1, <1>5
<1> QED BY <1>2, <1>3, <1>7, <1>8 DEF Commanding

\* A line is sent: its command is the next, and its text comes last.
LEMMA LineIsQueued ==
    ASSUME NEW w \in Seq(Pieces), NEW cs \in Seq(Names), NEW d \in Nat, NEW n \in Nat, n < Len(cs),
           Queued(w, cs, d, n)
    PROVE  Queued(w \o LineOf(cs[n + 1]), cs, d, n + 1)
<1> DEFINE x == LineOf(cs[n + 1])
           c == cs[n + 1]
           v == w \o x
<1>1. /\ x \in Seq(Pieces) /\ Len(x) = 3 /\ x[1] = <<c, 1>> /\ x[2] = <<c, 2>> /\ x[3] = Session!NL
  <2>1. n + 1 \in 1..Len(cs)
      OBVIOUS
  <2>2. c \in Names
      BY <2>1
  <2> QED BY <2>2, LineIs
<1>2. d <= n /\ Len(w) = 3 * (n - d)
    BY DEF Queued
<1>3. Len(v) = Len(w) + 3 /\ \A i \in 1..(Len(w) + 3) : v[i] = IF i <= Len(w) THEN w[i] ELSE x[i - Len(w)]
  <2> HIDE DEF x
  <2>1. /\ Len(v) = Len(w) + Len(x)
        /\ \A i \in 1..(Len(w) + Len(x)) : v[i] = IF i <= Len(w) THEN w[i] ELSE x[i - Len(w)]
      BY <1>1, ConcatProperties
  <2> QED BY <1>1, <2>1
<1>4. d <= n + 1 /\ Len(v) = 3 * (n + 1 - d)
    BY <1>2, <1>3
<1>5. ASSUME NEW j \in 1..(n + 1 - d)
      PROVE  /\ v[3 * j - 2] = <<cs[d + j], 1>>
             /\ v[3 * j - 1] = <<cs[d + j], 2>>
             /\ v[3 * j] = Session!NL
  <2>1. CASE j <= n - d
    <3>1. j \in 1..(n - d)
        BY <1>2, <2>1
    <3>2. \A i \in {3 * j - 2, 3 * j - 1, 3 * j} : i \in 1..(Len(w) + 3) /\ i <= Len(w)
        BY <1>2, <3>1
    <3>3. v[3 * j - 2] = w[3 * j - 2] /\ v[3 * j - 1] = w[3 * j - 1] /\ v[3 * j] = w[3 * j]
        BY <1>3, <3>2
    <3> QED BY <3>1, <3>3 DEF Queued
  <2>2. CASE j = n + 1 - d
    <3>1. /\ 3 * j - 2 = Len(w) + 1 /\ 3 * j - 1 = Len(w) + 2 /\ 3 * j = Len(w) + 3 /\ d + j = n + 1
          /\ Len(w) \in Nat
        BY <1>2, <2>2
    <3>2. v[Len(w) + 1] = x[1] /\ v[Len(w) + 2] = x[2] /\ v[Len(w) + 3] = x[3]
      <4> DEFINE l == Len(w)
      <4>1. l \in Nat
          OBVIOUS
      <4> HIDE DEF l, v, x
      <4>2. \A i \in 1..3 : l + i \in 1..(l + 3) /\ ~(l + i <= l) /\ (l + i) - l = i
          BY <4>1
      <4>3. \A i \in 1..3 : v[l + i] = x[i]
          BY <1>3, <4>2 DEF l
      <4> QED BY <4>3 DEF l
    <3> QED BY <1>1, <3>1, <3>2
  <2>3. j <= n - d \/ j = n + 1 - d
      BY <1>2
  <2> QED BY <2>1, <2>2, <2>3
<1>6. Queued(v, cs, d, n + 1)
  <2> HIDE DEF v
  <2> QED BY <1>4, <1>5 DEF Queued
<1> QED BY <1>6

\* The firmware reads a newline: the line is that of the command whose turn it is.
LEMMA LineIsExecuted ==
    ASSUME line \in Seq(Pieces), rx \in Seq(Pieces), rx # <<>>, Head(rx) = Session!NL, Len(line) <= 2,
           NEW cs \in Seq(Names), NEW d \in Nat, NEW n \in Nat, n <= Len(cs),
           Queued(line \o rx, cs, d, n)
    PROVE  d < n /\ Session!Executed = cs[d + 1] /\ Queued(Tail(rx), cs, d + 1, n)
<1> DEFINE w == line \o rx
           l == Len(line)
           r == Len(rx)
<1>1. /\ l \in Nat /\ r \in Nat /\ r >= 1 /\ l <= 2 /\ Len(w) = l + r
      /\ \A i \in 1..(l + r) : w[i] = IF i <= l THEN line[i] ELSE rx[i - l]
    BY ConcatProperties
<1>2. /\ rx[1] = Session!NL /\ Len(Tail(rx)) = r - 1 /\ \A i \in 1..(r - 1) : Tail(rx)[i] = rx[i + 1]
    OBVIOUS
<1>3. /\ d <= n /\ Len(w) = 3 * (n - d)
      /\ \A j \in 1..(n - d) : /\ w[3 * j - 2] = <<cs[d + j], 1>>
                               /\ w[3 * j - 1] = <<cs[d + j], 2>>
                               /\ w[3 * j] = Session!NL
    BY DEF Queued
<1>4. d < n
    BY <1>1, <1>3
<1>5. /\ w[1] = <<cs[d + 1], 1>> /\ w[2] = <<cs[d + 1], 2>> /\ w[3] = Session!NL
  <2>1. 1 \in 1..(n - d) /\ 3 * 1 - 2 = 1 /\ 3 * 1 - 1 = 2 /\ 3 * 1 = 3
      BY <1>4
  <2> HIDE DEF w
  <2> QED BY <1>3, <2>1
<1>6. w[l + 1] = Session!NL
  <2> HIDE DEF w, l, r
  <2>1. l + 1 \in 1..(l + r) /\ ~(l + 1 <= l) /\ (l + 1) - l = 1
      BY <1>1
  <2> QED BY <1>1, <1>2, <2>1
<1>7. l = 2
  <2> HIDE DEF l, r, w
  <2>1. w[1] # Session!NL /\ w[2] # Session!NL
      BY <1>5, NoNewline
  <2>2. l = 0 => w[l + 1] = w[1]
      OBVIOUS
  <2>3. l = 1 => w[l + 1] = w[2]
      OBVIOUS
  <2> QED BY <1>1, <1>6, <2>1, <2>2, <2>3
<1>8. line[1] = <<cs[d + 1], 1>> /\ line[2] = <<cs[d + 1], 2>>
    BY <1>1, <1>5, <1>7
<1>9. Session!Executed = cs[d + 1]
  <2>1. cs[d + 1] \in Names
      BY <1>4
  <2>2. line = Session!Whole(cs[d + 1])
    <3> DEFINE p == <<cs[d + 1], 1>>
               q == <<cs[d + 1], 2>>
    <3>1. line[1] = p /\ line[2] = q /\ Len(line) = 2
        BY <1>7, <1>8
    <3>2. p \in Pieces /\ q \in Pieces
        BY <2>1 DEF Pieces
    <3> HIDE DEF p, q
    <3>3. line = <<p, q>>
      <4>1. <<p, q>> \in Seq(Pieces) /\ Len(<<p, q>>) = 2 /\ <<p, q>>[1] = p /\ <<p, q>>[2] = q
          BY <3>2
      <4>2. \A i \in 1..2 : line[i] = <<p, q>>[i]
          BY <3>1, <4>1
      <4> QED BY <3>1, <4>1, <4>2, SeqEqual
    <3> QED BY <3>3 DEF p, q, Session!Whole, Session!Piece
  <2>3. line[1][1] = cs[d + 1]
      BY <1>8
  <2> QED BY <2>1, <2>2, <2>3 DEF Session!Executed, Names
<1>10. Queued(Tail(rx), cs, d + 1, n)
  <2>1. d + 1 <= n /\ Len(Tail(rx)) = 3 * (n - (d + 1))
    <3>1. l + r = 3 * (n - d) /\ l = 2 /\ Len(Tail(rx)) = r - 1 /\ r \in Nat /\ d < n
        BY <1>1, <1>2, <1>3, <1>4, <1>7
    <3> HIDE DEF l, r, w
    <3>2. r = 3 * (n - d) - 2
        BY <3>1
    <3> QED BY <3>1, <3>2
  <2>2. \A i \in 1..(r - 1) : Tail(rx)[i] = w[i + 3]
    <3> SUFFICES ASSUME NEW i \in 1..(r - 1) PROVE Tail(rx)[i] = w[i + 3]
        OBVIOUS
    <3>1. i + 3 \in 1..(l + r) /\ ~(i + 3 <= l) /\ (i + 3) - l = i + 1
        BY <1>1, <1>7
    <3> QED BY <1>1, <1>2, <3>1
  <2>3. ASSUME NEW j \in 1..(n - (d + 1))
        PROVE  /\ Tail(rx)[3 * j - 2] = <<cs[d + 1 + j], 1>>
               /\ Tail(rx)[3 * j - 1] = <<cs[d + 1 + j], 2>>
               /\ Tail(rx)[3 * j] = Session!NL
    <3>1. /\ j + 1 \in 1..(n - d) /\ d + (j + 1) = d + 1 + j
          /\ 3 * (j + 1) - 2 = (3 * j - 2) + 3 /\ 3 * (j + 1) - 1 = (3 * j - 1) + 3 /\ 3 * (j + 1) = 3 * j + 3
        BY <1>4
    <3>2. 3 * j - 2 \in 1..(r - 1) /\ 3 * j - 1 \in 1..(r - 1) /\ 3 * j \in 1..(r - 1)
        BY <1>2, <2>1
    <3> HIDE DEF w, r
    <3>3. /\ w[(3 * j - 2) + 3] = <<cs[d + 1 + j], 1>>
          /\ w[(3 * j - 1) + 3] = <<cs[d + 1 + j], 2>>
          /\ w[3 * j + 3] = Session!NL
        BY <1>3, <3>1
    <3> QED BY <2>2, <3>2, <3>3
  <2> QED BY <2>1, <2>3 DEF Queued
<1> QED BY <1>4, <1>9, <1>10

\* The firmware reads text: it is the first or second piece of a line.
LEMMA TextIsRead ==
    ASSUME line \in Seq(Pieces), rx \in Seq(Pieces), rx # <<>>, Head(rx) # Session!NL, Len(line) <= 2,
           NEW cs \in Seq(Names), NEW d \in Nat, NEW n \in Nat,
           Queued(line \o rx, cs, d, n)
    PROVE  Len(line) <= 1
<1> DEFINE w == line \o rx
           l == Len(line)
           r == Len(rx)
<1>1. /\ l \in Nat /\ r \in Nat /\ r >= 1 /\ l <= 2 /\ Len(w) = l + r
      /\ \A i \in 1..(l + r) : w[i] = IF i <= l THEN line[i] ELSE rx[i - l]
    BY ConcatProperties
<1>2. rx[1] = Head(rx)
    OBVIOUS
<1>3. d <= n /\ Len(w) = 3 * (n - d) /\ \A j \in 1..(n - d) : w[3 * j] = Session!NL
    BY DEF Queued
<1>4. w[3] = Session!NL
  <2>1. 1 \in 1..(n - d) /\ 3 * 1 = 3
      BY <1>1, <1>3
  <2> HIDE DEF w
  <2> QED BY <1>3, <2>1
<1>5. l # 2
  <2> SUFFICES ASSUME l = 2 PROVE FALSE
      OBVIOUS
  <2>1. w[3] = rx[1]
      BY <1>1
  <2> QED BY <1>2, <1>4, <2>1
<1>6. l <= 1
  <2> HIDE DEF l, r, w
  <2> QED BY <1>1, <1>5
<1> QED BY <1>6

-----------------------------------------------------------------------------
\* The steps of clients and firmware.

SessionInv == Typed /\ Capturing /\ Commanding

LEMMA ScriptsTyped ==
    /\ Session!DumpScript \in Seq(Acts)
    /\ \A c \in Commands : Session!CmdScript(c) \in Seq(Acts) /\ Session!HostScript(c) \in Seq(Acts)
<1> DEFINE l == Session!Listen
           d == Session!Drain
<1>1. l \in Acts /\ d \in Acts
    BY ActIs
<1>2. \A c \in Names : Session!Send(LineOf(c)) \in Acts
    BY ActIs, LineIs
<1>3. Session!DumpScript = <<l, Session!Send(LineOf("ID")), l, Session!Send(LineOf("DUMP")), l>>
    BY DEF Session!DumpScript, LineOf
<1>4. Session!DumpScript \in Seq(Acts)
  <2> DEFINE x == Session!Send(LineOf("ID"))
             y == Session!Send(LineOf("DUMP"))
  <2>1. x \in Acts /\ y \in Acts
      BY <1>2 DEF Names
  <2> HIDE DEF l, d, x, y
  <2>2. <<l, x, l, y, l>> \in Seq(Acts)
      BY <1>1, <2>1
  <2> QED BY <1>3, <2>2 DEF x, y
<1>5. ASSUME NEW c \in Commands
      PROVE  Session!CmdScript(c) \in Seq(Acts) /\ Session!HostScript(c) \in Seq(Acts)
  <2> DEFINE p == Session!Piece(c, 1)
             q == Session!Piece(c, 2)
             n == Session!NL
             x == Session!Send(<<p>>)
             y == Session!Send(<<p, n>>)
             z == Session!Send(<<q, n>>)
             w == Session!Send(LineOf(c))
  <2>1. p \in Pieces /\ q \in Pieces /\ n \in Pieces
      BY DEF Session!Piece, Pieces, Names
  <2>2. x \in Acts /\ y \in Acts /\ z \in Acts /\ w \in Acts
    <3>1. w \in Acts
        BY <1>2 DEF Names
    <3> HIDE DEF p, q, n
    <3>2. <<p>> \in Seq(Pieces) /\ <<p, n>> \in Seq(Pieces) /\ <<q, n>> \in Seq(Pieces)
        BY <2>1
    <3> QED BY <3>1, <3>2, ActIs
  <2>3. Session!CmdScript(c) = <<d, IF c \in LongCommands THEN x ELSE w, l>>
      BY DEF Session!CmdScript, LineOf
  <2>4. Session!HostScript(c) = <<l>> \o (IF c \in LongCommands THEN <<y, l, z, l>> ELSE <<w, l>>)
      BY DEF Session!HostScript, LineOf
  <2> HIDE DEF l, d, x, y, z, w
  <2>5. Session!CmdScript(c) \in Seq(Acts)
    <3>1. (IF c \in LongCommands THEN x ELSE w) \in Acts
        BY <2>2
    <3> DEFINE v == IF c \in LongCommands THEN x ELSE w
    <3>2. v \in Acts
        BY <3>1
    <3> HIDE DEF v
    <3>3. <<d, v, l>> \in Seq(Acts)
        BY <1>1, <3>2
    <3> QED BY <2>3, <3>3 DEF v
  <2>6. <<l>> \in Seq(Acts) /\ <<y, l, z, l>> \in Seq(Acts) /\ <<w, l>> \in Seq(Acts)
      BY <1>1, <2>2
  <2>7. <<l>> \o <<y, l, z, l>> \in Seq(Acts) /\ <<l>> \o <<w, l>> \in Seq(Acts)
      BY <2>6, ConcatProperties
  <2> QED BY <2>4, <2>5, <2>7
<1> QED BY <1>4, <1>5

LEMMA StartKeeps ==
    ASSUME Session!SessionAssumption, SessionInv,
           NEW t \in {"cmd", "dump", "host"}, NEW s, NEW cs \in Seq(Names),
           \/ \E c \in Commands : cs = <<c>> /\ s \in {Session!CmdScript(c), Session!HostScript(c)}
           \/ cs = <<"ID", "DUMP">> /\ s = Session!DumpScript,
           Session!Start(t, s, cs)
    PROVE  SessionInv'
<1> USE DEF SessionInv
<1>1. /\ script = <<>> /\ script' = s /\ tool' = t /\ captured' = <<>> /\ slices' = Slices
      /\ sessions < MaxSessions /\ sessions' = sessions + 1
      /\ UNCHANGED <<xfer, tx, rx, line, printed>>
      /\ g' = [g EXCEPT !.typed = @ \o cs, !.base = printed, !.dropped = {},
                        !.cut = @ \/ cs[Len(cs)] \in LongCommands]
    BY DEF Session!Start, Session!board
<1>2. s \in Seq(Acts)
    BY ScriptsTyped
<1>3. g \in Ghosts /\ printed \in Nat /\ g.typed \o cs \in Seq(Names)
  <2>1. g.typed \in Seq(Names)
      BY DEF Typed, Ghosts
  <2> QED BY <2>1, ConcatProperties DEF Typed, Session!TypeOK
<1>4. /\ g' \in Ghosts /\ g'.typed = g.typed \o cs /\ g'.done = g.done /\ g'.base = printed
      /\ g'.cut = (g.cut \/ cs[Len(cs)] \in LongCommands)
  <2> DEFINE long == cs[Len(cs)] \in LongCommands
             typing == g.typed \o cs
  <2>1. long \in BOOLEAN /\ typing \in Seq(Names)
      BY <1>3
  <2>2. g' = [g EXCEPT !.typed = typing, !.base = printed, !.dropped = {}, !.cut = g.cut \/ long]
      BY <1>1
  <2> HIDE DEF long, typing
  <2>3. /\ g' \in Ghosts /\ g'.typed = typing /\ g'.done = g.done /\ g'.base = printed
        /\ g'.cut = (g.cut \/ long)
      BY <1>3, <2>1, <2>2 DEF Ghosts
  <2> QED BY <2>3 DEF long, typing
<1>5. Typed'
  <2>1. tool' \in {"none", "cmd", "dump", "host"} /\ slices' \in 0..Slices /\ sessions' \in 0..MaxSessions
      BY <1>1 DEF Typed, Session!TypeOK, Session!SessionAssumption
  <2>2. script' \in Seq(Acts) /\ captured' \in Seq(Nat)
      BY <1>1, <1>2
  <2> QED BY <1>1, <1>4, <2>1, <2>2 DEF Typed, Session!TypeOK, Session!Packet, Pieces, Session!NL, Acts, Sends,
                Session!Listen, Session!Drain, Session!Send, Ghosts
<1>6. Capturing'
    BY <1>1, <1>4, StartCarries
<1>7. Commanding'
  <2>1. CASE g'.cut
      BY <2>1 DEF Commanding
  <2>2. CASE ~g'.cut
    <3>1. ~g.cut /\ cs[Len(cs)] \notin LongCommands
        BY <1>4, <2>2
    <3>2. \A c : cs = <<c>> => c \notin LongCommands
        BY <3>1
    <3>3. \/ \E c \in Commands : c \notin LongCommands /\ cs = <<c>>
                                 /\ s \in {Session!CmdScript(c), Session!HostScript(c)}
          \/ cs = <<"ID", "DUMP">> /\ s = Session!DumpScript
        BY <3>2
    <3> QED BY <1>1, <1>4, <3>1, <3>3, StartPlans
  <2> QED BY <2>1, <2>2
<1> QED BY <1>5, <1>6, <1>7

\* A transfer of a window ends or goes on.
LEMMA ListenPlans ==
    ASSUME Typed, Commanding, Session!Listening, script' \in {script, Tail(script)}, UNCHANGED <<rx, line>>,
           g'.typed = g.typed, g'.done = g.done, g'.cut = g.cut
    PROVE  Commanding'
<1> SUFFICES ASSUME ~g.cut PROVE Commanding'
    BY DEF Commanding
<1>1. Planned /\ Queued(line \o rx, g.typed, Len(g.done), Len(g.typed) - Unsent) /\ Len(line) <= 2
      /\ \A i \in 1..Len(g.done) : g.done[i] = g.typed[i]
    BY DEF Commanding
<1>2. script # <<>> /\ Head(script) \in Listens
    BY DEF Session!Listening, Listens
<1>3. Planned' /\ Unsent' = Unsent
  <2>1. CASE script' = script
      BY <1>1, <2>1 DEF Planned, Unsent, Listens, Session!Listen, Session!Drain, Session!Send, LineOf,
                        Session!Whole, Session!Piece, Session!NL
  <2>2. CASE script' = Tail(script)
      BY <1>1, <1>2, <2>2, PlanAdvances
  <2> QED BY <2>1, <2>2
<1>4. Queued(line \o rx, g.typed, Len(g.done), Len(g.typed) - Unsent)'
    BY <1>1, <1>3
<1> QED BY <1>1, <1>3, <1>4 DEF Commanding

LEMMA WindowTypes ==
    ASSUME Session!SessionAssumption, Typed, Session!Listening, Session!NextSlice
    PROVE  /\ script' \in Seq(Acts) /\ slices' \in 0..Slices
           /\ xfer' = <<>> /\ script' \in {script, Tail(script)}
<1>1. script \in Seq(Acts) /\ script # <<>> /\ slices \in 0..Slices /\ Slices \in Nat
    BY DEF Typed, Session!Listening, Session!TypeOK, Session!SessionAssumption
<1> QED BY <1>1 DEF Session!NextSlice

LEMMA ArriveKeeps ==
    ASSUME Session!SessionAssumption, SessionInv, Session!Arrive
    PROVE  SessionInv'
<1> USE DEF SessionInv
<1>1. /\ Session!Listening /\ tx # <<>> /\ tx' = Tail(tx) /\ UNCHANGED <<tool, sessions, rx, line, printed, g>>
    BY DEF Session!Arrive
<1>2. /\ Carried' = Carried /\ captured' \in Seq(Nat)
      /\ xfer' \in Seq(Session!Packet) /\ tx' \in Seq(Session!Packet)
    BY ArriveCarries
<1>3. /\ script' \in Seq(Acts) /\ slices' \in 0..Slices /\ script' \in {script, Tail(script)}
      /\ Len(xfer') < PerTransfer /\ \A i \in 1..Len(xfer') : ~xfer'[i].short
  <2> DEFINE p == Head(tx)
             full == Append(xfer, p)
  <2>1. CASE p.short \/ Len(full) = PerTransfer
    <3>1. Session!NextSlice
        BY <2>1 DEF Session!Arrive
    <3>2. xfer' = <<>> /\ PerTransfer \in Nat \ {0}
        BY <3>1 DEF Session!NextSlice, Session!SessionAssumption
    <3>3. Len(xfer') = 0
        BY <3>2
    <3> QED BY <1>1, <3>1, <3>2, <3>3, WindowTypes
  <2>2. CASE ~(p.short \/ Len(full) = PerTransfer)
    <3>1. xfer' = full /\ UNCHANGED <<slices, script>>
        BY <2>2 DEF Session!Arrive
    <3>2. xfer \in Seq(Session!Packet) /\ p \in Session!Packet /\ Len(xfer) < PerTransfer
          /\ \A i \in 1..Len(xfer) : ~xfer[i].short
        BY <1>1, NumbersHead DEF Typed, Session!TypeOK
    <3>3. PerTransfer \in Nat
        BY DEF Session!SessionAssumption
    <3>4. ~p.short /\ Len(full) # PerTransfer
        BY <2>2
    <3> HIDE DEF p
    <3>5. Len(full) = Len(xfer) + 1 /\ Len(xfer) \in Nat
          /\ \A i \in 1..(Len(xfer) + 1) : full[i] = IF i <= Len(xfer) THEN xfer[i] ELSE p
        BY <3>2
    <3> HIDE DEF full
    <3>6. \A i \in 1..Len(full) : ~full[i].short
        BY <3>2, <3>4, <3>5
    <3> QED BY <3>1, <3>2, <3>3, <3>4, <3>5, <3>6 DEF Typed, Session!TypeOK
  <2> QED BY <2>1, <2>2
<1>4. Typed'
  <2>1. \A i \in 1..Len(xfer') : xfer'[i] \in Session!Packet
      BY <1>2
  <2>2. \A i \in 1..Len(tx') : tx'[i] \in Session!Packet
      BY <1>2
  <2> QED BY <1>1, <1>2, <1>3, <2>1, <2>2
          DEF Typed, Session!TypeOK, Session!Packet, Pieces, Session!NL, Acts, Sends,
                Session!Listen, Session!Drain, Session!Send, Ghosts
<1>5. Capturing'
    BY <1>1, <1>2 DEF Capturing, Increasing
<1>6. Commanding'
    BY <1>1, <1>3, ListenPlans
<1> QED BY <1>4, <1>5, <1>6

LEMMA TimesOutKeeps ==
    ASSUME Session!SessionAssumption, SessionInv, Session!TimesOut
    PROVE  SessionInv'
<1> USE DEF SessionInv
<1>1. Session!Listening /\ Session!NextSlice /\ UNCHANGED <<tool, sessions, tx, rx, line, printed>>
    BY DEF Session!TimesOut, Session!board
<1>2. Capturing' /\ captured' \in Seq(Nat)
    BY TimesOutCarries
<1>3. script' \in Seq(Acts) /\ slices' \in 0..Slices /\ xfer' = <<>> /\ script' \in {script, Tail(script)}
    BY <1>1, WindowTypes
<1>4. g' \in Ghosts /\ g'.typed = g.typed /\ g'.done = g.done /\ g'.cut = g.cut
  <2>1. g \in Ghosts /\ {xfer[i].no : i \in 1..Len(xfer)} \subseteq Nat
      BY NumbersAre DEF Typed
  <2>2. g' = g \/ g' = [g EXCEPT !.dropped = @ \cup {xfer[i].no : i \in 1..Len(xfer)}]
      BY DEF Session!TimesOut
  <2> QED BY <2>1, <2>2 DEF Ghosts
<1>5. Typed'
  <2>1. Len(xfer') = 0 /\ xfer' \in Seq(Session!Packet) /\ Len(xfer') < PerTransfer
    <3>1. PerTransfer \in Nat \ {0}
        BY DEF Session!SessionAssumption
    <3> QED BY <1>3, <3>1
  <2> QED BY <1>1, <1>2, <1>3, <1>4, <2>1
          DEF Typed, Session!TypeOK, Session!Packet, Pieces, Session!NL, Acts, Sends,
                Session!Listen, Session!Drain, Session!Send, Ghosts
<1>6. Commanding'
    BY <1>1, <1>3, <1>4, ListenPlans
<1> QED BY <1>2, <1>5, <1>6

LEMMA SendTextKeeps ==
    ASSUME Session!SessionAssumption, SessionInv, Session!SendText
    PROVE  SessionInv'
<1> USE DEF SessionInv
<1> DEFINE text == Head(script)[2]
<1>1. /\ script # <<>> /\ Head(script)[1] = "send" /\ script' = Tail(script)
      /\ UNCHANGED <<tool, slices, xfer, captured, sessions, tx, line, printed>>
    BY DEF Session!SendText
<1>2. /\ Head(script) \in Acts /\ Tail(script) \in Seq(Acts) /\ text \in Seq(Pieces)
      /\ Head(script) = Session!Send(text)
  <2>1. Head(script) \in Acts /\ Tail(script) \in Seq(Acts)
      BY <1>1 DEF Typed
  <2> QED BY <1>1, <2>1, ActIs
<1>3. PICK n \in 0..Len(text) :
        /\ rx' = rx \o SubSeq(text, 1, n)
        /\ g' = [g EXCEPT !.cut = @ \/ n < Len(text)]
  <2>1. \E n \in IF MaySplit THEN 0..Len(text) ELSE {Len(text)} :
           /\ rx' = rx \o SubSeq(text, 1, n)
           /\ g' = [g EXCEPT !.cut = @ \/ n < Len(text)]
      BY DEF Session!SendText
  <2>2. Len(text) \in 0..Len(text)
    <3>1. Len(text) \in Nat
        BY <1>2
    <3> QED BY <3>1
  <2> QED BY <2>1, <2>2
<1> HIDE DEF text
<1>4. rx' \in Seq(Pieces)
  <2>1. SubSeq(text, 1, n) \in Seq(Pieces)
      BY <1>2, SubSeqProperties
  <2> QED BY <1>3, <2>1, ConcatProperties DEF Typed
<1>5. /\ g' \in Ghosts /\ g'.typed = g.typed /\ g'.done = g.done /\ g'.base = g.base /\ g'.dropped = g.dropped
      /\ g'.cut = (g.cut \/ n < Len(text))
    BY <1>3 DEF Typed, Ghosts
<1>6. Typed'
    BY <1>1, <1>2, <1>4, <1>5
          DEF Typed, Session!TypeOK, Session!Packet, Pieces, Session!NL, Acts, Sends,
                Session!Listen, Session!Drain, Session!Send, Ghosts
<1>7. Capturing'
  <2>1. Carried' = Carried
      BY <1>1 DEF Carried, Session!Numbers
  <2> QED BY <1>1, <1>5, <2>1 DEF Capturing, Increasing
<1>8. Commanding'
  <2> SUFFICES ASSUME ~g'.cut PROVE Commanding'
      BY DEF Commanding
  <2>1. ~g.cut /\ n = Len(text)
    <3>1. Len(text) \in Nat
        BY <1>2
    <3>2. ~g.cut /\ ~(n < Len(text))
        BY <1>5, Zenon
    <3> QED BY <3>1, <3>2
  <2>2. rx' = rx \o text
    <3>1. SubSeq(text, 1, n) = text
        BY <1>2, <2>1, SubSeqFull
    <3> QED BY <1>3, <3>1
  <2>3. Planned /\ Queued(line \o rx, g.typed, Len(g.done), Len(g.typed) - Unsent) /\ Len(line) <= 2
        /\ \A i \in 1..Len(g.done) : g.done[i] = g.typed[i]
      BY <2>1 DEF Commanding
  <2>4. Head(script) \notin Listens
      BY <1>1, ActIs DEF Listens
  <2>5. /\ Planned' /\ Unsent >= 1 /\ Unsent <= Len(g.typed) /\ Unsent' = Unsent - 1
        /\ Head(script) = Session!Send(LineOf(g.typed[Len(g.typed) - Unsent + 1]))
      BY <1>1, <1>5, <2>3, <2>4, PlanAdvances
  <2> DEFINE m == Len(g.typed) - Unsent
             d == Len(g.done)
  <2>6. m \in Nat /\ m < Len(g.typed) /\ d \in Nat /\ Len(g'.typed) - Unsent' = m + 1
    <3>1. Len(g.typed) \in Nat /\ Unsent \in Nat /\ d \in Nat
        BY DEF Typed, Ghosts, Unsent
    <3> QED BY <1>5, <2>5, <3>1
  <2>7. text = LineOf(g.typed[m + 1])
    <3>1. LineOf(g.typed[m + 1]) \in Seq(Pieces)
      <4>1. g.typed \in Seq(Names) /\ m + 1 \in 1..Len(g.typed)
          BY <2>6 DEF Typed, Ghosts
      <4> QED BY <4>1, LineIs
    <3>2. Session!Send(text) = Session!Send(LineOf(g.typed[m + 1]))
        BY <1>2, <2>5
    <3> QED BY <1>2, <3>1, <3>2, ActIs
  <2>8. Queued(line \o rx, g.typed, d, m)
      BY <2>3
  <2>9. line \o rx \in Seq(Pieces) /\ g.typed \in Seq(Names)
      BY ConcatProperties DEF Typed, Ghosts
  <2>10. (line \o rx)' = (line \o rx) \o text
    <3>1. line' \o rx' = line \o (rx \o text)
        BY <1>1, <2>2
    <3>2. line \in Seq(Pieces) /\ rx \in Seq(Pieces)
        BY DEF Typed
    <3> QED BY <1>2, <3>1, <3>2, ConcatAssociative
  <2> HIDE DEF m, d
  <2>11. Queued((line \o rx) \o text, g.typed, d, m + 1)
      BY <2>6, <2>7, <2>8, <2>9, LineIsQueued
  <2>12. Queued(line \o rx, g.typed, Len(g.done), Len(g.typed) - Unsent)'
      BY <1>5, <2>6, <2>10, <2>11 DEF d
  <2> QED BY <1>1, <1>5, <2>3, <2>5, <2>12 DEF Commanding
<1> QED BY <1>6, <1>7, <1>8

\* A step of the firmware does not touch the client's plan.
LEMMA PlanStays ==
    ASSUME UNCHANGED script, g'.typed = g.typed
    PROVE  (Planned' <=> Planned) /\ Unsent' = Unsent
BY DEF Planned, Unsent, Listens, Session!Listen, Session!Drain, Session!Send, LineOf,
       Session!Whole, Session!Piece, Session!NL

LEMMA ReadLineKeeps ==
    ASSUME Session!SessionAssumption, SessionInv, Session!ReadLine
    PROVE  SessionInv'
<1> USE DEF SessionInv
<1>1. /\ rx # <<>> /\ Head(rx) = Session!NL /\ rx' = Tail(rx) /\ line' = <<>>
      /\ g' = [g EXCEPT !.done = Append(@, Session!Executed)]
      /\ UNCHANGED <<tool, script, slices, xfer, captured, sessions>>
    BY DEF Session!ReadLine, Session!host
<1>2. PICK r \in Session!Answers : tx' = tx \o r /\ printed' = printed + Len(r)
    BY DEF Session!ReadLine
<1>3. Session!Executed \in Names \cup {"unknown"}
  <2>1. CASE \E c \in Names : line = Session!Whole(c)
    <3>1. PICK c \in Names : line = Session!Whole(c)
        BY <2>1
    <3>2. line[1][1] = c
        BY <3>1 DEF Session!Whole, Session!Piece
    <3> QED BY <2>1, <3>2 DEF Session!Executed, Names
  <2>2. CASE ~\E c \in Names : line = Session!Whole(c)
      BY <2>2 DEF Session!Executed, Names
  <2> QED BY <2>1, <2>2
<1>4. /\ g' \in Ghosts /\ g'.typed = g.typed /\ g'.base = g.base /\ g'.dropped = g.dropped /\ g'.cut = g.cut
      /\ g'.done = Append(g.done, Session!Executed)
  <2>1. g \in Ghosts /\ Append(g.done, Session!Executed) \in Seq(Names \cup {"unknown"})
      BY <1>3, AppendProperties DEF Typed, Ghosts
  <2> QED BY <1>1, <2>1 DEF Ghosts
<1>5. Capturing' /\ tx' \in Seq(Session!Packet) /\ printed' \in Nat
    BY <1>1, <1>2, <1>4, AnswerCarries
<1>6. Typed'
  <2>1. rx' \in Seq(Pieces) /\ line' \in Seq(Pieces) /\ Len(line') <= LineMax
    <3>1. LineMax \in Nat
        BY DEF Session!SessionAssumption
    <3> QED BY <1>1, <3>1 DEF Typed
  <2>2. \A i \in 1..Len(tx') : tx'[i] \in Session!Packet
      BY <1>5
  <2> QED BY <1>1, <1>4, <1>5, <2>1, <2>2
          DEF Typed, Session!TypeOK, Session!Packet, Pieces, Session!NL, Acts, Sends,
                Session!Listen, Session!Drain, Session!Send, Ghosts
<1>7. Commanding'
  <2> SUFFICES ASSUME ~g.cut PROVE Commanding'
      BY <1>4 DEF Commanding
  <2>1. Planned /\ Queued(line \o rx, g.typed, Len(g.done), Len(g.typed) - Unsent) /\ Len(line) <= 2
        /\ \A i \in 1..Len(g.done) : g.done[i] = g.typed[i]
      BY DEF Commanding
  <2>2. Planned' /\ Unsent' = Unsent
      BY <1>1, <1>4, <2>1, PlanStays
  <2> DEFINE d == Len(g.done)
             n == Len(g.typed) - Unsent
  <2>3. d \in Nat /\ n \in Nat /\ n <= Len(g.typed)
    <3>1. Len(g.typed) \in Nat /\ Unsent \in 0..2 /\ d \in Nat
        BY DEF Typed, Ghosts, Unsent
    <3>2. d <= n
        BY <2>1 DEF Queued
    <3> QED BY <3>1, <3>2
  <2>4. line \in Seq(Pieces) /\ rx \in Seq(Pieces) /\ g.typed \in Seq(Names)
      BY DEF Typed, Ghosts
  <2>5. Queued(line \o rx, g.typed, d, n)
      BY <2>1
  <2>6. g'.done \in Seq(Names \cup {"unknown"}) /\ Len(g'.done) = d + 1
        /\ g'.done[d + 1] = Session!Executed /\ \A i \in 1..d : g'.done[i] = g.done[i]
    <3>1. g.done \in Seq(Names \cup {"unknown"})
        BY DEF Typed, Ghosts
    <3> QED BY <1>3, <1>4, <3>1, AppendProperties
  <2> HIDE DEF d, n
  <2>7. d < n /\ Session!Executed = g.typed[d + 1] /\ Queued(Tail(rx), g.typed, d + 1, n)
      BY <1>1, <2>1, <2>3, <2>4, <2>5, LineIsExecuted
  <2>8. (line \o rx)' = Tail(rx)
    <3>1. line' \o rx' = <<>> \o Tail(rx) /\ Tail(rx) \in Seq(Pieces)
        BY <1>1, <2>4
    <3> QED BY <3>1, ConcatEmptySeq
  <2>9. Len(g'.typed) - Unsent' = n
      BY <1>4, <2>2 DEF n
  <2>10. Queued(line \o rx, g.typed, Len(g.done), Len(g.typed) - Unsent)'
      BY <1>4, <2>6, <2>7, <2>8, <2>9
  <2>11. \A i \in 1..Len(g'.done) : g'.done[i] = g'.typed[i]
    <3>1. \A i \in 1..(d + 1) : i \in 1..d \/ i = d + 1
        BY <2>3
    <3>2. \A i \in 1..d : g'.done[i] = g.typed[i]
        BY <2>1, <2>6 DEF d
    <3> QED BY <1>4, <2>6, <2>7, <3>1, <3>2
  <2>12. Len(line') <= 2
      BY <1>1
  <2> QED BY <2>2, <2>10, <2>11, <2>12 DEF Commanding
<1> QED BY <1>5, <1>6, <1>7

LEMMA ReadTextKeeps ==
    ASSUME Session!SessionAssumption, SessionInv, Session!ReadText
    PROVE  SessionInv'
<1> USE DEF SessionInv
<1>1. /\ rx # <<>> /\ Head(rx) # Session!NL /\ rx' = Tail(rx)
      /\ line' = (IF Len(line) < LineMax THEN Append(line, Head(rx)) ELSE line)
      /\ UNCHANGED <<tx, printed, g, tool, script, slices, xfer, captured, sessions>>
    BY DEF Session!ReadText, Session!host
<1>2. line \in Seq(Pieces) /\ rx \in Seq(Pieces) /\ g \in Ghosts /\ LineMax \in Nat /\ LineMax >= 2
      /\ Len(line) <= LineMax
    BY DEF Typed, Session!SessionAssumption, Session!TypeOK
<1>3. Head(rx) \in Pieces /\ Tail(rx) \in Seq(Pieces)
    BY <1>1, <1>2
<1>4. line' \in Seq(Pieces) /\ Len(line') <= LineMax
  <2>1. /\ Append(line, Head(rx)) \in Seq(Pieces) /\ Len(Append(line, Head(rx))) = Len(line) + 1
        /\ Len(line) \in Nat
      BY <1>2, <1>3, AppendProperties
  <2> QED BY <1>1, <1>2, <2>1
<1>5. Typed'
    BY <1>1, <1>3, <1>4
          DEF Typed, Session!TypeOK, Session!Packet, Pieces, Session!NL, Acts, Sends,
                Session!Listen, Session!Drain, Session!Send, Ghosts
<1>6. Capturing'
  <2>1. Carried' = Carried
      BY <1>1 DEF Carried, Session!Numbers
  <2> QED BY <1>1, <2>1 DEF Capturing, Increasing
<1>7. Commanding'
  <2> SUFFICES ASSUME ~g.cut PROVE Commanding'
      BY <1>1 DEF Commanding
  <2>1. Planned /\ Queued(line \o rx, g.typed, Len(g.done), Len(g.typed) - Unsent) /\ Len(line) <= 2
        /\ \A i \in 1..Len(g.done) : g.done[i] = g.typed[i]
      BY DEF Commanding
  <2>2. Planned' /\ Unsent' = Unsent
      BY <1>1, <2>1, PlanStays
  <2> DEFINE d == Len(g.done)
             n == Len(g.typed) - Unsent
  <2>3. d \in Nat /\ n \in Nat
    <3>1. Len(g.typed) \in Nat /\ Unsent \in 0..2 /\ d \in Nat
        BY DEF Typed, Ghosts, Unsent
    <3>2. d <= n
        BY <2>1 DEF Queued
    <3> QED BY <3>1, <3>2
  <2>4. g.typed \in Seq(Names) /\ Queued(line \o rx, g.typed, d, n)
      BY <1>2, <2>1 DEF Ghosts
  <2> HIDE DEF d, n
  <2>5. Len(line) <= 1
      BY <1>1, <1>2, <2>1, <2>3, <2>4, TextIsRead
  <2>6. line' = Append(line, Head(rx)) /\ Len(line') <= 2
    <3>1. Len(line) \in Nat /\ Len(Append(line, Head(rx))) = Len(line) + 1
        BY <1>2
    <3> QED BY <1>1, <1>2, <2>5, <3>1
  <2>7. (line \o rx)' = line \o rx
    <3> DEFINE h == <<Head(rx)>>
               t == Tail(rx)
    <3>1. h \in Seq(Pieces) /\ t \in Seq(Pieces)
        BY <1>3
    <3>2. line' = line \o h
        BY <1>2, <1>3, <2>6, AppendIsConcat
    <3>3. rx = h \o t
        BY <1>1, <1>2, ConcatProperties, HeadTailProperties, SeqEqual, <3>1
    <3>4. rx' = t
        BY <1>1
    <3> HIDE DEF h, t
    <3>5. (line \o h) \o t = line \o (h \o t)
        BY <1>2, <3>1, ConcatAssociative
    <3> QED BY <3>2, <3>3, <3>4, <3>5
  <2>8. Queued(line \o rx, g.typed, Len(g.done), Len(g.typed) - Unsent)'
      BY <1>1, <2>1, <2>2, <2>7
  <2> QED BY <1>1, <2>1, <2>2, <2>6, <2>8 DEF Commanding
<1> QED BY <1>5, <1>6, <1>7

LEMMA SessionStarts ==
    ASSUME Session!SessionAssumption, Session!Init
    PROVE  SessionInv
<1> USE DEF Session!Init
<1>1. Typed
  <2>1. <<>> \in Seq(Acts) /\ <<>> \in Seq(Pieces) /\ <<>> \in Seq(Session!Packet) /\ <<>> \in Seq(Nat)
        /\ <<>> \in Seq(Names) /\ <<>> \in Seq(Names \cup {"unknown"}) /\ Len(<<>>) = 0
      OBVIOUS
  <2>2. g \in Ghosts
      BY <2>1 DEF Ghosts
  <2>3. Session!TypeOK
      BY DEF Session!TypeOK, Session!SessionAssumption
  <2> QED BY <2>1, <2>2, <2>3 DEF Typed
<1>2. Capturing
  <2>1. Carried = <<>>
    <3>1. <<>> \in Seq(Nat)
        OBVIOUS
    <3> QED BY <3>1, NumbersNone, ConcatEmptySeq DEF Carried
  <2>2. Increasing(Carried) /\ Range(Carried) = {}
      BY <2>1 DEF Increasing, Range
  <2> QED BY <2>2 DEF Capturing
<1>3. Commanding
  <2>1. Planned /\ Unsent = 0
      BY DEF Planned, Unsent
  <2>2. line \o rx = <<>>
    <3>1. <<>> \in Seq(Pieces)
        OBVIOUS
    <3> QED BY <3>1, ConcatEmptySeq
  <2>3. Queued(line \o rx, g.typed, Len(g.done), Len(g.typed) - Unsent)
      BY <2>1, <2>2 DEF Queued
  <2> QED BY <2>1, <2>3 DEF Commanding
<1> QED BY <1>1, <1>2, <1>3 DEF SessionInv

LEMMA SessionSteps ==
    ASSUME Session!SessionAssumption, SessionInv, [Session!Next]_Session!vars
    PROVE  SessionInv'
<1>1. ASSUME NEW c \in Commands, Session!StartCmd(c) \/ Session!StartHost(c)
      PROVE  SessionInv'
  <2>1. <<c>> \in Seq(Names)
      BY DEF Names
  <2>2. CASE Session!StartCmd(c)
      BY <2>1, <2>2, StartKeeps DEF Session!StartCmd
  <2>3. CASE Session!StartHost(c)
      BY <2>1, <2>3, StartKeeps DEF Session!StartHost
  <2> QED BY <1>1, <2>2, <2>3
<1>2. CASE Session!StartDump
  <2>1. <<"ID", "DUMP">> \in Seq(Names)
      BY DEF Names
  <2> QED BY <1>2, <2>1, StartKeeps DEF Session!StartDump
<1>3. CASE Session!Arrive
    BY <1>3, ArriveKeeps
<1>4. CASE Session!TimesOut
    BY <1>4, TimesOutKeeps
<1>5. CASE Session!SendText
    BY <1>5, SendTextKeeps
<1>6. CASE Session!ReadLine
    BY <1>6, ReadLineKeeps
<1>7. CASE Session!ReadText
    BY <1>7, ReadTextKeeps
<1>8. CASE UNCHANGED Session!vars
  <2>1. /\ UNCHANGED <<tool, script, slices, xfer, captured>> /\ UNCHANGED <<tx, rx, line, printed>>
        /\ UNCHANGED <<sessions, g>>
      BY <1>8 DEF Session!vars
  <2>2. Typed'
      BY <2>1 DEF SessionInv, Typed, Session!TypeOK, Session!Packet, Pieces, Session!NL, Acts, Sends,
                Session!Listen, Session!Drain, Session!Send, Ghosts
  <2>3. Capturing'
    <3>1. Carried' = Carried
        BY <2>1 DEF Carried, Session!Numbers
    <3> QED BY <2>1, <3>1 DEF SessionInv, Capturing, Increasing
  <2>4. Commanding'
    <3>1. (Planned' <=> Planned) /\ Unsent' = Unsent
        BY <2>1, PlanStays
    <3> QED BY <2>1, <3>1 DEF SessionInv, Commanding
  <2> QED BY <2>2, <2>3, <2>4 DEF SessionInv
<1> QED BY <1>1, <1>2, <1>3, <1>4, <1>5, <1>6, <1>7, <1>8 DEF Session!Next

LEMMA SessionInvImplies ==
    ASSUME SessionInv
    PROVE  Session!TypeOK /\ Session!CaptureExact /\ Session!CommandsWhole
<1> USE DEF SessionInv
<1> DEFINE a == captured
           b == Session!Numbers(xfer)
           c == Session!Numbers(tx)
<1>1. /\ a \in Seq(Nat) /\ a \o b \in Seq(Nat) /\ c \in Seq(Nat) /\ b \in Seq(Nat)
      /\ Carried = (a \o b) \o c /\ Range(Carried) = Range(a) \cup Range(b) \cup Range(c)
    BY CarriedIs DEF Carried
<1>2. Increasing(a)
  <2>1. Increasing(a \o b)
      BY <1>1, Joined DEF Capturing
  <2> QED BY <1>1, <2>1, Joined
<1>3. /\ Range(a) = Session!CapturedSet /\ Range(b) \cup Range(c) = Session!Waiting
  <2>1. Range(a) = Session!CapturedSet
      BY <1>1, RangeIs DEF Session!CapturedSet
  <2>2. Range(b) = {xfer[i].no : i \in 1..Len(xfer)} /\ Range(c) = {tx[i].no : i \in 1..Len(tx)}
      BY NumbersAre DEF Typed
  <2> QED BY <2>1, <2>2 DEF Session!Waiting
<1>4. Session!CaptureExact
  <2>1. (g.base + 1)..printed \subseteq Session!CapturedSet \cup Session!Waiting \cup g.dropped
      BY <1>1, <1>3 DEF Capturing
  <2>2. \A i, j \in 1..Len(captured) : i < j => captured[i] < captured[j]
      BY <1>2 DEF Increasing
  <2> QED BY <2>1, <2>2 DEF Session!CaptureExact
<1>5. Session!CommandsWhole
  <2> SUFFICES ASSUME ~g.cut
               PROVE  Len(g.done) <= Len(g.typed) /\ \A i \in 1..Len(g.done) : g.done[i] = g.typed[i]
      BY DEF Session!CommandsWhole
  <2>1. Len(g.done) <= Len(g.typed) - Unsent /\ \A i \in 1..Len(g.done) : g.done[i] = g.typed[i]
      BY DEF Commanding, Queued
  <2>2. Len(g.done) \in Nat /\ Len(g.typed) \in Nat /\ Unsent \in Nat
      BY DEF Typed, Ghosts, Unsent
  <2> QED BY <2>1, <2>2
<1> QED BY <1>4, <1>5 DEF Typed

-----------------------------------------------------------------------------
\* The clients beside the host model, as the run checks them.
LEMMA ConsoleParts ==
    /\ ConsoleInit => Session!Init
    /\ [ConsoleNext]_<<part, vars, sessionVars>> => [Session!Next]_(Session!vars)
BY DEF ConsoleInit, ConsoleNext, sessionVars, Session!vars

(***************************************************************************)
(* The whole property of the console's clients, for every window, transfer *)
(* and line length and any number of clients one after another: what a     *)
(* client writes is what the board printed, in order, but for transfers    *)
(* that timed out; and the board executes whole the commands that were     *)
(* typed, as long as none was cut.                                         *)
(***************************************************************************)
THEOREM ConsoleIsExact == ConsoleSpec => []SessionExact
<1>1. Session!SessionAssumption
    BY ConsoleAssumption DEF ConsoleAssumption
<1>2. ConsoleInit => SessionInv
    BY <1>1, ConsoleParts, SessionStarts
<1>3. SessionInv /\ [ConsoleNext]_<<part, vars, sessionVars>> => SessionInv'
    BY <1>1, ConsoleParts, SessionSteps
<1>4. SessionInv => SessionExact
    BY SessionInvImplies DEF SessionExact
<1> QED BY <1>2, <1>3, <1>4, PTL DEF ConsoleSpec

-----------------------------------------------------------------------------
\* ssos_model: the coordinates of the texts, and the places of the examples.

\* The sum that embed normalises by, without its recursion.
LEMMA SumIs ==
    ASSUME NEW words, \A a \in Axes : Count(words, a) \in Nat
    PROVE  SumOfSquares(words) =
             Count(words, 1) * Count(words, 1) + Count(words, 2) * Count(words, 2)
               + Count(words, 3) * Count(words, 3) + Count(words, 4) * Count(words, 4)
               + Count(words, 5) * Count(words, 5) + Count(words, 6) * Count(words, 6)
               + Count(words, 7) * Count(words, 7) + Count(words, 8) * Count(words, 8)
               + Count(words, 9) * Count(words, 9)
<1> DEFINE q(a) == Count(words, a) * Count(words, a)
           s1 == q(1)
           s2 == s1 + q(2)
           s3 == s2 + q(3)
           s4 == s3 + q(4)
           s5 == s4 + q(5)
           s6 == s5 + q(6)
           s7 == s6 + q(7)
           s8 == s7 + q(8)
           s9 == s8 + q(9)
           w == [a \in 0..9 |-> IF a = 0 THEN 0 ELSE IF a = 1 THEN s1 ELSE IF a = 2 THEN s2
                                ELSE IF a = 3 THEN s3 ELSE IF a = 4 THEN s4 ELSE IF a = 5 THEN s5
                                ELSE IF a = 6 THEN s6 ELSE IF a = 7 THEN s7 ELSE IF a = 8 THEN s8 ELSE s9]
           sum == CHOOSE f : f = [a \in 0..9 |-> IF a = 0 THEN 0 ELSE f[a - 1] + q(a)]
<1>1. \A a \in Axes : q(a) \in Nat
    BY DEF Axes
<1> HIDE DEF q
<1>2. w = [a \in 0..9 |-> IF a = 0 THEN 0 ELSE w[a - 1] + q(a)]
    BY <1>1 DEF Axes
<1>3. sum = [a \in 0..9 |-> IF a = 0 THEN 0 ELSE sum[a - 1] + q(a)]
    BY <1>2
<1>4. SumOfSquares(words) = sum[9]
    BY Zenon DEF SumOfSquares, q
<1> HIDE DEF sum
<1>5. sum[0] = 0 /\ \A a \in Axes : sum[a] = sum[a - 1] + q(a)
    BY <1>3 DEF Axes
<1>6. sum[9] = q(1) + q(2) + q(3) + q(4) + q(5) + q(6) + q(7) + q(8) + q(9)
    BY <1>1, <1>5 DEF Axes
<1> QED BY <1>4, <1>6 DEF q

\* A text whose stems belong to one or two axes.
LEMMA CoordIs ==
    ASSUME NEW words, NEW a \in Axes, NEW b \in Axes, a # b,
           NEW m \in Nat \ {0}, Count(words, a) = m, NEW n \in Nat, Count(words, b) = n,
           \A c \in Axes \ {a, b} : Count(words, c) = 0
    PROVE  Coord(words) = [c \in Axes |-> Tenfold(IF c = a THEN m ELSE IF c = b THEN n ELSE 0, m * m + n * n)]
<1> DEFINE q(c) == Count(words, c) * Count(words, c)
           mm == m * m
           nn == n * n
<1>1. \A c \in Axes : Count(words, c) \in Nat
    OBVIOUS
<1>2. q(a) = mm /\ q(b) = nn /\ \A c \in Axes \ {a, b} : q(c) = 0
    OBVIOUS
<1>3. SumOfSquares(words) = q(1) + q(2) + q(3) + q(4) + q(5) + q(6) + q(7) + q(8) + q(9)
    BY <1>1, SumIs
<1>4. mm \in Nat /\ mm > 0 /\ nn \in Nat
    OBVIOUS
<1> HIDE DEF q, mm, nn
<1>5. a \in 1..9 /\ b \in 1..9 /\ \A c \in 1..9 : c # a /\ c # b => q(c) = 0
    BY <1>2 DEF Axes
<1>6. SumOfSquares(words) = mm + nn
    BY <1>2, <1>3, <1>4, <1>5
<1>7. SumOfSquares(words) # 0
    BY <1>4, <1>6
<1> QED BY <1>6, <1>7 DEF Coord, mm, nn

\* The rounded ratios that occur.
LEMMA TenfoldIs ==
    /\ Tenfold(3, 10) = 9 /\ Tenfold(1, 10) = 3 /\ Tenfold(3, 9) = 10
    /\ Tenfold(1, 5) = 4 /\ Tenfold(2, 5) = 9 /\ Tenfold(2, 8) = 7
    /\ Tenfold(0, 10) = 0 /\ Tenfold(0, 9) = 0 /\ Tenfold(0, 5) = 0 /\ Tenfold(0, 8) = 0
<1>1. 0..10 = {0, 1, 2, 3, 4, 5, 6, 7, 8, 9, 10}
    OBVIOUS
<1> USE <1>1
<1>2. Tenfold(3, 10) = 9 /\ Tenfold(1, 10) = 3
    BY DEF Tenfold
<1>3. Tenfold(3, 9) = 10
    BY DEF Tenfold
<1>4. Tenfold(1, 5) = 4 /\ Tenfold(2, 5) = 9
    BY DEF Tenfold
<1>5. Tenfold(2, 8) = 7
    BY DEF Tenfold
<1>6. Tenfold(0, 10) = 0 /\ Tenfold(0, 9) = 0 /\ Tenfold(0, 5) = 0 /\ Tenfold(0, 8) = 0
    BY DEF Tenfold
<1> QED BY <1>2, <1>3, <1>4, <1>5, <1>6

\* The tables, line by line.
LEMMA StemsAre ==
    /\ Stems[1] = {"boot", "efi", "rom", "startup", "loader"}
    /\ Stems[2] = {"kernel", "firmware", "image", "slot"}
    /\ Stems[3] = {"readme", "spec", "architecture", "charter", "document"}
    /\ Stems[4] = {"report", "text", "notes", "contract"}
    /\ Stems[5] = {"sensor", "payload", "bytes", "blob", "body"}
    /\ Stems[6] = {"opaque", "swap", "model"}
    /\ Stems[7] = {"journal", "note", "memo", "reminder", "card"}
    /\ Stems[8] = {"write", "send", "read"}
    /\ Stems[9] = {"short", "nine", "all"}
BY DEF Stems

\* Small sets.
LEMMA None == Cardinality({}) = 0
BY FS_EmptySet

\* A set of one.
LEMMA Single == ASSUME NEW x PROVE IsFiniteSet({x}) /\ Cardinality({x}) = 1
BY FS_Singleton

\* A set of two.
LEMMA Pair ==
    ASSUME NEW x, NEW y, x # y
    PROVE  IsFiniteSet({x, y}) /\ Cardinality({x, y}) = 2
<1>1. {x, y} = {x} \cup {y} /\ y \notin {x}
    OBVIOUS
<1>2. IsFiniteSet({x}) /\ Cardinality({x}) = 1
    BY Single
<1>3. IsFiniteSet({x} \cup {y}) /\ Cardinality({x} \cup {y}) = Cardinality({x}) + 1
    BY <1>1, <1>2, FS_AddElement
<1> QED BY <1>1, <1>2, <1>3

\* A set of three.
LEMMA Triple ==
    ASSUME NEW x, NEW y, NEW z, x # y, x # z, y # z
    PROVE  Cardinality({x, y, z}) = 3
<1>1. {x, y, z} = {x, y} \cup {z} /\ z \notin {x, y}
    OBVIOUS
<1>2. Cardinality({x, y} \cup {z}) = Cardinality({x, y}) + 1
    BY <1>1, Pair, FS_AddElement
<1> QED BY <1>1, <1>2, Pair

\* Where embed places each of the twelve texts.
LEMMA Text1 == Coord({"efi", "kernel", "boot", "loader"}) = <<9, 3, 0, 0, 0, 0, 0, 0, 0>>
<1> DEFINE w == {"efi", "kernel", "boot", "loader"}
<1>1. /\ Stems[1] \cap w = {"efi", "boot", "loader"} /\ Stems[2] \cap w = {"kernel"}
      /\ \A c \in Axes \ {1, 2} : Stems[c] \cap w = {}
    BY StemsAre DEF Axes
<1>2. "efi" # "boot" /\ "efi" # "loader" /\ "boot" # "loader"
    OBVIOUS
<1>3. Cardinality({"efi", "boot", "loader"}) = 3
    BY <1>2, Triple
<1>4. Cardinality({"kernel"}) = 1
    BY Single
<1> HIDE DEF w
<1>5. Count(w, 1) = 3 /\ Count(w, 2) = 1 /\ \A c \in Axes \ {1, 2} : Count(w, c) = 0
    BY <1>1, <1>3, <1>4, None DEF Count
<1>6. Coord(w) = [c \in Axes |-> Tenfold(IF c = 1 THEN 3 ELSE IF c = 2 THEN 1 ELSE 0, 10)]
    BY <1>5, CoordIs DEF Axes
<1> QED BY <1>6, TenfoldIs DEF Axes, w

LEMMA Text2 == Coord({"boot", "image", "firmware", "slot"}) = <<3, 9, 0, 0, 0, 0, 0, 0, 0>>
<1> DEFINE w == {"boot", "image", "firmware", "slot"}
<1>1. /\ Stems[1] \cap w = {"boot"} /\ Stems[2] \cap w = {"image", "firmware", "slot"}
      /\ \A c \in Axes \ {1, 2} : Stems[c] \cap w = {}
    BY StemsAre DEF Axes
<1>2. Cardinality({"boot"}) = 1
    BY Single
<1>3. "image" # "firmware" /\ "image" # "slot" /\ "firmware" # "slot"
    OBVIOUS
<1>4. Cardinality({"image", "firmware", "slot"}) = 3
    BY <1>3, Triple
<1> HIDE DEF w
<1>5. Count(w, 1) = 1 /\ Count(w, 2) = 3 /\ \A c \in Axes \ {1, 2} : Count(w, c) = 0
    BY <1>1, <1>2, <1>4, None DEF Count
<1>6. Coord(w) = [c \in Axes |-> Tenfold(IF c = 1 THEN 1 ELSE IF c = 2 THEN 3 ELSE 0, 10)]
    BY <1>5, CoordIs DEF Axes
<1> QED BY <1>6, TenfoldIs DEF Axes, w

LEMMA Text3 == Coord({"startup", "boot", "rom"}) = <<10, 0, 0, 0, 0, 0, 0, 0, 0>>
<1> DEFINE w == {"startup", "boot", "rom"}
<1>1. /\ Stems[1] \cap w = {"startup", "boot", "rom"} /\ Stems[2] \cap w = {}
      /\ \A c \in Axes \ {1, 2} : Stems[c] \cap w = {}
    BY StemsAre DEF Axes
<1>2. "startup" # "boot" /\ "startup" # "rom" /\ "boot" # "rom"
    OBVIOUS
<1>3. Cardinality({"startup", "boot", "rom"}) = 3
    BY <1>2, Triple
<1> HIDE DEF w
<1>4. Count(w, 1) = 3 /\ Count(w, 2) = 0 /\ \A c \in Axes \ {1, 2} : Count(w, c) = 0
    BY <1>1, <1>3, None DEF Count
<1>5. Coord(w) = [c \in Axes |-> Tenfold(IF c = 1 THEN 3 ELSE IF c = 2 THEN 0 ELSE 0, 9)]
    BY <1>4, CoordIs DEF Axes
<1> QED BY <1>5, TenfoldIs DEF Axes, w

LEMMA Text4 == Coord({"readme", "architecture", "spec"}) = <<0, 0, 10, 0, 0, 0, 0, 0, 0>>
<1> DEFINE w == {"readme", "architecture", "spec"}
<1>1. /\ Stems[3] \cap w = {"readme", "architecture", "spec"} /\ Stems[1] \cap w = {}
      /\ \A c \in Axes \ {3, 1} : Stems[c] \cap w = {}
    BY StemsAre DEF Axes
<1>2. "readme" # "architecture" /\ "readme" # "spec" /\ "architecture" # "spec"
    OBVIOUS
<1>3. Cardinality({"readme", "architecture", "spec"}) = 3
    BY <1>2, Triple
<1> HIDE DEF w
<1>4. Count(w, 3) = 3 /\ Count(w, 1) = 0 /\ \A c \in Axes \ {3, 1} : Count(w, c) = 0
    BY <1>1, <1>3, None DEF Count
<1>5. Coord(w) = [c \in Axes |-> Tenfold(IF c = 3 THEN 3 ELSE IF c = 1 THEN 0 ELSE 0, 9)]
    BY <1>4, CoordIs DEF Axes
<1> QED BY <1>5, TenfoldIs DEF Axes, w

LEMMA Text5 == Coord({"document", "notes", "report"}) = <<0, 0, 4, 9, 0, 0, 0, 0, 0>>
<1> DEFINE w == {"document", "notes", "report"}
<1>1. /\ Stems[3] \cap w = {"document"} /\ Stems[4] \cap w = {"notes", "report"}
      /\ \A c \in Axes \ {3, 4} : Stems[c] \cap w = {}
    BY StemsAre DEF Axes
<1>2. Cardinality({"document"}) = 1
    BY Single
<1>3. "notes" # "report"
    OBVIOUS
<1>4. Cardinality({"notes", "report"}) = 2
    BY <1>3, Pair
<1> HIDE DEF w
<1>5. Count(w, 3) = 1 /\ Count(w, 4) = 2 /\ \A c \in Axes \ {3, 4} : Count(w, c) = 0
    BY <1>1, <1>2, <1>4, None DEF Count
<1>6. Coord(w) = [c \in Axes |-> Tenfold(IF c = 3 THEN 1 ELSE IF c = 4 THEN 2 ELSE 0, 5)]
    BY <1>5, CoordIs DEF Axes
<1> QED BY <1>6, TenfoldIs DEF Axes, w

LEMMA Text6 == Coord({"charter", "contract", "text"}) = <<0, 0, 4, 9, 0, 0, 0, 0, 0>>
<1> DEFINE w == {"charter", "contract", "text"}
<1>1. /\ Stems[3] \cap w = {"charter"} /\ Stems[4] \cap w = {"contract", "text"}
      /\ \A c \in Axes \ {3, 4} : Stems[c] \cap w = {}
    BY StemsAre DEF Axes
<1>2. Cardinality({"charter"}) = 1
    BY Single
<1>3. "contract" # "text"
    OBVIOUS
<1>4. Cardinality({"contract", "text"}) = 2
    BY <1>3, Pair
<1> HIDE DEF w
<1>5. Count(w, 3) = 1 /\ Count(w, 4) = 2 /\ \A c \in Axes \ {3, 4} : Count(w, c) = 0
    BY <1>1, <1>2, <1>4, None DEF Count
<1>6. Coord(w) = [c \in Axes |-> Tenfold(IF c = 3 THEN 1 ELSE IF c = 4 THEN 2 ELSE 0, 5)]
    BY <1>5, CoordIs DEF Axes
<1> QED BY <1>6, TenfoldIs DEF Axes, w

LEMMA Text7 == Coord({"sensor", "payload", "bytes"}) = <<0, 0, 0, 0, 10, 0, 0, 0, 0>>
<1> DEFINE w == {"sensor", "payload", "bytes"}
<1>1. /\ Stems[5] \cap w = {"sensor", "payload", "bytes"} /\ Stems[1] \cap w = {}
      /\ \A c \in Axes \ {5, 1} : Stems[c] \cap w = {}
    BY StemsAre DEF Axes
<1>2. "sensor" # "payload" /\ "sensor" # "bytes" /\ "payload" # "bytes"
    OBVIOUS
<1>3. Cardinality({"sensor", "payload", "bytes"}) = 3
    BY <1>2, Triple
<1> HIDE DEF w
<1>4. Count(w, 5) = 3 /\ Count(w, 1) = 0 /\ \A c \in Axes \ {5, 1} : Count(w, c) = 0
    BY <1>1, <1>3, None DEF Count
<1>5. Coord(w) = [c \in Axes |-> Tenfold(IF c = 5 THEN 3 ELSE IF c = 1 THEN 0 ELSE 0, 9)]
    BY <1>4, CoordIs DEF Axes
<1> QED BY <1>5, TenfoldIs DEF Axes, w

LEMMA Text8 == Coord({"swap", "test", "body", "blob"}) = <<0, 0, 0, 0, 9, 4, 0, 0, 0>>
<1> DEFINE w == {"swap", "test", "body", "blob"}
<1>1. /\ Stems[5] \cap w = {"body", "blob"} /\ Stems[6] \cap w = {"swap"}
      /\ \A c \in Axes \ {5, 6} : Stems[c] \cap w = {}
    BY StemsAre DEF Axes
<1>2. "body" # "blob"
    OBVIOUS
<1>3. Cardinality({"body", "blob"}) = 2
    BY <1>2, Pair
<1>4. Cardinality({"swap"}) = 1
    BY Single
<1> HIDE DEF w
<1>5. Count(w, 5) = 2 /\ Count(w, 6) = 1 /\ \A c \in Axes \ {5, 6} : Count(w, c) = 0
    BY <1>1, <1>3, <1>4, None DEF Count
<1>6. Coord(w) = [c \in Axes |-> Tenfold(IF c = 5 THEN 2 ELSE IF c = 6 THEN 1 ELSE 0, 5)]
    BY <1>5, CoordIs DEF Axes
<1> QED BY <1>6, TenfoldIs DEF Axes, w

LEMMA Text9 == Coord({"opaque", "model", "payload"}) = <<0, 0, 0, 0, 4, 9, 0, 0, 0>>
<1> DEFINE w == {"opaque", "model", "payload"}
<1>1. /\ Stems[5] \cap w = {"payload"} /\ Stems[6] \cap w = {"opaque", "model"}
      /\ \A c \in Axes \ {5, 6} : Stems[c] \cap w = {}
    BY StemsAre DEF Axes
<1>2. Cardinality({"payload"}) = 1
    BY Single
<1>3. "opaque" # "model"
    OBVIOUS
<1>4. Cardinality({"opaque", "model"}) = 2
    BY <1>3, Pair
<1> HIDE DEF w
<1>5. Count(w, 5) = 1 /\ Count(w, 6) = 2 /\ \A c \in Axes \ {5, 6} : Count(w, c) = 0
    BY <1>1, <1>2, <1>4, None DEF Count
<1>6. Coord(w) = [c \in Axes |-> Tenfold(IF c = 5 THEN 1 ELSE IF c = 6 THEN 2 ELSE 0, 5)]
    BY <1>5, CoordIs DEF Axes
<1> QED BY <1>6, TenfoldIs DEF Axes, w

LEMMA Text10 == Coord({"journal", "note", "memo"}) = <<0, 0, 0, 0, 0, 0, 10, 0, 0>>
<1> DEFINE w == {"journal", "note", "memo"}
<1>1. /\ Stems[7] \cap w = {"journal", "note", "memo"} /\ Stems[1] \cap w = {}
      /\ \A c \in Axes \ {7, 1} : Stems[c] \cap w = {}
    BY StemsAre DEF Axes
<1>2. "journal" # "note" /\ "journal" # "memo" /\ "note" # "memo"
    OBVIOUS
<1>3. Cardinality({"journal", "note", "memo"}) = 3
    BY <1>2, Triple
<1> HIDE DEF w
<1>4. Count(w, 7) = 3 /\ Count(w, 1) = 0 /\ \A c \in Axes \ {7, 1} : Count(w, c) = 0
    BY <1>1, <1>3, None DEF Count
<1>5. Coord(w) = [c \in Axes |-> Tenfold(IF c = 7 THEN 3 ELSE IF c = 1 THEN 0 ELSE 0, 9)]
    BY <1>4, CoordIs DEF Axes
<1> QED BY <1>5, TenfoldIs DEF Axes, w

LEMMA Text11 == Coord({"all", "nine", "note", "card"}) = <<0, 0, 0, 0, 0, 0, 7, 0, 7>>
<1> DEFINE w == {"all", "nine", "note", "card"}
<1>1. /\ Stems[7] \cap w = {"note", "card"} /\ Stems[9] \cap w = {"all", "nine"}
      /\ \A c \in Axes \ {7, 9} : Stems[c] \cap w = {}
    BY StemsAre DEF Axes
<1>2. "note" # "card"
    OBVIOUS
<1>3. Cardinality({"note", "card"}) = 2
    BY <1>2, Pair
<1>4. "all" # "nine"
    OBVIOUS
<1>5. Cardinality({"all", "nine"}) = 2
    BY <1>4, Pair
<1> HIDE DEF w
<1>6. Count(w, 7) = 2 /\ Count(w, 9) = 2 /\ \A c \in Axes \ {7, 9} : Count(w, c) = 0
    BY <1>1, <1>3, <1>5, None DEF Count
<1>7. Coord(w) = [c \in Axes |-> Tenfold(IF c = 7 THEN 2 ELSE IF c = 9 THEN 2 ELSE 0, 8)]
    BY <1>6, CoordIs DEF Axes
<1> QED BY <1>7, TenfoldIs DEF Axes, w

LEMMA Text12 == Coord({"short", "note", "reminder"}) = <<0, 0, 0, 0, 0, 0, 9, 0, 4>>
<1> DEFINE w == {"short", "note", "reminder"}
<1>1. /\ Stems[7] \cap w = {"note", "reminder"} /\ Stems[9] \cap w = {"short"}
      /\ \A c \in Axes \ {7, 9} : Stems[c] \cap w = {}
    BY StemsAre DEF Axes
<1>2. "note" # "reminder"
    OBVIOUS
<1>3. Cardinality({"note", "reminder"}) = 2
    BY <1>2, Pair
<1>4. Cardinality({"short"}) = 1
    BY Single
<1> HIDE DEF w
<1>5. Count(w, 7) = 2 /\ Count(w, 9) = 1 /\ \A c \in Axes \ {7, 9} : Count(w, c) = 0
    BY <1>1, <1>3, <1>4, None DEF Count
<1>6. Coord(w) = [c \in Axes |-> Tenfold(IF c = 7 THEN 2 ELSE IF c = 9 THEN 1 ELSE 0, 5)]
    BY <1>5, CoordIs DEF Axes
<1> QED BY <1>6, TenfoldIs DEF Axes, w

\* A set of numbers has a least one.
LEMMA LeastOf ==
    ASSUME NEW S, S \subseteq Nat, S # {}
    PROVE  \E i \in S : \A j \in S : i <= j
<1> DEFINE Less == {q \in Nat \X Nat : q[1] < q[2]}
<1>1. IsWellFoundedOn(Less, Nat)
    BY NatLessThanWellFounded, Zenon DEF OpToRel
<1>2. PICK i \in S : \A j \in S : ~(<<j, i>> \in Less)
    BY <1>1, WFMin, Zenon
<1>3. ASSUME NEW j \in S
      PROVE  i <= j
  <2>1. i \in Nat /\ j \in Nat /\ ~(<<j, i>> \in Less)
      BY <1>2
  <2>2. ~(j < i)
      BY <2>1
  <2> QED BY <2>1, <2>2
<1> QED BY <1>3

\* Counting up: what holds at 0 and of each next number holds up to n.
LEMMA Climb ==
    ASSUME NEW n \in Nat, NEW S, 0 \in S, \A i \in 0..n : i # 0 /\ i - 1 \in S => i \in S
    PROVE  0..n \subseteq S
<1> DEFINE T == (0..n) \ S
<1>1. SUFFICES ASSUME T # {}
               PROVE  FALSE
    OBVIOUS
<1>2. PICK i \in T : \A j \in T : i <= j
  <2>1. T \subseteq Nat
      OBVIOUS
  <2> HIDE DEF T
  <2> QED BY <1>1, <2>1, LeastOf
<1>3. i # 0 /\ i - 1 \in 0..n /\ i \in 0..n /\ i - 1 \notin T
    BY <1>2
<1> QED BY <1>3

\* An example that meets no earlier one stays where its text says.
LEMMA PlaceIs ==
    ASSUME NEW i \in Examples, NEW e, \A j \in 1..(i - 1) : e[j] # Coord(TrainSet[i].words)
    PROVE  Place(i, e) = Coord(TrainSet[i].words)
<1> DEFINE c == Coord(TrainSet[i].words)
           r(x) == [x EXCEPT ![9] = @ + 1]
           at == CHOOSE f : f = [j \in 0..(i - 1) |->
                     IF j = 0 THEN c ELSE IF f[j - 1] = e[j] THEN r(f[j - 1]) ELSE f[j - 1]]
           w == [j \in 0..(i - 1) |-> c]
<1>1. i \in Nat \ {0} /\ i - 1 \in Nat
    BY DEF Examples
<1>2. Place(i, e) = at[i - 1]
    BY Zenon DEF Place
<1> HIDE DEF c, r
<1>3. \A j \in 0..(i - 1) : j # 0 => e[j] # c /\ j - 1 \in 0..(i - 1)
    BY <1>1 DEF c
<1>4. w = [j \in 0..(i - 1) |->
             IF j = 0 THEN c ELSE IF w[j - 1] = e[j] THEN r(w[j - 1]) ELSE w[j - 1]]
    BY <1>3
<1>5. at = [j \in 0..(i - 1) |->
              IF j = 0 THEN c ELSE IF at[j - 1] = e[j] THEN r(at[j - 1]) ELSE at[j - 1]]
    BY <1>4
<1> HIDE DEF at
<1> DEFINE S == {j \in 0..(i - 1) : at[j] = c}
<1>6. 0 \in S
    BY <1>1, <1>5
<1>7. \A j \in 0..(i - 1) : j # 0 /\ j - 1 \in S => j \in S
    BY <1>3, <1>5
<1> HIDE DEF S
<1>8. 0..(i - 1) \subseteq S
    BY <1>1, <1>6, <1>7, Climb
<1>9. i - 1 \in S
    BY <1>1, <1>8
<1> QED BY <1>2, <1>9 DEF S, c

\* Where the coordinates of the texts are.
TextCoords ==
    <<<<9, 3, 0, 0, 0, 0, 0, 0, 0>>, <<3, 9, 0, 0, 0, 0, 0, 0, 0>>, <<10, 0, 0, 0, 0, 0, 0, 0, 0>>,
      <<0, 0, 10, 0, 0, 0, 0, 0, 0>>, <<0, 0, 4, 9, 0, 0, 0, 0, 0>>, <<0, 0, 4, 9, 0, 0, 0, 0, 0>>,
      <<0, 0, 0, 0, 10, 0, 0, 0, 0>>, <<0, 0, 0, 0, 9, 4, 0, 0, 0>>, <<0, 0, 0, 0, 4, 9, 0, 0, 0>>,
      <<0, 0, 0, 0, 0, 0, 10, 0, 0>>, <<0, 0, 0, 0, 0, 0, 7, 0, 7>>, <<0, 0, 0, 0, 0, 0, 9, 0, 4>>>>

\* Example 6 has the stems of example 5, and is moved.
Places == [TextCoords EXCEPT ![6] = <<0, 0, 4, 9, 0, 0, 0, 0, 1>>]

\* The twelve texts, together.
LEMMA TextsAre == Examples = 1..12 /\ \A i \in Examples : Coord(TrainSet[i].words) = TextCoords[i]
<1>1. Examples = 1..12
    BY DEF Examples, TrainSet
<1>2. /\ Coord(TrainSet[1].words) = TextCoords[1] /\ Coord(TrainSet[2].words) = TextCoords[2]
      /\ Coord(TrainSet[3].words) = TextCoords[3] /\ Coord(TrainSet[4].words) = TextCoords[4]
    BY Text1, Text2, Text3, Text4 DEF TrainSet, TextCoords
<1>3. /\ Coord(TrainSet[5].words) = TextCoords[5] /\ Coord(TrainSet[6].words) = TextCoords[6]
      /\ Coord(TrainSet[7].words) = TextCoords[7] /\ Coord(TrainSet[8].words) = TextCoords[8]
    BY Text5, Text6, Text7, Text8 DEF TrainSet, TextCoords
<1>4. /\ Coord(TrainSet[9].words) = TextCoords[9] /\ Coord(TrainSet[10].words) = TextCoords[10]
      /\ Coord(TrainSet[11].words) = TextCoords[11] /\ Coord(TrainSet[12].words) = TextCoords[12]
    BY Text9, Text10, Text11, Text12 DEF TrainSet, TextCoords
<1> QED BY <1>1, <1>2, <1>3, <1>4

\* Only examples 5 and 6 have the same stems.
LEMMA TextsApart ==
    \A i, j \in 1..12 : TextCoords[i] = TextCoords[j] => i = j \/ (i \in {5, 6} /\ j \in {5, 6})
<1> DEFINE c == TextCoords
<1>1. \A i \in 1..12 : c[i] = c[1] => i = 1
    BY DEF TextCoords
<1>2. \A i \in 1..12 : c[i] = c[2] => i = 2
    BY DEF TextCoords
<1>3. \A i \in 1..12 : c[i] = c[3] => i = 3
    BY DEF TextCoords
<1>4. \A i \in 1..12 : c[i] = c[4] => i = 4
    BY DEF TextCoords
<1>5. \A i \in 1..12 : c[i] = c[5] => i \in {5, 6}
    BY DEF TextCoords
<1>6. \A i \in 1..12 : c[i] = c[6] => i \in {5, 6}
    BY DEF TextCoords
<1>7. \A i \in 1..12 : c[i] = c[7] => i = 7
    BY DEF TextCoords
<1>8. \A i \in 1..12 : c[i] = c[8] => i = 8
    BY DEF TextCoords
<1>9. \A i \in 1..12 : c[i] = c[9] => i = 9
    BY DEF TextCoords
<1>10. \A i \in 1..12 : c[i] = c[10] => i = 10
    BY DEF TextCoords
<1>11. \A i \in 1..12 : c[i] = c[11] => i = 11
    BY DEF TextCoords
<1>12. \A i \in 1..12 : c[i] = c[12] => i = 12
    BY DEF TextCoords
<1> HIDE DEF c
<1>13. SUFFICES ASSUME NEW i \in 1..12, NEW j \in 1..12, c[i] = c[j]
                PROVE  i = j \/ (i \in {5, 6} /\ j \in {5, 6})
    BY DEF c
<1>14. j \in {5, 6} => i \in {5, 6}
    BY <1>5, <1>6, <1>13
<1>15. j \notin {5, 6} => i = j
    BY <1>1, <1>2, <1>3, <1>4, <1>7, <1>8, <1>9, <1>10, <1>11, <1>12, <1>13
<1> QED BY <1>14, <1>15

\* Example 6 is moved by one, at example 5.
LEMMA PlaceOfSix ==
    ASSUME NEW e, e[5] = TextCoords[5], \A j \in 1..4 : e[j] # TextCoords[6]
    PROVE  Place(6, e) = Places[6]
<1> DEFINE c == TextCoords[6]
           r(x) == [x EXCEPT ![9] = @ + 1]
           at == CHOOSE f : f = [j \in 0..(6 - 1) |->
                     IF j = 0 THEN Coord(TrainSet[6].words)
                     ELSE IF f[j - 1] = e[j] THEN r(f[j - 1]) ELSE f[j - 1]]
           w == [j \in 0..(6 - 1) |-> IF j = 5 THEN r(c) ELSE c]
<1>1. Place(6, e) = at[5]
  <2>1. Place(6, e) = at[6 - 1]
      BY Zenon DEF Place
  <2> QED BY <2>1
<1>2. Coord(TrainSet[6].words) = c
    BY TextsAre
<1>3. c = TextCoords[5]
    BY DEF TextCoords
<1>4. r(c) = Places[6]
    BY DEF TextCoords, Places
<1> HIDE DEF c, r
<1>5. e[5] = c /\ \A j \in 1..4 : e[j] # c
    BY <1>3 DEF c
<1>6. w = [j \in 0..(6 - 1) |->
             IF j = 0 THEN Coord(TrainSet[6].words)
             ELSE IF w[j - 1] = e[j] THEN r(w[j - 1]) ELSE w[j - 1]]
    BY <1>2, <1>5
<1>7. at = [j \in 0..(6 - 1) |->
              IF j = 0 THEN Coord(TrainSet[6].words)
              ELSE IF at[j - 1] = e[j] THEN r(at[j - 1]) ELSE at[j - 1]]
    BY <1>6
<1> HIDE DEF at
<1>8. at[0] = c /\ at[1] = c /\ at[2] = c /\ at[3] = c /\ at[4] = c
    BY <1>2, <1>5, <1>7
<1>9. at[5] = r(c)
    BY <1>5, <1>7, <1>8
<1> QED BY <1>1, <1>4, <1>9

\* No two examples are in one place.
\* Where the program has the examples.
LEMMA PlacedIs == Placed = Places
<1> DEFINE placed == CHOOSE f : f = [n \in 0..Len(TrainSet) |->
                         IF n = 0 THEN <<>> ELSE Append(f[n - 1], Place(n, f[n - 1]))]
           w == [n \in 0..12 |-> SubSeq(Places, 1, n)]
<1>1. Len(TrainSet) = 12
    BY DEF TrainSet
<1>2. Placed = placed[12]
  <2>1. Placed = placed[Len(TrainSet)]
      BY Zenon DEF Placed
  <2> QED BY <2>1, <1>1
<1>3. Len(Places) = 12 /\ Places \in Seq([Axes -> Int])
    BY DEF Places, TextCoords, Axes
<1>4. \A i \in 1..12 : i # 6 => Places[i] = TextCoords[i]
    BY DEF Places, TextCoords
<1>5. ASSUME NEW n \in 1..12
      PROVE  Place(n, SubSeq(Places, 1, n - 1)) = Places[n]
  <2> DEFINE e == SubSeq(Places, 1, n - 1)
  <2>1. \A j \in 1..(n - 1) : e[j] = Places[j]
      BY <1>3
  <2> HIDE DEF e
  <2>2. CASE n = 6
    <3>1. e[5] = TextCoords[5] /\ \A j \in 1..4 : e[j] = TextCoords[j]
        BY <2>1, <2>2, <1>4
    <3>2. \A j \in 1..4 : TextCoords[j] # TextCoords[6]
        BY TextsApart
    <3> QED BY <2>2, <3>1, <3>2, PlaceOfSix DEF e
  <2>3. CASE n # 6
    <3>1. \A j \in 1..(n - 1) : e[j] # TextCoords[n]
      <4> SUFFICES ASSUME NEW j \in 1..(n - 1)
                   PROVE  e[j] # TextCoords[n]
          OBVIOUS
      <4>1. CASE j # 6
        <5>1. e[j] = TextCoords[j] /\ j \in 1..12 /\ j # n
            BY <2>1, <4>1, <1>4
        <5> QED BY <5>1, <4>1, <2>3, TextsApart
      <4>2. CASE j = 6
        <5>1. e[j] = Places[6]
            BY <2>1, <4>2
        <5>2. \A k \in 1..12 : TextCoords[k] # Places[6]
            BY DEF TextCoords, Places
        <5> QED BY <5>1, <5>2
      <4> QED BY <4>1, <4>2
    <3>2. Place(n, e) = Coord(TrainSet[n].words)
        BY <3>1, TextsAre, PlaceIs
    <3> QED BY <2>3, <3>2, <1>4, TextsAre DEF e
  <2> QED BY <2>2, <2>3
<1>6. SubSeq(Places, 1, 0) = <<>>
    BY <1>3
<1>7. \A n \in 1..12 : SubSeq(Places, 1, n) = Append(SubSeq(Places, 1, n - 1), Places[n])
    BY <1>3, SubSeqRecursiveSecond
<1>8. w = [n \in 0..12 |-> IF n = 0 THEN <<>> ELSE Append(w[n - 1], Place(n, w[n - 1]))]
    BY <1>5, <1>6, <1>7
<1>9. placed = [n \in 0..12 |-> IF n = 0 THEN <<>> ELSE Append(placed[n - 1], Place(n, placed[n - 1]))]
    BY <1>1, <1>8
<1> HIDE DEF placed, w
<1> DEFINE S == {n \in 0..12 : placed[n] = SubSeq(Places, 1, n)}
<1>10. 0 \in S
    BY <1>6, <1>9
<1>11. \A n \in 0..12 : n # 0 /\ n - 1 \in S => n \in S
  <2> SUFFICES ASSUME NEW n \in 0..12, n # 0, n - 1 \in S
               PROVE  n \in S
      OBVIOUS
  <2>1. n \in 1..12 /\ placed[n - 1] = SubSeq(Places, 1, n - 1)
      OBVIOUS
  <2>2. placed[n] = Append(placed[n - 1], Place(n, placed[n - 1]))
      BY <1>9, Zenon
  <2> QED BY <2>1, <2>2, <1>5, <1>7
<1> HIDE DEF S
<1>12. 12 \in S
    BY <1>10, <1>11, Climb
<1>13. SubSeq(Places, 1, 12) = Places
    BY <1>3, SubSeqFull
<1> QED BY <1>2, <1>12, <1>13 DEF S

-----------------------------------------------------------------------------
\* ssos_model: the records it meets in the bank, of which only another program's may
\* lie at the coordinates of one it sends.

\* The theorems of PacketBankProofs, for the bank that ssos_model talks to.
Facts == INSTANCE PacketBankProofs WITH
    Ids <- AllIds, Coords <- [Axes -> Int], Bodies <- AllBodies,
    ClipId <- [i \in AllIds |-> i], ClipBody <- [b \in AllBodies |-> b],
    ModelIds <- {}, RowIds <- {}, Weights <- {0}, BadRow <- 1,
    Q10 <- [b \in AllBodies |-> 1], Empty <- Empty, NoModel <- <<0>>,
    KernelPkt <- P(Id("ctrl", 0), Sized(0, 0), <<"other", 0>>),
    UsbPkt <- P(Id("ctrl", 1), Sized(1, 0), <<"other", 0>>)

\* The records a bank may hold: those it is seeded with, those of other programs,
\* and those the program sends.
Others ==
    {P(Id("ctrl", n), Sized(n, 0), <<"other", 0>>) : n \in {0, 1}} \cup {CrowdPkt(n) : n \in 3..PktMax}
Sent ==
    {WeightPkt(c) : c \in Classes} \cup {ExamplePkt(e) : e \in Examples}
      \cup {ReceiptPkt(q, p) : q \in Queries, p \in Classes}
Known == Others \cup Sent

\* Records of other programs, and those to be deleted.
Foreign(p) == p.id[1] \in {"old", "crowd"}

\* The kinds of records a bank may hold.
Kinds(p) ==
    \/ \E n \in {0, 1} : p.id = Id("ctrl", n) /\ p.d = Sized(n, 0)
    \/ Foreign(p)
    \/ \E c \in Classes : p.id = Id("w", c) /\ p.d = Sized(80, c)
    \/ \E e \in Examples : p.id = Id("ex", e) /\ p.d = Places[e]
    \/ \E q \in Queries, c \in Classes : p.id = Id("rx", q) /\ p.d = <<90, q, c, 0, 0, 0, 0, 0, 0>>

\* What the record of each kind of id looks like.
LEMMA KnownKinds == \A p \in Known : Kinds(p)
<1>1. \A p \in Sent : Kinds(p)
    BY PlacedIs DEF Sent, Kinds, WeightPkt, ExamplePkt, ReceiptPkt, P
<1>2. ASSUME NEW n \in 3..PktMax
      PROVE  Kinds(CrowdPkt(n))
  <2>1. CASE n = 5
      BY <2>1 DEF Kinds, CrowdPkt, P, Classes
  <2>2. CASE n # 5 /\ n \in {3, 4}
    <3>1. CrowdPkt(n).id = Id("old", n - 3)
        BY <2>2 DEF CrowdPkt, P
    <3> QED BY <3>1 DEF Kinds, Foreign, Id
  <2>3. CASE n # 5 /\ n \notin {3, 4}
    <3>1. CrowdPkt(n).id = Id("crowd", n)
        BY <2>3 DEF CrowdPkt, P
    <3> QED BY <3>1 DEF Kinds, Foreign, Id
  <2> QED BY <2>1, <2>2, <2>3
<1>3. \A p \in Others : Kinds(p)
  <2>1. \A n \in {0, 1} : Kinds(P(Id("ctrl", n), Sized(n, 0), <<"other", 0>>))
      BY DEF Kinds, P
  <2> QED BY <2>1, <1>2 DEF Others
<1> QED BY <1>1, <1>3 DEF Known

\* The places of the examples are all apart, and none is a row's, a receipt's or the
\* controller's.
LEMMA PlacesApart ==
    /\ \A i, j \in Examples : Places[i] = Places[j] => i = j
    /\ \A i \in Examples : Places[i][1] \in {0, 3, 9, 10} /\ Places[i][2] \in {0, 3, 9}
                             /\ Places[i] # Sized(0, 0)
<1>1. /\ \A i \in 1..12 : i # 6 => Places[i] = TextCoords[i]
      /\ \A i \in 1..12 : Places[6] # TextCoords[i]
    BY DEF Places, TextCoords
<1>2. ASSUME NEW i \in 1..12, NEW j \in 1..12, Places[i] = Places[j]
      PROVE  i = j
    BY <1>1, <1>2, TextsApart
<1>3. \A i \in 1..12 : Places[i][1] \in {0, 3, 9, 10} /\ Places[i][2] \in {0, 3, 9}
    BY DEF Places, TextCoords
<1>4. \A i \in 1..12 : Places[i] # Sized(0, 0)
    BY DEF Places, TextCoords, Sized
<1> QED BY <1>2, <1>3, <1>4, TextsAre

\* Records at the same coordinates have the same id, but for another program's.
LEMMA Apart == \A p, r \in Known : ~Foreign(p) /\ ~Foreign(r) /\ p.d = r.d => p.id = r.id
<1> SUFFICES ASSUME NEW p \in Known, NEW r \in Known, ~Foreign(p), ~Foreign(r), p.d = r.d
             PROVE  p.id = r.id
    OBVIOUS
<1>1. Kinds(p) /\ Kinds(r) /\ ~Foreign(p) /\ ~Foreign(r)
    BY KnownKinds
<1>2. \A n, m : Sized(n, m)[1] = n /\ Sized(n, m)[2] = m
    BY DEF Sized
<1>3. \A n, m, l : <<n, m, l, 0, 0, 0, 0, 0, 0>>[1] = n /\ <<n, m, l, 0, 0, 0, 0, 0, 0>>[2] = m
    OBVIOUS
<1>4. PktMax \in Nat /\ Queries = 1..4 /\ Classes = 0..3
    BY HostModelAssumption DEF Queries, QuerySet, Classes
<1>5. CASE \E n \in {0, 1} : p.id = Id("ctrl", n) /\ p.d = Sized(n, 0)
    BY <1>1, <1>2, <1>3, <1>4, <1>5, PlacesApart DEF Kinds
<1>7. CASE \E c \in Classes : p.id = Id("w", c) /\ p.d = Sized(80, c)
    BY <1>1, <1>2, <1>3, <1>4, <1>7, PlacesApart DEF Kinds
<1>8. CASE \E e \in Examples : p.id = Id("ex", e) /\ p.d = Places[e]
    BY <1>1, <1>2, <1>3, <1>4, <1>8, PlacesApart DEF Kinds
<1>9. CASE \E q \in Queries, c \in Classes : p.id = Id("rx", q) /\ p.d = <<90, q, c, 0, 0, 0, 0, 0, 0>>
    BY <1>1, <1>2, <1>3, <1>4, <1>9, PlacesApart DEF Kinds
<1> QED BY <1>1, <1>5, <1>7, <1>8, <1>9 DEF Kinds

\* The records of the model are packets of the bank.
LEMMA KnownTypes == Known \subseteq Bank!Packet
<1>1. PktMax \in Nat /\ Queries = 1..4 /\ Classes = 0..3 /\ Examples = 1..12 /\ 1..4 \subseteq 1..12
    BY HostModelAssumption, TextsAre DEF Queries, QuerySet, Classes
<1>2. \A n, m, l \in Int : <<n, m, l, 0, 0, 0, 0, 0, 0>> \in [Axes -> Int]
    BY DEF Axes
<1>3. \A n, m \in Int : Sized(n, m) \in [Axes -> Int]
    BY <1>2 DEF Sized
<1>4. \A i \in Examples : Places[i] \in [Axes -> Int]
    BY TextsAre DEF Places, TextCoords, Axes
<1>5. \A i \in Examples : TrainSet[i].label \in Classes
    BY TextsAre DEF TrainSet, Classes
<1>6. /\ \A n \in 0..3 : Id("w", n) \in AllIds /\ Id("old", n) \in AllIds /\ Id("ctrl", n) \in AllIds
      /\ \A n \in Examples : Id("ex", n) \in AllIds /\ Id("rx", n) \in AllIds
      /\ \A n \in 0..PktMax : Id("crowd", n) \in AllIds
    BY DEF AllIds, Id
<1>7. /\ <<"other", 0>> \in AllBodies
      /\ \A c \in Classes : <<"row", c>> \in AllBodies /\ <<"label", c>> \in AllBodies
    BY DEF AllBodies
<1>8. \A i, d, b : i \in AllIds /\ d \in [Axes -> Int] /\ b \in AllBodies => P(i, d, b) \in Bank!Packet
    BY DEF Bank!Packet, P
<1> HIDE DEF AllIds, AllBodies
<1>9. ASSUME NEW p \in Sent
      PROVE  p \in Bank!Packet
  <2>1. CASE \E c \in Classes : p = WeightPkt(c)
    <3>1. PICK c \in Classes : p = WeightPkt(c)
        BY <2>1
    <3>2. c \in 0..3 /\ c \in Int /\ 80 \in Int
        BY <1>1
    <3>3. Id("w", c) \in AllIds /\ Sized(80, c) \in [Axes -> Int] /\ <<"row", c>> \in AllBodies
        BY <3>2, <1>3, <1>6, <1>7
    <3> QED BY <3>1, <3>3, <1>8 DEF WeightPkt
  <2>2. CASE \E e \in Examples : p = ExamplePkt(e)
      BY <2>2, <1>4, <1>5, <1>6, <1>7, <1>8, PlacedIs DEF ExamplePkt
  <2>3. CASE \E q \in Queries, c \in Classes : p = ReceiptPkt(q, c)
    <3>1. PICK q \in Queries, c \in Classes : p = ReceiptPkt(q, c)
        BY <2>3
    <3>2. q \in Examples /\ q \in Int /\ c \in Int /\ 90 \in Int
        BY <1>1
    <3>3. /\ Id("rx", q) \in AllIds /\ <<90, q, c, 0, 0, 0, 0, 0, 0>> \in [Axes -> Int]
          /\ <<"label", c>> \in AllBodies
        BY <3>2, <1>2, <1>6, <1>7
    <3> QED BY <3>1, <3>3, <1>8 DEF ReceiptPkt
  <2> QED BY <2>1, <2>2, <2>3 DEF Sent
<1>10. ASSUME NEW n \in 3..PktMax
       PROVE  CrowdPkt(n) \in Bank!Packet
  <2>0. CrowdAt[n] \in [Axes -> Int]
      BY HostModelAssumption DEF Axes
  <2>1. CASE n = 5
      BY <2>1, <1>1, <1>3, <1>6, <1>7, <1>8 DEF CrowdPkt
  <2>2. CASE n \in {3, 4}
      BY <2>0, <2>2, <1>1, <1>6, <1>7, <1>8 DEF CrowdPkt
  <2>3. CASE n \notin {3, 4, 5}
      BY <2>0, <2>3, <1>1, <1>6, <1>7, <1>8 DEF CrowdPkt
  <2> QED BY <2>1, <2>2, <2>3
<1>11. \A n \in {0, 1} : P(Id("ctrl", n), Sized(n, 0), <<"other", 0>>) \in Bank!Packet
    BY <1>3, <1>6, <1>7, <1>8
<1> QED BY <1>9, <1>10, <1>11 DEF Known, Others

\* PacketBankProofs asks this of a bank.
LEMMA FactsHold ==
    Facts!PktMaxAssumption /\ Facts!ClipAssumption /\ Facts!ModelAssumption /\ Facts!SeedAssumption
<1>1. Facts!PktMaxAssumption
    BY HostModelAssumption DEF Facts!PktMaxAssumption
<1>2. Facts!ClipAssumption
    BY DEF Facts!ClipAssumption
<1>3. Facts!ModelAssumption
  <2>1. <<0>> \notin Facts!Models
    <3>1. \A f \in Facts!Models : DOMAIN f = {}
        BY DEF Facts!Models
    <3>2. DOMAIN <<0>> = 1..1
        OBVIOUS
    <3> QED BY <3>1, <3>2
  <2> QED BY <2>1 DEF Facts!ModelAssumption
<1>4. Facts!SeedAssumption
  <2>1. Facts!Packet = Bank!Packet
      BY DEF Facts!Packet, Bank!Packet
  <2> DEFINE k == P(Id("ctrl", 0), Sized(0, 0), <<"other", 0>>)
             u == P(Id("ctrl", 1), Sized(1, 0), <<"other", 0>>)
  <2>2. k \in Known /\ u \in Known
      BY DEF Known, Others
  <2>3. k \in Facts!Packet /\ u \in Facts!Packet
      BY <2>1, <2>2, KnownTypes
  <2>4. k.id \in AllIds /\ u.id \in AllIds /\ k.body \in AllBodies /\ u.body \in AllBodies
      BY <2>3 DEF Facts!Packet
  <2>5. k.id # u.id /\ k.d # u.d
      BY DEF P, Id, Sized
  <2>6. Empty \notin Facts!Packet
      BY <2>1, EmptyAssumption
  <2> HIDE DEF k, u
  <2>7. /\ Empty \notin Facts!Packet /\ k \in Facts!Packet /\ u \in Facts!Packet /\ k.id # u.id /\ k.d # u.d
        /\ \A p \in {k, u} : [i \in AllIds |-> i][p.id] = p.id /\ [b \in AllBodies |-> b][p.body] = p.body
                               /\ p.id \notin {}
      BY <2>3, <2>4, <2>5, <2>6
  <2> QED BY <2>7, Zenon DEF Facts!SeedAssumption, k, u
<1> QED BY <1>1, <1>2, <1>3, <1>4

\* The scans of the bank are those that the lemmas of PacketBankProofs speak of.
LEMMA SameScans ==
    /\ \A b, p : Facts!StoreSlot(b, p) = Bank!StoreSlot(b, p)
    /\ \A b, i : Facts!FindById(b, i) = Bank!FindById(b, i)
    /\ Facts!NoSlot = 0 /\ Bank!NoSlot = 0
<1> USE DEF Facts!FindById, Bank!FindById, Facts!FindByCoord, Bank!FindByCoord, Facts!AllocSlot, Bank!AllocSlot,
            Facts!FirstOrNone, Bank!FirstOrNone, Facts!First, Bank!First, Facts!WithId, Bank!WithId,
            Facts!WithCoord, Bank!WithCoord, Facts!Free, Bank!Free, Facts!Used, Bank!Used,
            Facts!Slots, Bank!Slots, Facts!NoSlot, Bank!NoSlot
<1>1. \A b, p : Facts!StoreSlot(b, p) = Bank!StoreSlot(b, p)
    BY Zenon DEF Facts!StoreSlot, Bank!StoreSlot
<1>2. \A b, i : Facts!FindById(b, i) = Bank!FindById(b, i)
    BY Zenon
<1> QED BY <1>1, <1>2

Bankful == [1..PktMax -> Bank!Packet \cup {Empty}]

\* What findById and storePacket do to such a bank.
LEMMA LookupIs ==
    ASSUME NEW b \in Bankful, NEW id
    PROVE  LET k == Bank!FindById(b, id) IN
           \/ k = 0 /\ \A i \in 1..PktMax : b[i] # Empty => b[i].id # id
           \/ k \in 1..PktMax /\ b[k] # Empty /\ b[k].id = id
<1>1. b \in Facts!Banks
    BY DEF Bankful, Facts!Banks, Facts!Packet, Bank!Packet, Facts!Slots
<1>2. /\ Facts!WithId(b, id) = {} <=> Facts!FindById(b, id) = Facts!NoSlot
      /\ Facts!WithId(b, id) # {} =>
            Facts!FindById(b, id) \in Facts!WithId(b, id) /\ Facts!FindById(b, id) \in Facts!Slots
    BY <1>1, FactsHold, Facts!FindByIdResult
<1> QED BY <1>2, SameScans DEF Facts!WithId, Facts!Used, Facts!Slots

\* The slot storePacket writes holds the same id, or no slot does and it is free or
\* at the same coordinates.
LEMMA StoreIs ==
    ASSUME NEW b \in Bankful, NEW p \in Bank!Packet
    PROVE  LET k == Bank!StoreSlot(b, p) IN
           \/ k = 0
           \/ /\ k \in 1..PktMax
              /\ Bank!StorePacket(b, p) = [b EXCEPT ![k] = p]
              /\ \/ b[k] # Empty /\ b[k].id = p.id
                 \/ /\ b[k] # Empty => b[k].d = p.d
                    /\ \A i \in 1..PktMax : b[i] # Empty => b[i].id # p.id
<1> DEFINE k == Bank!StoreSlot(b, p)
<1>1. b \in Facts!Banks /\ p \in Facts!Packet
    BY DEF Bankful, Facts!Banks, Facts!Packet, Bank!Packet, Facts!Slots
<1>2. SUFFICES ASSUME k # 0
               PROVE  /\ k \in 1..PktMax
                      /\ Bank!StorePacket(b, p) = [b EXCEPT ![k] = p]
                      /\ \/ b[k] # Empty /\ b[k].id = p.id
                         \/ /\ b[k] # Empty => b[k].d = p.d
                            /\ \A i \in 1..PktMax : b[i] # Empty => b[i].id # p.id
    OBVIOUS
<1>3. /\ k \in Facts!Slots
      /\ \/ k \in Facts!WithId(b, p.id)
         \/ Facts!WithId(b, p.id) = {} /\ k \in Facts!WithCoord(b, p.d)
         \/ Facts!WithId(b, p.id) = {} /\ k \in Facts!Free(b)
  <2>1. Facts!StoreSlot(b, p) = k /\ Facts!StoreSlot(b, p) # Facts!NoSlot
      BY <1>2, SameScans
  <2> QED BY <2>1, <1>1, FactsHold, Facts!StoreSlotChoice
<1>4. Bank!Stored(p) = p
    BY <1>1 DEF Bank!Stored, Facts!Packet
<1>5. Bank!StorePacket(b, p) = [b EXCEPT ![k] = p]
    BY <1>4 DEF Bank!StorePacket
<1> HIDE DEF k
<1> QED BY <1>3, <1>5 DEF Facts!WithId, Facts!WithCoord, Facts!Free, Facts!Used, Facts!Slots

-----------------------------------------------------------------------------
\* ssos_model: its commands, and the bank they are executed on.

\* Sequences.
LEMMA JoinedAt ==
    ASSUME NEW C, NEW s \in Seq(C), NEW t \in Seq(C)
    PROVE  /\ s \o t \in Seq(C) /\ Len(s \o t) = Len(s) + Len(t)
           /\ \A i \in 1..(Len(s) + Len(t)) : (s \o t)[i] = IF i <= Len(s) THEN s[i] ELSE t[i - Len(s)]
BY ConcatProperties

\* A function on 1..n is a sequence of length n.
LEMMA ListIs ==
    ASSUME NEW C, NEW n \in Nat, NEW s \in [1..n -> C]
    PROVE  s \in Seq(C) /\ Len(s) = n
OBVIOUS

\* The twenty-eight commands.
LEMMA ScriptIs ==
    /\ Len(Script) = 28
    /\ Script[1].do = "ID"
    /\ \A s \in 2..3 : Script[s].do = "DEL" /\ Script[s].n = s - 2
    /\ \A s \in 4..7 : Script[s].do = "PKT_W" /\ Script[s].n = s - 4
    /\ \A s \in 8..19 : Script[s].do = "PKT_EX" /\ Script[s].n = s - 7
    /\ \A s \in 20..23 : Script[s].do = "GET" /\ Script[s].n = s - 20
    /\ \A s \in 24..27 : Script[s].do = "PKT_RX" /\ Script[s].n = s - 23
    /\ Script[28].do = "DUMP"
<1> DEFINE a == <<[do |-> "ID", n |-> 0], [do |-> "DEL", n |-> 0], [do |-> "DEL", n |-> 1]>>
           b == [c \in 1..4 |-> [do |-> "PKT_W", n |-> c - 1]]
           e == [i \in 1..12 |-> [do |-> "PKT_EX", n |-> i]]
           f == [c \in 1..4 |-> [do |-> "GET", n |-> c - 1]]
           h == [i \in 1..4 |-> [do |-> "PKT_RX", n |-> i]]
           l == <<[do |-> "DUMP", n |-> 0]>>
           C == [do : {"ID", "DEL", "PKT_W", "PKT_EX", "GET", "PKT_RX", "DUMP"}, n : Int]
<1>1. Queries = 1..4 /\ Examples = 1..12
    BY TextsAre DEF Queries, QuerySet
<1>2. Script = ((((a \o b) \o e) \o f) \o h) \o l
    BY <1>1 DEF Script
<1>3. a \in Seq(C) /\ Len(a) = 3
  <2>1. \A i \in {0, 1} : [do |-> "ID", n |-> 0] \in C /\ [do |-> "DEL", n |-> i] \in C
      OBVIOUS
  <2> HIDE DEF C
  <2> QED BY <2>1
<1>4. l \in Seq(C) /\ Len(l) = 1
  <2>1. [do |-> "DUMP", n |-> 0] \in C
      OBVIOUS
  <2> HIDE DEF C
  <2> QED BY <2>1
<1>50. b \in [1..4 -> C] /\ f \in [1..4 -> C] /\ e \in [1..12 -> C] /\ h \in [1..4 -> C]
    OBVIOUS
<1>5. /\ b \in Seq(C) /\ Len(b) = 4 /\ f \in Seq(C) /\ Len(f) = 4
       /\ e \in Seq(C) /\ Len(e) = 12 /\ h \in Seq(C) /\ Len(h) = 4
  <2> HIDE DEF b, f, e, h, C
  <2> QED BY <1>50, ListIs
<1>6. /\ a[1].do = "ID" /\ a[2].do = "DEL" /\ a[2].n = 0 /\ a[3].do = "DEL" /\ a[3].n = 1 /\ l[1].do = "DUMP"
      /\ \A i \in 1..4 : b[i].do = "PKT_W" /\ b[i].n = i - 1 /\ f[i].do = "GET" /\ f[i].n = i - 1
                           /\ h[i].do = "PKT_RX" /\ h[i].n = i
      /\ \A i \in 1..12 : e[i].do = "PKT_EX" /\ e[i].n = i
    OBVIOUS
<1> DEFINE p == a \o b
           q == p \o e
           r == q \o f
           t == r \o h
           u == t \o l
<1> HIDE DEF a, b, e, f, h, l, C
<1>7. /\ p \in Seq(C) /\ Len(p) = Len(a) + Len(b)
      /\ \A i \in 1..(Len(a) + Len(b)) : p[i] = IF i <= Len(a) THEN a[i] ELSE b[i - Len(a)]
    BY <1>3, <1>5, JoinedAt, Zenon
<1> HIDE DEF p
<1>8. p \in Seq(C) /\ Len(p) = 7
    BY <1>7, <1>3, <1>5
<1>9. \A i \in 1..7 : p[i] = IF i <= 3 THEN a[i] ELSE b[i - 3]
  <2>1. Len(a) = 3 /\ Len(a) + Len(b) = 7
      BY <1>3, <1>5
  <2>2. \A i \in 1..(Len(a) + Len(b)) : p[i] = IF i <= Len(a) THEN a[i] ELSE b[i - Len(a)]
      BY <1>7
  <2> QED BY <2>1, <2>2
<1>10. /\ q \in Seq(C) /\ Len(q) = Len(p) + Len(e)
      /\ \A i \in 1..(Len(p) + Len(e)) : q[i] = IF i <= Len(p) THEN p[i] ELSE e[i - Len(p)]
    BY <1>8, <1>5, JoinedAt, Zenon
<1> HIDE DEF q
<1>11. q \in Seq(C) /\ Len(q) = 19
    BY <1>10, <1>8, <1>5
<1>12. \A i \in 1..19 : q[i] = IF i <= 7 THEN p[i] ELSE e[i - 7]
  <2>1. Len(p) = 7 /\ Len(p) + Len(e) = 19
      BY <1>8, <1>5
  <2>2. \A i \in 1..(Len(p) + Len(e)) : q[i] = IF i <= Len(p) THEN p[i] ELSE e[i - Len(p)]
      BY <1>10
  <2> QED BY <2>1, <2>2
<1>13. /\ r \in Seq(C) /\ Len(r) = Len(q) + Len(f)
      /\ \A i \in 1..(Len(q) + Len(f)) : r[i] = IF i <= Len(q) THEN q[i] ELSE f[i - Len(q)]
    BY <1>11, <1>5, JoinedAt, Zenon
<1> HIDE DEF r
<1>14. r \in Seq(C) /\ Len(r) = 23
    BY <1>13, <1>11, <1>5
<1>15. \A i \in 1..23 : r[i] = IF i <= 19 THEN q[i] ELSE f[i - 19]
  <2>1. Len(q) = 19 /\ Len(q) + Len(f) = 23
      BY <1>11, <1>5
  <2>2. \A i \in 1..(Len(q) + Len(f)) : r[i] = IF i <= Len(q) THEN q[i] ELSE f[i - Len(q)]
      BY <1>13
  <2> QED BY <2>1, <2>2
<1>16. /\ t \in Seq(C) /\ Len(t) = Len(r) + Len(h)
      /\ \A i \in 1..(Len(r) + Len(h)) : t[i] = IF i <= Len(r) THEN r[i] ELSE h[i - Len(r)]
    BY <1>14, <1>5, JoinedAt, Zenon
<1> HIDE DEF t
<1>17. t \in Seq(C) /\ Len(t) = 27
    BY <1>16, <1>14, <1>5
<1>18. \A i \in 1..27 : t[i] = IF i <= 23 THEN r[i] ELSE h[i - 23]
  <2>1. Len(r) = 23 /\ Len(r) + Len(h) = 27
      BY <1>14, <1>5
  <2>2. \A i \in 1..(Len(r) + Len(h)) : t[i] = IF i <= Len(r) THEN r[i] ELSE h[i - Len(r)]
      BY <1>16
  <2> QED BY <2>1, <2>2
<1>19. /\ u \in Seq(C) /\ Len(u) = Len(t) + Len(l)
      /\ \A i \in 1..(Len(t) + Len(l)) : u[i] = IF i <= Len(t) THEN t[i] ELSE l[i - Len(t)]
    BY <1>17, <1>4, JoinedAt, Zenon
<1> HIDE DEF u
<1>20. u \in Seq(C) /\ Len(u) = 28
    BY <1>19, <1>17, <1>4
<1>21. \A i \in 1..28 : u[i] = IF i <= 27 THEN t[i] ELSE l[i - 27]
  <2>1. Len(t) = 27 /\ Len(t) + Len(l) = 28
      BY <1>17, <1>4
  <2>2. \A i \in 1..(Len(t) + Len(l)) : u[i] = IF i <= Len(t) THEN t[i] ELSE l[i - Len(t)]
      BY <1>19
  <2> QED BY <2>1, <2>2
<1>22. Script = u
    BY <1>2 DEF u, t, r, q, p
<1>23. u[1].do = "ID" /\ u[28].do = "DUMP"
    BY <1>6, <1>9, <1>12, <1>15, <1>18, <1>21
<1>24. ASSUME NEW s \in 2..3
      PROVE  u[s].do = "DEL" /\ u[s].n = s - 2
  <2>1. s = 2 \/ s = 3
      OBVIOUS
  <2>2. u[s] = a[s]
      BY <2>1, <1>9, <1>12, <1>15, <1>18, <1>21
  <2> QED BY <2>1, <2>2, <1>6
<1>25. ASSUME NEW s \in 4..7
      PROVE  u[s].do = "PKT_W" /\ u[s].n = s - 4
  <2>1. u[s] = b[s - 3]
      BY <1>9, <1>12, <1>15, <1>18, <1>21
  <2> QED BY <2>1, <1>6
<1>26. ASSUME NEW s \in 8..19
      PROVE  u[s].do = "PKT_EX" /\ u[s].n = s - 7
  <2>1. u[s] = e[s - 7]
      BY <1>12, <1>15, <1>18, <1>21
  <2> QED BY <2>1, <1>6
<1>27. ASSUME NEW s \in 20..23
      PROVE  u[s].do = "GET" /\ u[s].n = s - 20
  <2>1. u[s] = f[s - 19]
      BY <1>15, <1>18, <1>21
  <2> QED BY <2>1, <1>6
<1>28. ASSUME NEW s \in 24..27
      PROVE  u[s].do = "PKT_RX" /\ u[s].n = s - 23
  <2>1. u[s] = h[s - 23]
      BY <1>18, <1>21
  <2> QED BY <2>1, <1>6
<1> QED BY <1>20, <1>22, <1>23, <1>24, <1>25, <1>26, <1>27, <1>28

\* A bank of such records, no id twice.
Orderly(b) ==
    /\ b \in [1..PktMax -> Known \cup {Empty}]
    /\ \A i, j \in 1..PktMax : b[i] # Empty /\ b[j] # Empty /\ b[i].id = b[j].id => i = j

\* storePacket puts a record where its id is, where no record is or where another
\* program's record lies at the same coordinates.
LEMMA StoreKeepsOrder ==
    ASSUME NEW b, Orderly(b), NEW p \in Known, ~Foreign(p), Bank!StoreSlot(b, p) # 0
    PROVE  LET c == Bank!StorePacket(b, p) IN
           /\ Orderly(c)
           /\ \E i \in 1..PktMax : c[i] = p
           /\ \A i \in 1..PktMax :
                 b[i] # Empty => c[i] # Empty /\ (c[i].id = b[i].id \/ (Foreign(b[i]) /\ c[i].d = b[i].d))
           /\ \A i \in 1..PktMax : b[i] # Empty /\ ~Foreign(b[i]) /\ b[i].id # p.id => c[i] = b[i]
<1> DEFINE k == Bank!StoreSlot(b, p)
           c == Bank!StorePacket(b, p)
<1>1. b \in Bankful /\ p \in Bank!Packet /\ Empty \notin Known
    BY KnownTypes, EmptyAssumption DEF Orderly, Bankful
<1>2. /\ k \in 1..PktMax
      /\ c = [b EXCEPT ![k] = p]
      /\ \/ b[k] # Empty /\ b[k].id = p.id
         \/ /\ b[k] # Empty => b[k].d = p.d
            /\ \A i \in 1..PktMax : b[i] # Empty => b[i].id # p.id
    BY <1>1, StoreIs
<1> HIDE DEF k, c
<1>3. b[k] # Empty => b[k] \in Known
    BY <1>2 DEF Orderly
<1>4. \/ b[k] # Empty /\ b[k].id = p.id
      \/ /\ b[k] = Empty \/ (Foreign(b[k]) /\ b[k].d = p.d)
         /\ \A i \in 1..PktMax : b[i] # Empty => b[i].id # p.id
    BY <1>2, <1>3, Apart
<1>5. c[k] = p /\ \A i \in 1..PktMax : i # k => c[i] = b[i]
    BY <1>2 DEF Orderly
<1>6. Orderly(c)
  <2>1. c \in [1..PktMax -> Known \cup {Empty}]
      BY <1>2 DEF Orderly
  <2>2. ASSUME NEW i \in 1..PktMax, NEW j \in 1..PktMax, c[i] # Empty, c[j] # Empty, c[i].id = c[j].id
        PROVE  i = j
    <3>1. CASE i # k /\ j # k
        BY <2>2, <3>1, <1>5 DEF Orderly
    <3>2. CASE i = k /\ j # k
        BY <2>2, <3>2, <1>2, <1>4, <1>5 DEF Orderly
    <3>3. CASE i # k /\ j = k
        BY <2>2, <3>3, <1>2, <1>4, <1>5 DEF Orderly
    <3> QED BY <3>1, <3>2, <3>3
  <2> QED BY <2>1, <2>2 DEF Orderly
<1>7. \A i \in 1..PktMax :
         b[i] # Empty => c[i] # Empty /\ (c[i].id = b[i].id \/ (Foreign(b[i]) /\ c[i].d = b[i].d))
    BY <1>1, <1>4, <1>5
<1>8. \A i \in 1..PktMax : b[i] # Empty /\ ~Foreign(b[i]) /\ b[i].id # p.id => c[i] = b[i]
    BY <1>4, <1>5
<1> QED BY <1>2, <1>5, <1>6, <1>7, <1>8 DEF c

\* handleDel clears one slot, which leaves the records apart.
LEMMA DeleteKeepsOrder ==
    ASSUME NEW b, Orderly(b), NEW k
    PROVE  Orderly([b EXCEPT ![k] = Empty])
BY DEF Orderly

\* The seeded bank among packets of other programs.
LEMMA InitialOrder == Init => Orderly(bank)
<1> DEFINE kernel == P(Id("ctrl", 0), Sized(0, 0), <<"other", 0>>)
           usb == P(Id("ctrl", 1), Sized(1, 0), <<"other", 0>>)
           Seeds == {kernel, usb}
           one == Bank!StorePacket(Bank!EmptyBank, kernel)
           two == Bank!StorePacket(one, usb)
<1>1. PktMax \in Nat /\ kernel \in Known /\ usb \in Known /\ Empty \notin Known
    BY HostModelAssumption, KnownTypes, EmptyAssumption DEF Known, Others
<1>2. ASSUME NEW b \in [1..PktMax -> Seeds \cup {Empty}], Orderly(b), NEW p \in Seeds
      PROVE  LET c == Bank!StorePacket(b, p) IN
             Orderly(c) /\ c \in [1..PktMax -> Seeds \cup {Empty}]
  <2>1. CASE Bank!StoreSlot(b, p) # 0
    <3>0. ~Foreign(p)
        BY <1>2 DEF Foreign, P, Id
    <3>1. Orderly(Bank!StorePacket(b, p))
        BY <2>1, <3>0, <1>1, <1>2, StoreKeepsOrder
    <3>2. b \in Bankful /\ p \in Bank!Packet
        BY <1>1, KnownTypes DEF Bankful
    <3>3. Bank!StorePacket(b, p) = [b EXCEPT ![Bank!StoreSlot(b, p)] = p]
        BY <2>1, <3>2, StoreIs
    <3> QED BY <3>1, <3>3
  <2>2. CASE Bank!StoreSlot(b, p) = 0
    <3>1. Bank!StorePacket(b, p) = b
        BY <2>2, <1>1 DEF Bank!StorePacket
    <3> QED BY <3>1, <1>2
  <2> QED BY <2>1, <2>2
<1>3. Orderly(Bank!EmptyBank) /\ Bank!EmptyBank \in [1..PktMax -> Seeds \cup {Empty}]
    BY DEF Orderly, Bank!EmptyBank, Bank!Slots
<1>4. Orderly(one) /\ one \in [1..PktMax -> Seeds \cup {Empty}]
    BY <1>2, <1>3
<1>5. Orderly(two) /\ two \in [1..PktMax -> Seeds \cup {Empty}]
    BY <1>2, <1>4
<1>6. Bank!SeedBank = two
    BY DEF Bank!SeedBank
<1> HIDE DEF one, two
<1>7. kernel.id[1] = "ctrl" /\ usb.id[1] = "ctrl"
    BY DEF P, Id
<1>8. \A n \in 3..PktMax : CrowdPkt(n) \in Known
    BY DEF Known, Others
<1>9. ASSUME NEW m \in 3..PktMax, NEW n \in 3..PktMax, CrowdPkt(m).id = CrowdPkt(n).id
      PROVE  m = n
    BY <1>9 DEF CrowdPkt, P, Id
<1>10. \A n \in 3..PktMax : CrowdPkt(n).id[1] # "ctrl"
    BY DEF CrowdPkt, P, Id
<1> HIDE DEF kernel, usb
<1>11. ASSUME NEW n \in Crowd,
              bank = [i \in 1..PktMax |-> IF i <= 2 THEN two[i] ELSE IF i <= n + 2 THEN CrowdPkt(i) ELSE Empty]
       PROVE  Orderly(bank)
  <2>1. n \in Nat
      BY HostModelAssumption
  <2>2. \A i \in 1..PktMax :
           \/ i <= 2 /\ bank[i] = two[i]
           \/ i \in 3..PktMax /\ bank[i] = CrowdPkt(i)
           \/ bank[i] = Empty
      BY <2>1, <1>1, <1>11
  <2>3. bank \in [1..PktMax -> Known \cup {Empty}]
    <3>1. \A i \in 1..PktMax : bank[i] \in Known \cup {Empty}
        BY <2>2, <1>5, <1>8 DEF Orderly
    <3> QED BY <3>1, <1>11
  <2>4. ASSUME NEW i \in 1..PktMax, NEW j \in 1..PktMax,
               bank[i] # Empty, bank[j] # Empty, bank[i].id = bank[j].id
        PROVE  i = j
    <3>1. CASE i <= 2 /\ j <= 2
        BY <2>2, <2>4, <3>1, <1>5 DEF Orderly
    <3>2. CASE i <= 2 /\ j > 2
      <4>1. bank[i] \in Seeds /\ bank[j] = CrowdPkt(j) /\ j \in 3..PktMax
          BY <2>2, <2>4, <3>2, <1>5
      <4> QED BY <4>1, <2>4, <1>7, <1>10
    <3>3. CASE i > 2 /\ j <= 2
      <4>1. bank[j] \in Seeds /\ bank[i] = CrowdPkt(i) /\ i \in 3..PktMax
          BY <2>2, <2>4, <3>3, <1>5
      <4> QED BY <4>1, <2>4, <1>7, <1>10
    <3>4. CASE i > 2 /\ j > 2
      <4>1. bank[i] = CrowdPkt(i) /\ bank[j] = CrowdPkt(j) /\ i \in 3..PktMax /\ j \in 3..PktMax
          BY <2>2, <2>4, <3>4
      <4> QED BY <4>1, <2>4, <1>9
    <3> QED BY <1>1, <3>1, <3>2, <3>3, <3>4
  <2> QED BY <2>3, <2>4 DEF Orderly
<1> QED BY <1>6, <1>11 DEF Init

-----------------------------------------------------------------------------
\* ssos_model: the types, and what the board answers.

\* The pieces the board prints.
ReplyPieces ==
    [kind : {"id", "recv", "got", "deleted", "err", "dump"}, id : AllIds \cup {Id("none", 0)},
     body : AllBodies \cup {<<"none", 0>>}, head : BOOLEAN]

\* How many predictions there are, and how many pieces the board may have printed.
Predicted ==
    /\ preds \in Seq(Classes)
    /\ IF step < 24 THEN Len(preds) = 0
       ELSE IF step < 28 THEN Len(preds) = step - 24 + (IF waiting THEN 1 ELSE 0)
       ELSE Len(preds) <= 4

Room ==
    IF ~waiting THEN (IF step = 1 THEN 2 ELSE Lag)
    ELSE IF step = 1 THEN 4 ELSE IF step = 28 THEN Lag + 2 * PktMax ELSE Lag + 2

\* The types of the program and of the board it talks to.
HostTypes ==
    /\ step \in 1..29 /\ waiting \in BOOLEAN /\ failed \in BOOLEAN /\ lost \in 0..MaxLost
    /\ step = 29 => ~waiting
    /\ Orderly(bank)
    /\ out \in Seq(ReplyPieces) /\ Len(out) <= Room
    /\ chip \in [Classes -> {<<"zero", 0>>} \cup ({"row", "cut"} \X Classes)]
    /\ Predicted

\* The packet of a step, and the steps that have one.
PacketOf(s, ps) ==
    IF s < 8 THEN WeightPkt(s - 4)
    ELSE IF s < 20 THEN ExamplePkt(s - 7)
    ELSE ReceiptPkt(s - 23, ps[s - 23])
PktSteps == (4..19) \cup (24..27)

\* The labels of the queries are classes, and so is what a doubtful answer takes.
LEMMA LabelsAre == \A q \in Queries : QuerySet[q].label \in Classes /\ Other(QuerySet[q].label) \in Classes
<1>1. Queries = 1..4
    BY DEF Queries, QuerySet
<1>2. QuerySet[1].label = 0 /\ QuerySet[2].label = 1 /\ QuerySet[3].label = 2 /\ QuerySet[4].label = 3
    BY DEF QuerySet
<1> QED BY <1>1, <1>2 DEF Other, Classes

\* A query is classified in the step of its receipt.
LEMMA InferIs ==
    ASSUME HostTypes, step \in 1..28, ~waiting, Infer
    PROVE  /\ failed' \in BOOLEAN /\ (failed => failed')
           /\ preds' \in Seq(Classes)
           /\ IF step \in 24..27
                THEN /\ Len(preds') = step - 23 /\ preds'[step - 23] \in Classes
                     /\ \A i \in 1..(step - 24) : preds'[i] = preds[i]
                ELSE preds' = preds
<1> USE DEF HostTypes, Predicted
<1>1. CASE step \in 24..27
  <2>1. Now.do = "PKT_RX" /\ Now.n = step - 23
      BY <1>1, ScriptIs DEF Now
  <2>2. step - 23 \in Queries
      BY <1>1 DEF Queries, QuerySet
  <2>3. PICK p \in Classes :
           preds' = Append(preds, p) /\ failed' = (failed \/ p # QuerySet[step - 23].label)
      BY <2>1, <2>2, LabelsAre DEF Infer
  <2>4. Len(preds) = step - 24
      BY <1>1
  <2>5. /\ preds' \in Seq(Classes) /\ Len(preds') = step - 23 /\ preds'[step - 23] = p
        /\ \A i \in 1..(step - 24) : preds'[i] = preds[i]
      BY <1>1, <2>3, <2>4, AppendProperties
  <2> QED BY <1>1, <2>3, <2>5
<1>2. CASE step \notin 24..27
  <2>1. step = 1 \/ step \in 2..3 \/ step \in 4..7 \/ step \in 8..19 \/ step \in 20..23 \/ step = 28
      BY <1>2
  <2>2. Script[step].do \in {"ID", "DEL", "PKT_W", "PKT_EX", "GET", "DUMP"}
      BY <2>1, ScriptIs
  <2>3. Now.do # "PKT_RX"
      BY <2>2 DEF Now
  <2> QED BY <1>2, <2>3 DEF Infer
<1> QED BY <1>1, <1>2

\* A reply has a head and an end.
LEMMA ReplyIs ==
    ASSUME NEW kind \in {"id", "recv", "got", "deleted", "err", "dump"},
           NEW id \in AllIds \cup {Id("none", 0)}, NEW body \in AllBodies \cup {<<"none", 0>>}
    PROVE  LET r == Reply(kind, id, body) IN
           /\ r \in Seq(ReplyPieces) /\ Len(r) = 2
           /\ r[1].head /\ r[1].kind = kind /\ r[1].id = id /\ r[1].body = body /\ ~r[2].head
<1> DEFINE piece(h) == [kind |-> kind, id |-> id, body |-> body, head |-> h]
<1>1. piece(TRUE) \in ReplyPieces /\ piece(FALSE) \in ReplyPieces
    BY DEF ReplyPieces
<1>2. /\ piece(TRUE).head /\ piece(TRUE).kind = kind /\ piece(TRUE).id = id /\ piece(TRUE).body = body
      /\ ~piece(FALSE).head
    OBVIOUS
<1>3. Reply(kind, id, body) = <<piece(TRUE), piece(FALSE)>>
    BY DEF Reply
<1>4. \A a, b \in ReplyPieces :
         <<a, b>> \in Seq(ReplyPieces) /\ Len(<<a, b>>) = 2 /\ <<a, b>>[1] = a /\ <<a, b>>[2] = b
  <2> HIDE DEF ReplyPieces
  <2> QED OBVIOUS
<1> HIDE DEF ReplyPieces, piece
<1> DEFINE r == Reply(kind, id, body)
<1>5. r \in Seq(ReplyPieces) /\ Len(r) = 2 /\ r[1] = piece(TRUE) /\ r[2] = piece(FALSE)
  <2> DEFINE t == <<piece(TRUE), piece(FALSE)>>
  <2>1. t \in Seq(ReplyPieces) /\ Len(t) = 2 /\ t[1] = piece(TRUE) /\ t[2] = piece(FALSE)
      BY <1>1, <1>4
  <2>2. r = t
      BY <1>3
  <2> HIDE DEF t, r
  <2> QED BY <2>1, <2>2
<1> HIDE DEF r
<1> QED BY <1>2, <1>5 DEF r

\* A printed message has two pieces, of which the first is its head.
LEMMA MessageIs ==
    ASSUME NEW kind \in {"id", "deleted", "err"}
    PROVE  LET r == Message(kind) IN
           /\ r \in Seq(ReplyPieces) /\ Len(r) = 2
           /\ r[1].head /\ r[1].kind = kind /\ ~r[2].head
<1>1. /\ kind \in {"id", "recv", "got", "deleted", "err", "dump"}
      /\ Id("none", 0) \in AllIds \cup {Id("none", 0)} /\ <<"none", 0>> \in AllBodies \cup {<<"none", 0>>}
    OBVIOUS
<1>2. Message(kind) = Reply(kind, Id("none", 0), <<"none", 0>>)
    BY DEF Message
<1> QED BY <1>1, <1>2, ReplyIs

\* The packet of a step is one that a bank may hold, and its own.
LEMMA PacketsAre ==
    ASSUME NEW s \in PktSteps, NEW ps \in Seq(Classes), s >= 24 => ps[s - 23] \in Classes
    PROVE  /\ PacketOf(s, ps) \in Known /\ ~Foreign(PacketOf(s, ps))
           /\ PacketOf(s, ps).id = IF s < 8 THEN Id("w", s - 4) ELSE IF s < 20 THEN Id("ex", s - 7)
                                   ELSE Id("rx", s - 23)
<1>0. s \in Int /\ s \in (4..19) \cup (24..27)
    BY DEF PktSteps
<1> SUFFICES /\ PacketOf(s, ps) \in Known
             /\ PacketOf(s, ps).id = IF s < 8 THEN Id("w", s - 4) ELSE IF s < 20 THEN Id("ex", s - 7)
                                     ELSE Id("rx", s - 23)
    BY DEF Foreign, Id
<1>1. Queries = 1..4 /\ Classes = 0..3 /\ Examples = 1..12
    BY TextsAre DEF Queries, QuerySet, Classes
<1>2. CASE s < 8
  <2>1. s - 4 \in Classes
      BY <1>0, <1>1, <1>2
  <2> QED BY <1>0, <1>2, <2>1 DEF PacketOf, WeightPkt, P, Known, Sent
<1>3. CASE s >= 8 /\ s < 20
  <2>1. s - 7 \in Examples
      BY <1>0, <1>1, <1>3
  <2>2. PacketOf(s, ps) = ExamplePkt(s - 7)
      BY <1>0, <1>3 DEF PacketOf
  <2>3. ExamplePkt(s - 7) \in Sent
      BY <2>1 DEF Sent
  <2>4. ExamplePkt(s - 7).id = Id("ex", s - 7)
      BY DEF ExamplePkt, P
  <2> QED BY <1>0, <1>3, <2>2, <2>3, <2>4 DEF Known
<1>4. CASE s >= 20
  <2>1. s - 23 \in Queries /\ s >= 24
      BY <1>0, <1>1, <1>4
  <2>2. PacketOf(s, ps) = ReceiptPkt(s - 23, ps[s - 23])
      BY <1>0, <1>4, <2>1 DEF PacketOf
  <2>3. ReceiptPkt(s - 23, ps[s - 23]) \in Sent
      BY <2>1 DEF Sent
  <2>4. ReceiptPkt(s - 23, ps[s - 23]).id = Id("rx", s - 23)
      BY DEF ReceiptPkt, P
  <2> QED BY <1>0, <1>4, <2>1, <2>2, <2>3, <2>4 DEF Known
<1> QED BY <1>2, <1>3, <1>4 DEF PktSteps

\* What a command does to the bank: no record is lost but "old" ones, only another
\* program's makes room, and the others of other ids stay.
Kept(b, c, ids) ==
    \A i \in 1..PktMax : b[i] # Empty /\ b[i].id[1] # "old" =>
        /\ c[i] # Empty
        /\ c[i].id = b[i].id \/ (b[i].id[1] = "crowd" /\ c[i].d = b[i].d)
        /\ b[i].id[1] # "crowd" /\ b[i].id \notin ids => c[i] = b[i]

\* PKT stores the record and answers with it, or stores nothing.
LEMMA BoardPktIs ==
    ASSUME HostTypes, NEW p \in Known, ~Foreign(p), BoardPkt(p)
    PROVE  /\ Orderly(bank') /\ Kept(bank, bank', {p.id})
           /\ \/ out' = out \o Message("err")
              \/ /\ out' = out \o Reply("recv", p.id, p.body)
                 /\ \E i \in 1..PktMax : bank'[i] = p
<1>1. CASE Bank!StoreSlot(bank, p) = Bank!NoSlot
    BY <1>1 DEF BoardPkt, HostTypes, Kept
<1>2. CASE Bank!StoreSlot(bank, p) # Bank!NoSlot
  <2>1. bank' = Bank!StorePacket(bank, p) /\ out' = out \o Reply("recv", p.id, p.body)
      BY <1>2 DEF BoardPkt
  <2>2. Bank!StoreSlot(bank, p) # 0
      BY <1>2, SameScans
  <2>3. /\ Orderly(bank')
        /\ \E i \in 1..PktMax : bank'[i] = p
        /\ \A i \in 1..PktMax :
              bank[i] # Empty =>
                 bank'[i] # Empty /\ (bank'[i].id = bank[i].id \/ (Foreign(bank[i]) /\ bank'[i].d = bank[i].d))
        /\ \A i \in 1..PktMax :
              bank[i] # Empty /\ ~Foreign(bank[i]) /\ bank[i].id # p.id => bank'[i] = bank[i]
      BY <2>1, <2>2, StoreKeepsOrder DEF HostTypes
  <2> QED BY <2>1, <2>3 DEF Kept, Foreign
<1> QED BY <1>1, <1>2

\* DEL takes a record of that id from the bank.
LEMMA BoardDelIs ==
    ASSUME HostTypes, NEW n, BoardDel(Id("old", n))
    PROVE  /\ Orderly(bank') /\ Kept(bank, bank', {})
           /\ \E kind \in {"err", "deleted"} : out' = out \o Message(kind)
<1> DEFINE k == Lookup(Id("old", n))
<1>1. CASE k = Bank!NoSlot
    BY <1>1 DEF BoardDel, HostTypes, Kept
<1>2. CASE k # Bank!NoSlot
  <2>1. bank \in Bankful
      BY KnownTypes DEF HostTypes, Orderly, Bankful
  <2>2. k \in 1..PktMax /\ bank[k] # Empty /\ bank[k].id = Id("old", n)
      BY <1>2, <2>1, SameScans, LookupIs DEF Lookup
  <2>3. bank' = [bank EXCEPT ![k] = Empty] /\ out' = out \o Message("deleted")
      BY <1>2 DEF BoardDel
  <2>4. Orderly(bank')
      BY <2>3, DeleteKeepsOrder DEF HostTypes
  <2>5. bank[k].id[1] = "old"
      BY <2>2 DEF Id
  <2>6. \A i \in 1..PktMax : bank[i].id[1] # "old" => bank'[i] = bank[i]
      BY <2>3, <2>5 DEF HostTypes, Orderly
  <2> QED BY <2>3, <2>4, <2>6 DEF Kept
<1> QED BY <1>1, <1>2

\* GET answers with the record of that id.
LEMMA BoardGetIs ==
    ASSUME HostTypes, NEW id, BoardGet(id)
    PROVE  /\ bank' = bank
           /\ \/ out' = out \o Message("err")
              \/ \E i \in 1..PktMax :
                    /\ bank[i] \in Known /\ bank[i].id = id
                    /\ out' = out \o Reply("got", id, bank[i].body)
<1> DEFINE k == Lookup(id)
<1>1. CASE k = Bank!NoSlot
    BY <1>1 DEF BoardGet
<1>2. CASE k # Bank!NoSlot
  <2>1. bank \in Bankful
      BY KnownTypes DEF HostTypes, Orderly, Bankful
  <2>2. k \in 1..PktMax /\ bank[k] # Empty /\ bank[k].id = id
      BY <1>2, <2>1, SameScans, LookupIs DEF Lookup
  <2>3. bank[k] \in Known
      BY <2>2 DEF HostTypes, Orderly
  <2> QED BY <1>2, <2>2, <2>3 DEF BoardGet
<1> QED BY <1>1, <1>2

\* A record of the bank is printed as it is.
LEMMA KnownReply ==
    ASSUME HostTypes, NEW i \in 1..PktMax, bank[i] # Empty, NEW kind \in {"got", "dump"}
    PROVE  LET r == Reply(kind, bank[i].id, bank[i].body) IN
           /\ r \in Seq(ReplyPieces) /\ Len(r) = 2
           /\ r[1].head /\ r[1].kind = kind /\ r[1].id = bank[i].id /\ r[1].body = bank[i].body /\ ~r[2].head
<1>1. bank[i] \in Bank!Packet
    BY KnownTypes DEF HostTypes, Orderly
<1>2. bank[i].id \in AllIds /\ bank[i].body \in AllBodies
    BY <1>1 DEF Bank!Packet
<1> QED BY <1>2, ReplyIs

\* DUMP prints two pieces for each record, and no more than the bank holds.
LEMMA DumpIs ==
    ASSUME HostTypes, BoardDump
    PROVE  bank' = bank /\ \E r \in Seq(ReplyPieces) : Len(r) <= 2 * PktMax /\ out' = out \o r
<1> DEFINE S == Seq(ReplyPieces)
           e(i) == IF bank[i] = Empty THEN <<>> ELSE Reply("dump", bank[i].id, bank[i].body)
           all == CHOOSE f : f = [i \in 0..PktMax |-> IF i = 0 THEN <<>> ELSE f[i - 1] \o e(i)]
           Sound(f, m) == /\ f[0] = <<>>
                          /\ \A i \in 1..m : f[i] = f[i - 1] \o e(i)
           T == {m \in 0..PktMax : \E f \in [0..m -> S] : Sound(f, m)}
<1>1. PktMax \in Nat
    BY HostModelAssumption
<1>2. out' = out \o all[PktMax] /\ bank' = bank
    BY Zenon DEF BoardDump
<1>40. <<>> \in S /\ Len(<<>>) = 0
    OBVIOUS
<1>3. ASSUME NEW i \in 1..PktMax
      PROVE  e(i) \in S /\ Len(e(i)) \in 0..2
  <2>1. CASE bank[i] = Empty
    <3>1. e(i) = <<>>
        BY <2>1
    <3> HIDE DEF e, S
    <3> QED BY <3>1, <1>40
  <2>2. CASE bank[i] # Empty
    <3>1. Reply("dump", bank[i].id, bank[i].body) \in S /\ Len(Reply("dump", bank[i].id, bank[i].body)) = 2
        BY <2>2, KnownReply
    <3>2. e(i) = Reply("dump", bank[i].id, bank[i].body)
        BY <2>2
    <3> HIDE DEF e, S
    <3> QED BY <3>1, <3>2
  <2> QED BY <2>1, <2>2
<1> HIDE DEF e
<1>4. \A s, t \in S : s \o t \in S /\ Len(s \o t) = Len(s) + Len(t)
    BY JoinedAt
<1> HIDE DEF S
<1>5. 0 \in T
  <2> DEFINE w == [i \in 0..0 |-> <<>>]
  <2>1. w \in [0..0 -> S] /\ Sound(w, 0)
      BY <1>40
  <2> HIDE DEF w, Sound
  <2> QED BY <1>1, <2>1
<1>6. ASSUME NEW i \in 0..PktMax, i # 0, i - 1 \in T
      PROVE  i \in T
  <2>1. PICK f \in [0..(i - 1) -> S] : Sound(f, i - 1)
      BY <1>6
  <2> DEFINE w == [j \in 0..i |-> IF j = i THEN f[i - 1] \o e(i) ELSE f[j]]
  <2>2. f[i - 1] \o e(i) \in S
      BY <1>3, <1>4, <1>6
  <2>3. w \in [0..i -> S]
      BY <2>2, <1>6
  <2>4. w[0] = <<>>
      BY <2>1, <1>6
  <2>5. ASSUME NEW j \in 1..i
        PROVE  w[j] = w[j - 1] \o e(j)
    <3>1. w[j - 1] = f[j - 1] /\ (j # i => w[j] = f[j] /\ j \in 1..(i - 1)) /\ w[i] = f[i - 1] \o e(i)
        BY <1>6
    <3> HIDE DEF w
    <3> QED BY <3>1, <2>1
  <2> HIDE DEF w
  <2> QED BY <1>6, <2>3, <2>4, <2>5
<1>7. PktMax \in T
  <2> HIDE DEF T
  <2>1. 0..PktMax \subseteq T
      BY <1>1, <1>5, <1>6, Climb
  <2> QED BY <1>1, <2>1
<1>8. PICK f \in [0..PktMax -> S] : Sound(f, PktMax)
    BY <1>7
<1>9. f = [i \in 0..PktMax |-> IF i = 0 THEN <<>> ELSE f[i - 1] \o e(i)]
  <2>1. \A i \in 0..PktMax : f[i] = IF i = 0 THEN <<>> ELSE f[i - 1] \o e(i)
      BY <1>1, <1>8
  <2> QED BY <2>1
<1>10. all = [i \in 0..PktMax |-> IF i = 0 THEN <<>> ELSE all[i - 1] \o e(i)]
    BY <1>9, Zenon
<1> HIDE DEF all
<1> DEFINE U == {m \in 0..PktMax : all[m] \in S /\ Len(all[m]) <= 2 * m}
<1>11. 0 \in U
    BY <1>1, <1>10, <1>40
<1>12. ASSUME NEW i \in 0..PktMax, i # 0, i - 1 \in U
       PROVE  i \in U
  <2>1. all[i] = all[i - 1] \o e(i)
      BY <1>10, <1>12
  <2>2. e(i) \in S /\ Len(e(i)) \in 0..2 /\ all[i - 1] \in S /\ Len(all[i - 1]) <= 2 * (i - 1)
      BY <1>3, <1>12
  <2>3. all[i] \in S /\ Len(all[i]) = Len(all[i - 1]) + Len(e(i))
      BY <2>1, <2>2, <1>4
  <2>4. Len(all[i - 1]) \in Nat /\ Len(e(i)) \in Nat
      BY <2>2 DEF S
  <2>5. Len(all[i]) <= 2 * i
    <3>1. \A x, y \in Nat : x <= 2 * (i - 1) /\ y \in 0..2 => x + y <= 2 * i
        OBVIOUS
    <3> HIDE DEF U
    <3> QED BY <3>1, <2>2, <2>3, <2>4
  <2> QED BY <2>3, <2>5
<1>13. PktMax \in U
  <2> HIDE DEF U
  <2>1. 0..PktMax \subseteq U
      BY <1>1, <1>11, <1>12, Climb
  <2> QED BY <1>1, <2>1
<1> QED BY <1>2, <1>13 DEF S

\* The step of each command.
LEMMA StepCommands ==
    ASSUME step \in 1..28
    PROVE  /\ Now.do = "ID" => step = 1
           /\ Now.do = "DEL" => step \in 2..3
           /\ Now.do = "PKT_W" => step \in 4..7 /\ Now.n = step - 4
           /\ Now.do = "PKT_EX" => step \in 8..19 /\ Now.n = step - 7
           /\ Now.do = "GET" => step \in 20..23 /\ Now.n = step - 20
           /\ Now.do = "PKT_RX" => step \in 24..27 /\ Now.n = step - 23
           /\ Now.do = "DUMP" => step = 28
<1>1. step = 1 \/ step \in 2..3 \/ step \in 4..7 \/ step \in 8..19 \/ step \in 20..23
        \/ step \in 24..27 \/ step = 28
    OBVIOUS
<1>2. CASE step = 1
    BY <1>2, ScriptIs DEF Now
<1>3. CASE step \in 2..3
    BY <1>3, ScriptIs DEF Now
<1>4. CASE step \in 4..7
    BY <1>4, ScriptIs DEF Now
<1>5. CASE step \in 8..19
    BY <1>5, ScriptIs DEF Now
<1>6. CASE step \in 20..23
    BY <1>6, ScriptIs DEF Now
<1>7. CASE step \in 24..27
    BY <1>7, ScriptIs DEF Now
<1>8. CASE step = 28
    BY <1>8, ScriptIs DEF Now
<1> QED BY <1>1, <1>2, <1>3, <1>4, <1>5, <1>6, <1>7, <1>8

\* What the board does with the command of a step, and the answer r it prints.
Answer(r) ==
    \/ \E kind \in {"id", "deleted", "err"} : r = Message(kind)
    \/ /\ step \in PktSteps
       /\ LET p == PacketOf(step, preds') IN
          r = Reply("recv", p.id, p.body) /\ \E i \in 1..PktMax : bank'[i] = p
    \/ /\ step \in 20..23 /\ bank' = bank
       /\ \E i \in 1..PktMax :
             /\ bank[i] \in Known /\ bank[i].id = Id("w", step - 20)
             /\ r = Reply("got", bank[i].id, bank[i].body)

\* The seven commands.
LEMMA ExecuteIs ==
    ASSUME HostTypes, step \in 1..28, ~waiting, Infer, Execute
    PROVE  /\ Orderly(bank')
           /\ Kept(bank, bank', IF step \in PktSteps THEN {PacketOf(step, preds').id} ELSE {})
           /\ \E r \in Seq(ReplyPieces) :
                 /\ out' = out \o r
                 /\ Len(r) <= IF step = 28 THEN 2 * PktMax ELSE 2
                 /\ step # 28 => Answer(r)
<1> DEFINE ids == IF step \in PktSteps THEN {PacketOf(step, preds').id} ELSE {}
           Printing(r) == r \in Seq(ReplyPieces) /\ out' = out \o r
                            /\ Len(r) <= (IF step = 28 THEN 2 * PktMax ELSE 2) /\ (step # 28 => Answer(r))
<1>1. Orderly(bank) /\ Kept(bank, bank, ids) /\ \A i \in 1..PktMax : bank[i] \in Known \cup {Empty}
    BY DEF HostTypes, Kept, Orderly
<1>2. ASSUME NEW kind \in {"id", "deleted", "err"}, out' = out \o Message(kind), step # 28
      PROVE  \E r : Printing(r)
  <2>1. Message(kind) \in Seq(ReplyPieces) /\ Len(Message(kind)) = 2
      BY MessageIs
  <2>2. Answer(Message(kind))
      BY DEF Answer
  <2>3. Printing(Message(kind))
      BY <1>2, <2>1, <2>2
  <2> QED BY <2>3
<1>3. ASSUME step \in PktSteps, BoardPkt(PacketOf(step, preds'))
      PROVE  Orderly(bank') /\ Kept(bank, bank', ids) /\ \E r : Printing(r)
  <2> DEFINE p == PacketOf(step, preds')
  <2>1. preds' \in Seq(Classes) /\ (step >= 24 => preds'[step - 23] \in Classes)
      BY <1>3, InferIs DEF PktSteps
  <2>2. p \in Known /\ ~Foreign(p)
      BY <1>3, <2>1, PacketsAre
  <2>3. p.id \in AllIds /\ p.body \in AllBodies
      BY <2>2, KnownTypes DEF Bank!Packet
  <2> HIDE DEF p
  <2>4. /\ Orderly(bank') /\ Kept(bank, bank', {p.id})
        /\ \/ out' = out \o Message("err")
           \/ /\ out' = out \o Reply("recv", p.id, p.body)
              /\ \E i \in 1..PktMax : bank'[i] = p
      BY <1>3, <2>2, BoardPktIs DEF p
  <2>5. step # 28
      BY <1>3 DEF PktSteps
  <2>6. CASE out' = out \o Message("err")
      BY <1>2, <1>3, <2>4, <2>5, <2>6 DEF p
  <2>7. CASE /\ out' = out \o Reply("recv", p.id, p.body)
             /\ \E i \in 1..PktMax : bank'[i] = p
    <3>1. Reply("recv", p.id, p.body) \in Seq(ReplyPieces) /\ Len(Reply("recv", p.id, p.body)) = 2
        BY <2>3, ReplyIs
    <3>2. Answer(Reply("recv", p.id, p.body))
        BY <1>3, <2>7 DEF Answer, p
    <3>3. Printing(Reply("recv", p.id, p.body))
        BY <2>5, <2>7, <3>1, <3>2
    <3> QED BY <1>3, <2>4, <3>3 DEF p
  <2> QED BY <2>4, <2>6, <2>7
<1>4. CASE Now.do = "ID" /\ out' = out \o Message("id") /\ UNCHANGED bank
  <2>1. step = 1
      BY <1>4, StepCommands
  <2>2. \E r : Printing(r)
    <3>1. "id" \in {"id", "deleted", "err"} /\ out' = out \o Message("id") /\ step # 28
        BY <1>4, <2>1
    <3> HIDE DEF Printing
    <3> QED BY <1>2, <3>1, Zenon
  <2>3. Orderly(bank') /\ Kept(bank, bank', ids)
      BY <1>1, <1>4
  <2> QED BY <2>2, <2>3
<1>5. CASE Now.do = "DEL" /\ BoardDel(Id("old", Now.n))
  <2>1. step \in 2..3 /\ step \notin PktSteps /\ step # 28
      BY <1>5, StepCommands DEF PktSteps
  <2>2. /\ Orderly(bank') /\ Kept(bank, bank', {})
        /\ \E kind \in {"err", "deleted"} : out' = out \o Message(kind)
      BY <1>5, BoardDelIs
  <2> QED BY <1>2, <2>1, <2>2
<1>6. CASE Now.do = "PKT_W" /\ BoardPkt(WeightPkt(Now.n))
  <2>1. step \in 4..7 /\ Now.n = step - 4
      BY <1>6, StepCommands
  <2>2. step \in PktSteps /\ PacketOf(step, preds') = WeightPkt(Now.n)
      BY <2>1 DEF PktSteps, PacketOf
  <2> QED BY <1>3, <1>6, <2>2
<1>7. CASE Now.do = "PKT_EX" /\ BoardPkt(ExamplePkt(Now.n))
  <2>1. step \in 8..19 /\ Now.n = step - 7
      BY <1>7, StepCommands
  <2>2. step \in PktSteps /\ PacketOf(step, preds') = ExamplePkt(Now.n)
      BY <2>1 DEF PktSteps, PacketOf
  <2> QED BY <1>3, <1>7, <2>2
<1>8. CASE Now.do = "PKT_RX" /\ BoardPkt(ReceiptPkt(Now.n, preds'[Now.n]))
  <2>1. step \in 24..27 /\ Now.n = step - 23
      BY <1>8, StepCommands
  <2>2. step \in PktSteps /\ PacketOf(step, preds') = ReceiptPkt(Now.n, preds'[Now.n])
      BY <2>1 DEF PktSteps, PacketOf
  <2> QED BY <1>3, <1>8, <2>2
<1>9. CASE Now.do = "GET" /\ BoardGet(Id("w", Now.n))
  <2>1. step \in 20..23 /\ Now.n = step - 20 /\ step \notin PktSteps /\ step # 28
      BY <1>9, StepCommands DEF PktSteps
  <2>2. /\ bank' = bank
        /\ \/ out' = out \o Message("err")
           \/ \E i \in 1..PktMax :
                 /\ bank[i] \in Known /\ bank[i].id = Id("w", Now.n)
                 /\ out' = out \o Reply("got", Id("w", Now.n), bank[i].body)
      BY <1>9, BoardGetIs
  <2>3. CASE out' = out \o Message("err")
      BY <1>1, <1>2, <2>1, <2>2, <2>3
  <2>4. ASSUME NEW i \in 1..PktMax, bank[i] \in Known, bank[i].id = Id("w", Now.n),
               out' = out \o Reply("got", Id("w", Now.n), bank[i].body)
        PROVE  \E r : Printing(r)
    <3> DEFINE r == Reply("got", bank[i].id, bank[i].body)
    <3>1. bank[i] # Empty
        BY <2>4, KnownTypes, EmptyAssumption
    <3>2. r \in Seq(ReplyPieces) /\ Len(r) = 2
        BY <3>1, KnownReply
    <3>3. Answer(r)
        BY <2>1, <2>2, <2>4 DEF Answer
    <3>4. out' = out \o r
        BY <2>4
    <3> HIDE DEF r
    <3>5. Printing(r)
        BY <2>1, <3>2, <3>3, <3>4
    <3> QED BY <3>5
  <2> QED BY <1>1, <2>2, <2>3, <2>4
<1>10. CASE Now.do = "DUMP" /\ BoardDump
  <2>1. step = 28
      BY <1>10, StepCommands
  <2>2. bank' = bank /\ \E r \in Seq(ReplyPieces) : Len(r) <= 2 * PktMax /\ out' = out \o r
      BY <1>10, DumpIs
  <2> QED BY <1>1, <2>1, <2>2
<1>11. Orderly(bank') /\ Kept(bank, bank', ids) /\ \E r : Printing(r)
    BY <1>4, <1>5, <1>6, <1>7, <1>8, <1>9, <1>10 DEF Execute
<1> QED BY <1>11

-----------------------------------------------------------------------------
\* ssos_model: what a window takes.

\* What a window received and what it left, by their places in what was printed.
LEMMA ReceivedIs ==
    ASSUME HostTypes, NEW k \in 0..Len(out), NEW x \in 0..k
    PROVE  LET win == Received(k, x)
               rest == SubSeq(out, k + 1, Len(out)) IN
           /\ win \in Seq(ReplyPieces) /\ Len(win) = (IF x = 0 THEN k ELSE k - 1)
           /\ \A i \in 1..Len(win) : win[i] = out[IF x = 0 \/ i < x THEN i ELSE i + 1]
           /\ rest \in Seq(ReplyPieces) /\ Len(rest) = Len(out) - k
           /\ \A i \in 1..Len(rest) : rest[i] = out[i + k]
<1> DEFINE S == Seq(ReplyPieces)
           rest == SubSeq(out, k + 1, Len(out))
<1>1. out \in S /\ Len(out) \in Nat
    BY DEF HostTypes
<1>2. ASSUME NEW i \in 1..(Len(out) + 1), NEW j \in 0..Len(out), i <= j + 1
      PROVE  /\ SubSeq(out, i, j) \in S /\ Len(SubSeq(out, i, j)) = j - i + 1
             /\ \A m \in 1..(j - i + 1) : SubSeq(out, i, j)[m] = out[m + i - 1]
  <2> USE <1>1, <1>2
  <2>1. SubSeq(out, i, j) \in S
      BY SubSeqProperties
  <2> QED BY <2>1, SubSeqProperties
<1>3. rest \in S /\ Len(rest) = Len(out) - k /\ \A i \in 1..Len(rest) : rest[i] = out[i + k]
    BY <1>1, <1>2
<1>4. CASE x = 0
  <2>1. Received(k, x) = SubSeq(out, 1, k) \o <<>>
      BY <1>4 DEF Received
  <2>2. SubSeq(out, 1, k) \in S /\ Len(SubSeq(out, 1, k)) = k /\ \A m \in 1..k : SubSeq(out, 1, k)[m] = out[m]
      BY <1>1, <1>2
  <2>3. Received(k, x) = SubSeq(out, 1, k)
      BY <2>1, <2>2, ConcatEmptySeq
  <2> QED BY <1>3, <1>4, <2>2, <2>3
<1>5. CASE x # 0
  <2> DEFINE a == SubSeq(out, 1, x - 1)
             b == SubSeq(out, x + 1, k)
  <2>1. Received(k, x) = a \o b
      BY <1>5 DEF Received
  <2>2. a \in S /\ Len(a) = x - 1 /\ \A m \in 1..(x - 1) : a[m] = out[m]
      BY <1>1, <1>2, <1>5
  <2>3. b \in S /\ Len(b) = k - x /\ \A m \in 1..(k - x) : b[m] = out[m + x]
      BY <1>1, <1>2, <1>5
  <2> HIDE DEF a, b
  <2>4. /\ a \o b \in S /\ Len(a \o b) = Len(a) + Len(b)
        /\ \A i \in 1..(Len(a) + Len(b)) : (a \o b)[i] = IF i <= Len(a) THEN a[i] ELSE b[i - Len(a)]
      BY <2>2, <2>3, JoinedAt, Zenon
  <2> DEFINE win == a \o b
  <2> HIDE DEF win, rest
  <2>5. win \in S /\ Len(win) = k - 1
      BY <2>2, <2>3, <2>4 DEF win
  <2>6. ASSUME NEW i \in 1..(k - 1)
        PROVE  win[i] = out[IF x = 0 \/ i < x THEN i ELSE i + 1]
    <3>1. win[i] = IF i <= x - 1 THEN a[i] ELSE b[i - (x - 1)]
        BY <2>2, <2>3, <2>4 DEF win
    <3>2. CASE i < x
        BY <3>1, <3>2, <2>2
    <3>3. CASE i >= x
      <4>1. i - (x - 1) \in 1..(k - x)
          BY <3>3, <1>5
      <4> QED BY <3>1, <3>3, <4>1, <2>3, <1>5
    <3> QED BY <3>2, <3>3
  <2> QED BY <1>3, <1>5, <2>1, <2>5, <2>6 DEF win, rest
<1> QED BY <1>4, <1>5

\* The row that parse_body_ints finds is in the first reply with a body.
LEMMA BodyIs ==
    ASSUME NEW win \in Seq(ReplyPieces), NEW v \in Body(win)
    PROVE  \E i \in Heads(win, "recv") \cup Heads(win, "got") :
              /\ win[i].body[1] = "row"
              /\ v \in {win[i].body, <<"cut", win[i].body[2]>>, <<"none", 0>>}
<1> DEFINE B == {i \in 1..Len(win) : win[i].head /\ win[i].kind \in {"recv", "got"}}
           m == CHOOSE i \in B : \A j \in B : i <= j
<1>1. B \subseteq Nat /\ B = Heads(win, "recv") \cup Heads(win, "got")
    BY DEF Heads
<1>2. /\ B # {} /\ win[m].body[1] = "row"
      /\ v \in {win[m].body, <<"cut", win[m].body[2]>>, <<"none", 0>>}
    BY DEF Body
<1>3. m \in B
  <2> HIDE DEF B
  <2>1. \E i \in B : \A j \in B : i <= j
      BY <1>1, <1>2, LeastOf
  <2> QED BY <2>1, Zenon
<1> HIDE DEF m, B
<1> QED BY <1>1, <1>2, <1>3

\* A body of the kind of a row is a row of some class.
LEMMA RowBodies ==
    ASSUME NEW q \in ReplyPieces, q.body[1] = "row"
    PROVE  q.body[2] \in Classes /\ q.body = <<"row", q.body[2]>>
<1>1. q.body \in AllBodies \cup {<<"none", 0>>}
    BY DEF ReplyPieces
<1>2. q.body \in {"row", "label"} \X Classes
    BY <1>1 DEF AllBodies
<1> QED BY <1>2

\* A window that takes the first k pieces and loses piece x, and its judgement.
Judged(k, x) ==
    /\ Len(out) - k <= Lag
    /\ x # 0 => lost < MaxLost
    /\ out' = SubSeq(out, k + 1, Len(out))
    /\ lost' = IF x = 0 THEN lost ELSE lost + 1
    /\ LET win == Received(k, x) IN
       \/ /\ Now.do = "ID"
          /\ failed' = (Heads(win, "id") = {})
          /\ step' = IF failed' THEN Done ELSE step + 1
          /\ UNCHANGED chip
       \/ /\ Now.do = "DEL"
          /\ step' = step + 1
          /\ UNCHANGED <<failed, chip>>
       \/ /\ Now.do \in {"PKT_W", "PKT_EX", "PKT_RX"}
          /\ failed' = (failed \/ ~Stored(win))
          /\ step' = step + 1
          /\ UNCHANGED chip
       \/ /\ Now.do = "GET"
          /\ ReadBack(win)
          /\ step' = step + 1
       \/ /\ Now.do = "DUMP"
          /\ failed' = (failed \/ ~DumpMatches(Printed(win)))
          /\ step' = Done
          /\ UNCHANGED chip

\* What any window changes, whatever it takes in.
LEMMA WindowIs ==
    ASSUME Listen
    PROVE  /\ \E k \in 0..Len(out) : \E x \in 0..k : Judged(k, x)
           /\ waiting /\ waiting' = FALSE /\ bank' = bank /\ preds' = preds
BY Zenon DEF Listen, Judged

\* A window goes on to the next command, or gives up at the first.
LEMMA HostWindowTypes ==
    ASSUME HostTypes, step \in 1..28, Listen
    PROVE  /\ chip' \in [Classes -> {<<"zero", 0>>} \cup ({"row", "cut"} \X Classes)]
           /\ failed' \in BOOLEAN
           /\ step' = step + 1 \/ (step = 1 /\ step' = 29 /\ failed')
           /\ \E k \in 0..Len(out) : Len(out) - k <= Lag /\ out' = SubSeq(out, k + 1, Len(out))
           /\ lost' \in 0..MaxLost
<1>0. PICK k \in 0..Len(out) : \E x \in 0..k : Judged(k, x)
    BY WindowIs
<1>1. PICK x \in 0..k : Judged(k, x)
    BY <1>0
<1> USE DEF Judged
<1>2. lost' \in 0..MaxLost
    BY <1>1, HostModelAssumption DEF HostTypes
<1> DEFINE win == Received(k, x)
<1>3. win \in Seq(ReplyPieces)
    BY ReceivedIs
<1>4. Done = 29
    BY ScriptIs DEF Done
<1>5. chip \in [Classes -> {<<"zero", 0>>} \cup ({"row", "cut"} \X Classes)] /\ failed \in BOOLEAN
    BY DEF HostTypes
<1>6. ASSUME ReadBack(win), Now.n \in Classes
      PROVE  /\ chip' \in [Classes -> {<<"zero", 0>>} \cup ({"row", "cut"} \X Classes)]
             /\ failed' \in BOOLEAN
  <2> HIDE DEF win
  <2>1. CASE failed' = TRUE /\ UNCHANGED chip
      BY <2>1, <1>5
  <2>2. ASSUME NEW v \in Body(win),
               chip' = IF v[1] = "none" THEN chip ELSE [chip EXCEPT ![Now.n] = v],
               failed' = (failed \/ v[1] = "none")
        PROVE  /\ chip' \in [Classes -> {<<"zero", 0>>} \cup ({"row", "cut"} \X Classes)]
               /\ failed' \in BOOLEAN
    <3>1. PICK i \in Heads(win, "recv") \cup Heads(win, "got") :
             /\ win[i].body[1] = "row"
             /\ v \in {win[i].body, <<"cut", win[i].body[2]>>, <<"none", 0>>}
        BY <1>3, BodyIs
    <3>2. win[i] \in ReplyPieces
        BY <1>3 DEF Heads
    <3>3. win[i].body[2] \in Classes /\ win[i].body = <<"row", win[i].body[2]>>
        BY <3>1, <3>2, RowBodies
    <3>4. PICK c \in Classes : v \in {<<"row", c>>, <<"cut", c>>, <<"none", 0>>}
      <4> DEFINE b == win[i].body
                 c == b[2]
      <4>1. c \in Classes /\ b = <<"row", c>> /\ v \in {b, <<"cut", c>>, <<"none", 0>>}
          BY <3>1, <3>3
      <4> HIDE DEF b, c
      <4> QED BY <4>1
    <3>5. v[1] = "none" \/ v \in {"row", "cut"} \X Classes
        BY <3>4
    <3> QED BY <2>2, <3>5, <1>5
  <2> QED BY <2>1, <2>2, <1>6 DEF ReadBack
<1>7. CASE Now.do = "ID"
  <2>1. step = 1
      BY <1>7, StepCommands
  <2> QED BY <1>1, <1>2, <1>4, <1>5, <1>7, <2>1
<1>8. CASE Now.do = "DUMP"
  <2>1. step = 28
      BY <1>8, StepCommands
  <2> QED BY <1>1, <1>2, <1>4, <1>5, <1>8, <2>1
<1>9. CASE Now.do = "GET"
  <2>1. Now.n \in Classes
      BY <1>9, StepCommands DEF Classes
  <2>2. ReadBack(win) /\ step' = step + 1
      BY <1>1, <1>9
  <2> QED BY <1>1, <1>2, <1>6, <2>1, <2>2
<1>10. CASE Now.do \notin {"ID", "DUMP", "GET"}
    BY <1>1, <1>2, <1>5, <1>10
<1> QED BY <1>7, <1>8, <1>9, <1>10

\* Inference before a receipt adds the one prediction that is due.
LEMMA PredictionsKept ==
    ASSUME HostTypes, step \in 1..28, ~waiting, Infer, waiting', step' = step
    PROVE  Predicted'
<1>1. preds' \in Seq(Classes)
    BY InferIs
<1>2. CASE step \in 24..27
    BY <1>1, <1>2, InferIs DEF Predicted
<1>3. CASE step \notin 24..27
    BY <1>1, <1>3, InferIs DEF Predicted, HostTypes
<1> QED BY <1>2, <1>3

\* The types hold on.
LEMMA HostTypesKept ==
    ASSUME HostTypes, [Next]_vars
    PROVE  HostTypes'
<1>1. Lag \in Nat /\ PktMax \in Nat /\ MaxLost \in Nat
    BY HostModelAssumption
<1>2. CASE UNCHANGED vars
  <2>1. UNCHANGED <<step, waiting, bank, out, chip, preds, failed, lost>>
      BY <1>2 DEF vars
  <2>2. (Room' = Room) /\ (Predicted' <=> Predicted) /\ (Orderly(bank)' <=> Orderly(bank))
      BY <2>1 DEF Room, Predicted, Orderly
  <2> QED BY <2>1, <2>2 DEF HostTypes
<1>3. CASE Send
  <2>1. step \in 1..28 /\ ~waiting /\ Infer /\ Execute /\ waiting' /\ UNCHANGED <<step, chip, lost>>
      BY <1>3, ScriptIs DEF Send, HostTypes, Done
  <2>2. PICK r \in Seq(ReplyPieces) : out' = out \o r /\ Len(r) <= IF step = 28 THEN 2 * PktMax ELSE 2
      BY <2>1, ExecuteIs
  <2>3. out' \in Seq(ReplyPieces) /\ Len(out') = Len(out) + Len(r)
      BY <2>2, JoinedAt DEF HostTypes
  <2>4. Len(out) \in Nat /\ Len(r) \in Nat
      BY <2>2 DEF HostTypes
  <2>5. Len(out') <= Room'
      BY <1>1, <2>1, <2>2, <2>3, <2>4 DEF HostTypes, Room
  <2>6. Orderly(bank')
      BY <2>1, ExecuteIs
  <2>7. failed' \in BOOLEAN
      BY <2>1, InferIs
  <2>8. Predicted'
      BY <2>1, PredictionsKept
  <2> QED BY <2>1, <2>3, <2>5, <2>6, <2>7, <2>8 DEF HostTypes, Send
<1>4. CASE SendFails
  <2>1. /\ step \in 1..28 /\ ~waiting /\ Infer /\ waiting' /\ UNCHANGED <<step, bank, out, chip>>
        /\ lost < MaxLost /\ lost' = lost + 1
      BY <1>4, ScriptIs DEF SendFails, HostTypes, Done
  <2>2. Len(out') <= Room' /\ lost' \in 0..MaxLost
      BY <1>1, <2>1 DEF HostTypes, Room
  <2>3. failed' \in BOOLEAN
      BY <2>1, InferIs
  <2>4. Predicted'
      BY <2>1, PredictionsKept
  <2>5. Orderly(bank')
      BY <2>1 DEF HostTypes
  <2> QED BY <2>1, <2>2, <2>3, <2>4, <2>5 DEF HostTypes, SendFails
<1>5. CASE Listen
  <2>0. waiting /\ waiting' = FALSE /\ bank' = bank /\ preds' = preds
      BY <1>5, WindowIs
  <2>1. /\ waiting /\ ~waiting' /\ waiting' \in BOOLEAN /\ bank' = bank /\ preds' = preds
        /\ step \in 1..28
    <3>1. waiting /\ ~waiting' /\ waiting' \in BOOLEAN
        BY <2>0, Zenon
    <3>2. step \in 1..29 /\ step # 29
        BY <3>1, Zenon DEF HostTypes
    <3> QED BY <2>0, <3>1, <3>2
  <2>2. PICK k \in 0..Len(out) : Len(out) - k <= Lag /\ out' = SubSeq(out, k + 1, Len(out))
      BY <1>5, <2>1, HostWindowTypes
  <2>3. out' \in Seq(ReplyPieces) /\ Len(out') = Len(out) - k
    <3>1. 0 \in 0..k
        BY <2>2 DEF HostTypes
    <3> QED BY <2>2, <3>1, ReceivedIs
  <2>4. step' = step + 1 \/ (step = 1 /\ step' = 29 /\ failed')
      BY <1>5, <2>1, HostWindowTypes
  <2>5. Len(out') <= Room'
      BY <2>1, <2>2, <2>3, <2>4 DEF Room
  <2>6. Predicted'
      BY <2>1, <2>4 DEF Predicted, HostTypes
  <2>7. Orderly(bank')
      BY <2>1 DEF HostTypes
  <2>8. /\ chip' \in [Classes -> {<<"zero", 0>>} \cup ({"row", "cut"} \X Classes)]
        /\ failed' \in BOOLEAN /\ lost' \in 0..MaxLost
      BY <1>5, <2>1, HostWindowTypes
  <2>9. step' \in 1..29
    <3>1. step' = step + 1 \/ step' = 29
        BY <2>4, Zenon
    <3>2. step \in 1..28
        BY <2>1
    <3>3. step + 1 \in 1..29 /\ 29 \in 1..29
        BY <3>2
    <3> QED BY <3>1, <3>3
  <2> QED BY <2>1, <2>3, <2>5, <2>6, <2>7, <2>8, <2>9, Zenon DEF HostTypes
<1> QED BY <1>2, <1>3, <1>4, <1>5 DEF Next

\* No command but DEL takes a record away, and only another program's makes room.
LEMMA RecordsKept ==
    ASSUME HostTypes, [Next]_vars
    PROVE  \A i \in 1..PktMax :
              bank[i] # Empty /\ bank[i].id[1] # "old" =>
                 /\ bank'[i] # Empty
                 /\ \/ bank'[i].id = bank[i].id
                    \/ bank[i].id[1] = "crowd" /\ bank'[i].d = bank[i].d
<1>1. CASE bank' = bank
    BY <1>1
<1>2. CASE Send
  <2>1. step \in 1..28 /\ ~waiting /\ Infer /\ Execute
      BY <1>2, ScriptIs DEF Send, HostTypes, Done
  <2> QED BY <2>1, ExecuteIs DEF Kept
<1> QED BY <1>1, <1>2 DEF Next, SendFails, Listen, vars

\* Initially the types hold and the crowd's records are apart.
LEMMA HostStarts == Init => HostTypes
<1> SUFFICES ASSUME Init PROVE HostTypes
    OBVIOUS
<1>1. Orderly(bank)
    BY InitialOrder
<1>2. MaxLost \in Nat
    BY HostModelAssumption
<1>3. chip \in [Classes -> {<<"zero", 0>>} \cup ({"row", "cut"} \X Classes)]
    BY DEF Init, Unread
<1>4. out \in Seq(ReplyPieces) /\ Len(out) <= 2
  <2>1. Id("w", 3) \in AllIds /\ Id("w", 1) \in AllIds
      BY DEF Id, AllIds
  <2>2. <<"row", 3>> \in AllBodies /\ <<"row", 1>> \in AllBodies
      BY DEF AllBodies, Classes
  <2>30. \A kind \in {"recv", "got"}, id \in AllIds, body \in AllBodies :
            Reply(kind, id, body) \in Seq(ReplyPieces) /\ Len(Reply(kind, id, body)) = 2
      BY ReplyIs
  <2>3. CASE out = <<>>
      BY <2>3
  <2>4. CASE out = Reply("recv", Id("w", 3), <<"row", 3>>)
    <3>1. out \in Seq(ReplyPieces) /\ Len(out) = 2
        BY <2>1, <2>2, <2>4, <2>30, Zenon
    <3> QED BY <3>1
  <2>5. CASE out = Reply("got", Id("w", 1), <<"row", 1>>)
    <3>1. out \in Seq(ReplyPieces) /\ Len(out) = 2
        BY <2>1, <2>2, <2>5, <2>30, Zenon
    <3> QED BY <3>1
  <2> QED BY <2>3, <2>4, <2>5 DEF Init
<1>5. preds = <<>> /\ step = 1 /\ waiting = FALSE /\ failed = FALSE /\ lost = 0
    BY DEF Init
<1>6. preds \in Seq(Classes) /\ Len(preds) = 0
    BY <1>5
<1>7. Predicted
    BY <1>5, <1>6 DEF Predicted
<1>8. Room = 2
    BY <1>5 DEF Room
<1>9. /\ step \in 1..29 /\ waiting \in BOOLEAN /\ failed \in BOOLEAN /\ lost \in 0..MaxLost
      /\ step = 29 => ~waiting
  <2>1. step \in 1..29 /\ lost \in 0..MaxLost /\ step # 29
      BY <1>2, <1>5
  <2> QED BY <1>5, <2>1, Zenon
<1>10. Len(out) <= Room
    BY <1>4, <1>8
<1> QED BY <1>1, <1>3, <1>4, <1>7, <1>9, <1>10, Zenon DEF HostTypes

-----------------------------------------------------------------------------
\* ssos_model: what a run without a failure has done so far.

\* The heads a command may be judged by, and a record in the bank.
Sayings(s) == Heads(s, "recv") \cup Heads(s, "got")
Holds(p) == p # Empty /\ \E i \in 1..PktMax : bank[i] = p

\* What earlier steps have stored is in the bank, and what they have read back is right.
StoredSoFar ==
    /\ \A s \in PktSteps : s < step => Holds(PacketOf(s, preds))
    /\ \A c \in Classes : 20 + c < step => chip[c] \in {<<"row", c>>, <<"cut", c>>}

\* The answers on their way are to the command of this step, and true.
AnswersOwn ==
    IF ~waiting \/ step < 4 THEN Sayings(out) = {}
    ELSE IF step \in PktSteps
      THEN /\ Heads(out, "got") = {}
           /\ \A i, j \in Heads(out, "recv") : i = j
           /\ Heads(out, "recv") # {} => Holds(PacketOf(step, preds))
      ELSE /\ Heads(out, "recv") = {}
           /\ \A i, j \in Heads(out, "got") : i = j
           /\ \A i \in Heads(out, "got") : out[i].body = <<"row", step - 20>>

\* What an earlier program left was printed before the answer to ID.
LeftBefore == \A i \in Heads(out, "id"), j \in Sayings(out) : j < i

HostInv ==
    /\ HostTypes
    /\ step = 1 => LeftBefore
    /\ step > 1 /\ ~failed => StoredSoFar /\ (step < 28 => AnswersOwn)

\* Heads of joined pieces, of a reply and of a message.
LEMMA HeadsJoined ==
    ASSUME NEW s \in Seq(ReplyPieces), NEW t \in Seq(ReplyPieces), NEW kind, NEW i \in Heads(s \o t, kind)
    PROVE  \/ i \in Heads(s, kind) /\ (s \o t)[i] = s[i]
           \/ i - Len(s) \in Heads(t, kind) /\ (s \o t)[i] = t[i - Len(s)]
<1>1. /\ Len(s \o t) = Len(s) + Len(t) /\ Len(s) \in Nat /\ Len(t) \in Nat
      /\ \A j \in 1..(Len(s) + Len(t)) : (s \o t)[j] = IF j <= Len(s) THEN s[j] ELSE t[j - Len(s)]
    BY JoinedAt
<1>2. i \in 1..(Len(s) + Len(t)) /\ (s \o t)[i].head /\ (s \o t)[i].kind = kind
    BY <1>1 DEF Heads
<1>3. CASE i <= Len(s)
    BY <1>1, <1>2, <1>3 DEF Heads
<1>4. CASE i > Len(s)
  <2>1. i - Len(s) \in 1..Len(t) /\ (s \o t)[i] = t[i - Len(s)]
      BY <1>1, <1>2, <1>4
  <2> QED BY <1>2, <2>1 DEF Heads
<1> QED BY <1>1, <1>2, <1>3, <1>4

\* The head of a printed record is its first piece and bears its kind and body.
LEMMA ReplyHeads ==
    ASSUME NEW kind \in {"id", "recv", "got", "deleted", "err", "dump"},
           NEW id \in AllIds \cup {Id("none", 0)}, NEW body \in AllBodies \cup {<<"none", 0>>}, NEW what,
           NEW i \in Heads(Reply(kind, id, body), what)
    PROVE  i = 1 /\ what = kind /\ Reply(kind, id, body)[i].body = body
<1> DEFINE r == Reply(kind, id, body)
<1>1. /\ Len(r) = 2
      /\ r[1].head /\ r[1].kind = kind /\ r[1].body = body /\ ~r[2].head
    BY ReplyIs
<1> HIDE DEF r
<1>2. i \in 1..2 /\ r[i].head /\ r[i].kind = what
    BY <1>1 DEF Heads, r
<1>3. i = 1
    BY <1>1, <1>2
<1> QED BY <1>1, <1>2, <1>3 DEF r

\* The head of a printed message is its first piece and bears its kind.
LEMMA MessageHeads ==
    ASSUME NEW kind \in {"id", "deleted", "err"}
    PROVE  Sayings(Message(kind)) = {} /\ \A what : Heads(Message(kind), what) \subseteq {1}
<1>1. /\ kind \in {"id", "recv", "got", "deleted", "err", "dump"}
      /\ Id("none", 0) \in AllIds \cup {Id("none", 0)} /\ <<"none", 0>> \in AllBodies \cup {<<"none", 0>>}
    OBVIOUS
<1>2. \A what : \A i \in Heads(Message(kind), what) : i = 1 /\ what = kind
    BY <1>1, ReplyHeads DEF Message
<1>3. kind # "recv" /\ kind # "got"
    OBVIOUS
<1> QED BY <1>2, <1>3 DEF Sayings

\* What a window took and what it left.
LEMMA WindowHeads ==
    ASSUME HostTypes, NEW k \in 0..Len(out), NEW x \in 0..k, NEW kind
    PROVE  /\ \A i \in Heads(Received(k, x), kind) :
                 \E j \in Heads(out, kind) : j <= k /\ out[j] = Received(k, x)[i]
           /\ \A i \in Heads(SubSeq(out, k + 1, Len(out)), kind) : i + k \in Heads(out, kind) /\ i + k > k
<1> DEFINE win == Received(k, x)
           rest == SubSeq(out, k + 1, Len(out))
<1>1. /\ Len(win) = (IF x = 0 THEN k ELSE k - 1)
      /\ \A i \in 1..Len(win) : win[i] = out[IF x = 0 \/ i < x THEN i ELSE i + 1]
      /\ Len(rest) = Len(out) - k
      /\ \A i \in 1..Len(rest) : rest[i] = out[i + k]
    BY ReceivedIs
<1>2. Len(out) \in Nat
    BY DEF HostTypes
<1> HIDE DEF win, rest
<1>3. ASSUME NEW i \in Heads(win, kind)
      PROVE  \E j \in Heads(out, kind) : j <= k /\ out[j] = win[i]
  <2> DEFINE j == IF x = 0 \/ i < x THEN i ELSE i + 1
  <2>1. i \in 1..Len(win) /\ win[i].head /\ win[i].kind = kind
      BY <1>3 DEF Heads
  <2>2. out[j] = win[i]
      BY <1>1, <2>1
  <2>3. j \in 1..Len(out) /\ j <= k
      BY <1>1, <1>2, <2>1
  <2> HIDE DEF j
  <2>4. j \in Heads(out, kind)
      BY <2>1, <2>2, <2>3 DEF Heads
  <2> QED BY <2>2, <2>3, <2>4
<1>4. ASSUME NEW i \in Heads(rest, kind)
      PROVE  i + k \in Heads(out, kind) /\ i + k > k
  <2>1. i \in 1..Len(rest) /\ rest[i].head /\ rest[i].kind = kind
      BY <1>4 DEF Heads
  <2>2. rest[i] = out[i + k] /\ i + k \in 1..Len(out) /\ i + k > k
      BY <1>1, <1>2, <2>1
  <2> QED BY <2>1, <2>2 DEF Heads
<1> QED BY <1>3, <1>4 DEF win, rest

\* A packet sent stays the packet of its step.
LEMMA PredictionsStay ==
    ASSUME HostTypes, step \in 1..28, ~waiting, Infer, NEW s \in PktSteps, s < step
    PROVE  PacketOf(s, preds') = PacketOf(s, preds)
<1>1. CASE s < 20
    BY <1>1 DEF PacketOf, PktSteps
<1>2. CASE s >= 20
  <2>1. s \in 24..27 /\ step \in 25..28
      BY <1>2 DEF PktSteps
  <2>2. preds'[s - 23] = preds[s - 23]
    <3>1. CASE step \in 24..27
        BY <2>1, <3>1, InferIs
    <3>2. CASE step \notin 24..27
        BY <3>2, InferIs
    <3> QED BY <3>1, <3>2
  <2> QED BY <2>1, <2>2 DEF PacketOf
<1> QED BY <1>1, <1>2 DEF PktSteps

\* Two steps of the script store records of different ids, none of them to be deleted.
LEMMA IdsApart ==
    ASSUME NEW s \in PktSteps, NEW u \in PktSteps, NEW ps, NEW qs
    PROVE  (s # u => PacketOf(s, ps).id # PacketOf(u, qs).id) /\ PacketOf(s, ps).id[1] \notin {"old", "crowd"}
<1> DEFINE Named(v, rs) ==
              PacketOf(v, rs).id = IF v < 8 THEN <<"w", v - 4>> ELSE IF v < 20 THEN <<"ex", v - 7>>
                                   ELSE <<"rx", v - 23>>
<1>1. ASSUME NEW v \in PktSteps, NEW rs
      PROVE  Named(v, rs)
  <2>1. v \in Int
      BY DEF PktSteps
  <2>2. CASE v < 8
      BY <2>1, <2>2 DEF PacketOf, WeightPkt, P, Id
  <2>3. CASE v >= 8 /\ v < 20
      BY <2>1, <2>3 DEF PacketOf, ExamplePkt, P, Id
  <2>4. CASE v >= 20
      BY <2>1, <2>4 DEF PacketOf, ReceiptPkt, P, Id
  <2> QED BY <2>1, <2>2, <2>3, <2>4
<1>2. Named(s, ps) /\ Named(u, qs) /\ s \in Int /\ u \in Int
    BY <1>1 DEF PktSteps
<1> QED BY <1>2

\* A command leaves what is stored stored.
LEMMA StoredStays ==
    ASSUME HostTypes, step \in 1..28, ~waiting, Infer, step' = step, chip' = chip, StoredSoFar,
           Kept(bank, bank', IF step \in PktSteps THEN {PacketOf(step, preds').id} ELSE {})
    PROVE  StoredSoFar'
<1>1. ASSUME NEW s \in PktSteps, s < step
      PROVE  PacketOf(s, preds') # Empty /\ \E i \in 1..PktMax : bank'[i] = PacketOf(s, preds')
  <2>1. PICK i \in 1..PktMax : bank[i] = PacketOf(s, preds)
      BY <1>1 DEF StoredSoFar, Holds
  <2>2. PacketOf(s, preds') = PacketOf(s, preds)
      BY <1>1, PredictionsStay
  <2>3. PacketOf(s, preds).id[1] \notin {"old", "crowd"}
      BY IdsApart
  <2>4. bank[i] # Empty
      BY <1>1, <2>1 DEF StoredSoFar, Holds
  <2>5. bank[i].id \notin IF step \in PktSteps THEN {PacketOf(step, preds').id} ELSE {}
      BY <1>1, <2>1, <2>3, IdsApart DEF PktSteps
  <2> QED BY <2>1, <2>2, <2>3, <2>4, <2>5 DEF Kept
<1> QED BY <1>1 DEF StoredSoFar, Holds

\* A command that is not sent stores nothing and fails the run.
LEMMA HostSendFailsKeeps ==
    ASSUME HostInv, SendFails
    PROVE  HostInv'
<1>1. /\ step \in 1..28 /\ ~waiting /\ Infer /\ UNCHANGED <<step, bank, out, chip>>
      /\ HostTypes /\ step' = step
  <2>1. HostTypes
      BY DEF HostInv
  <2>2. step \in 1..28
      BY <2>1, ScriptIs DEF SendFails, HostTypes, Done
  <2> QED BY <2>1, <2>2 DEF SendFails
<1>2. HostTypes'
    BY HostTypesKept DEF HostInv, Next
<1>3. failed => failed'
    BY <1>1, InferIs
<1>4. step' = 1 => LeftBefore'
    BY <1>1 DEF HostInv, LeftBefore, Sayings
<1>5. ASSUME step' > 1, ~failed'
      PROVE  StoredSoFar' /\ (step' < 28 => AnswersOwn')
  <2>1. StoredSoFar /\ (step < 28 => Sayings(out) = {})
      BY <1>1, <1>3, <1>5 DEF HostInv, AnswersOwn
  <2>2. Kept(bank, bank', IF step \in PktSteps THEN {PacketOf(step, preds').id} ELSE {})
      BY <1>1 DEF Kept
  <2>3. StoredSoFar'
      BY <1>1, <2>1, <2>2, StoredStays
  <2>4. ASSUME step' < 28
        PROVE  Heads(out, "recv")' = {} /\ Heads(out, "got")' = {}
      BY <1>1, <2>1, <2>4 DEF Sayings
  <2> QED BY <2>3, <2>4 DEF AnswersOwn, Sayings
<1> QED BY <1>2, <1>4, <1>5 DEF HostInv

\* A command leaves what is stored, and only its own answer is new.
LEMMA HostSendKeeps ==
    ASSUME HostInv, Send
    PROVE  HostInv'
<1>1. /\ step \in 1..28 /\ ~waiting /\ Infer /\ Execute /\ UNCHANGED <<step, chip>>
      /\ HostTypes /\ step' = step /\ waiting'
  <2>1. HostTypes
      BY DEF HostInv
  <2>2. step \in 1..28
      BY <2>1, ScriptIs DEF Send, HostTypes, Done
  <2> QED BY <2>1, <2>2 DEF Send
<1>2. HostTypes'
    BY HostTypesKept DEF HostInv, Next
<1>3. failed => failed'
    BY <1>1, InferIs
<1>4. PICK r \in Seq(ReplyPieces) : out' = out \o r /\ (step # 28 => Answer(r))
    BY <1>1, ExecuteIs
<1>5. out \in Seq(ReplyPieces) /\ Len(out) \in Nat
    BY <1>1 DEF HostTypes
<1>6. ASSUME NEW kind, NEW i \in Heads(out', kind)
      PROVE  \/ i \in Heads(out, kind)
             \/ i - Len(out) \in Heads(r, kind) /\ out'[i] = r[i - Len(out)]
    BY <1>4, <1>5, <1>6, HeadsJoined
<1>7. ASSUME step' = 1
      PROVE  LeftBefore'
  <2>1. LeftBefore /\ step = 1
      BY <1>1, <1>7 DEF HostInv
  <2>2. PICK kind \in {"id", "deleted", "err"} : r = Message(kind)
      BY <2>1, <1>4 DEF Answer, PktSteps
  <2>3. ASSUME NEW i \in Heads(out', "id"), NEW j \in Sayings(out')
        PROVE  j < i
    <3>1. j \in Sayings(out) /\ j \in 1..Len(out)
      <4>1. Heads(r, "recv") = {} /\ Heads(r, "got") = {}
          BY <2>2, MessageHeads DEF Sayings
      <4>2. j \in Heads(out, "recv") \cup Heads(out, "got")
          BY <2>3, <4>1, <1>6 DEF Sayings
      <4> QED BY <4>2 DEF Sayings, Heads
    <3>2. CASE i \in Heads(out, "id")
        BY <3>1, <3>2, <2>1 DEF LeftBefore
    <3>3. CASE i - Len(out) \in Heads(r, "id")
      <4>1. i - Len(out) = 1
          BY <3>3, <2>2, MessageHeads
      <4>2. i \in Int
          BY DEF Heads
      <4> QED BY <4>1, <4>2, <3>1, <1>5
    <3> QED BY <3>2, <3>3, <1>6
  <2> QED BY <2>3 DEF LeftBefore, Sayings
<1>8. ASSUME step' > 1, ~failed'
      PROVE  StoredSoFar' /\ (step' < 28 => AnswersOwn')
  <2>1. StoredSoFar /\ (step < 28 => Sayings(out) = {})
      BY <1>1, <1>3, <1>8 DEF HostInv, AnswersOwn
  <2>2. Kept(bank, bank', IF step \in PktSteps THEN {PacketOf(step, preds').id} ELSE {})
      BY <1>1, ExecuteIs
  <2>3. StoredSoFar'
      BY <1>1, <2>1, <2>2, StoredStays
  <2>4. ASSUME step < 28
        PROVE  AnswersOwn'
    <3>1. \A kind \in {"recv", "got"} : \A i \in Heads(out', kind) :
             i - Len(out) \in Heads(r, kind) /\ out'[i] = r[i - Len(out)]
        BY <2>1, <2>4, <1>6 DEF Sayings
    <3>2. ASSUME NEW kind \in {"id", "deleted", "err"}, r = Message(kind)
          PROVE  AnswersOwn'
      <4>1. Heads(r, "recv") = {} /\ Heads(r, "got") = {}
          BY <3>2, MessageHeads DEF Sayings
      <4>2. Heads(out', "recv") = {} /\ Heads(out', "got") = {}
          BY <3>1, <4>1
      <4> QED BY <4>2 DEF AnswersOwn, Sayings
    <3>3. ASSUME step \in PktSteps, NEW p, p = PacketOf(step, preds'), r = Reply("recv", p.id, p.body),
                 \E i \in 1..PktMax : bank'[i] = p
          PROVE  AnswersOwn'
      <4>1. preds' \in Seq(Classes) /\ (step >= 24 => preds'[step - 23] \in Classes)
          BY <1>1, <3>3, InferIs DEF PktSteps
      <4>2. p \in Known
          BY <3>3, <4>1, PacketsAre
      <4>3. p.id \in AllIds /\ p.body \in AllBodies /\ p # Empty
          BY <4>2, KnownTypes, EmptyAssumption DEF Bank!Packet
      <4>4. Heads(r, "got") = {} /\ Heads(r, "recv") \subseteq {1}
          BY <3>3, <4>3, ReplyHeads
      <4>5. Heads(out', "got") = {} /\ \A i, j \in Heads(out', "recv") : i = j
        <5>1. \A i \in Heads(out', "recv") : i \in Int /\ i - Len(out) = 1
            BY <3>1, <4>4 DEF Heads
        <5> QED BY <5>1, <4>4, <3>1, <1>5
      <4>6. step >= 4 /\ step' \in PktSteps
          BY <1>1, <3>3 DEF PktSteps
      <4> QED BY <1>1, <3>3, <4>3, <4>5, <4>6 DEF AnswersOwn, Holds
    <3>4. ASSUME step \in 20..23, bank' = bank, NEW m \in 1..PktMax, bank[m] \in Known,
                 bank[m].id = Id("w", step - 20), r = Reply("got", bank[m].id, bank[m].body)
          PROVE  AnswersOwn'
      <4>1. bank[m].id \in AllIds /\ bank[m].body \in AllBodies /\ bank[m] # Empty
          BY <3>4, KnownTypes, EmptyAssumption DEF Bank!Packet
      <4>2. bank[m].body = <<"row", step - 20>>
        <5>1. step - 16 \in PktSteps /\ step - 16 < step /\ step - 16 < 8 /\ (step - 16) - 4 = step - 20
            BY <3>4 DEF PktSteps
        <5>2. PICK i \in 1..PktMax : bank[i] = PacketOf(step - 16, preds) /\ bank[i] # Empty
            BY <5>1, <2>1 DEF StoredSoFar, Holds
        <5>3. bank[i] = WeightPkt(step - 20)
            BY <5>1, <5>2 DEF PacketOf
        <5>4. bank[i].id = Id("w", step - 20) /\ bank[i].body = <<"row", step - 20>>
            BY <5>3 DEF WeightPkt, P
        <5>5. i = m
            BY <5>2, <5>4, <3>4, <4>1, <1>1 DEF HostTypes, Orderly
        <5> QED BY <5>4, <5>5
      <4>3. \A what : \A i \in Heads(r, what) : i = 1 /\ what = "got" /\ r[i].body = bank[m].body
          BY <3>4, <4>1, ReplyHeads
      <4>4. Heads(out', "recv") = {}
          BY <3>1, <4>3
      <4>5. ASSUME NEW i \in Heads(out', "got")
            PROVE  i \in Int /\ i - Len(out) = 1 /\ out'[i].body = <<"row", step - 20>>
        <5>1. i - Len(out) \in Heads(r, "got") /\ out'[i] = r[i - Len(out)] /\ i \in Int
            BY <3>1 DEF Heads
        <5>2. i - Len(out) = 1 /\ r[i - Len(out)].body = bank[m].body
            BY <4>3, <5>1
        <5> QED BY <4>2, <5>1, <5>2
      <4>6. \A i, j \in Heads(out', "got") : i = j
          BY <4>5, <1>5
      <4>7. step' >= 4 /\ step' \notin PktSteps
          BY <1>1, <3>4 DEF PktSteps
      <4> QED BY <1>1, <4>4, <4>5, <4>6, <4>7 DEF AnswersOwn
    <3>5. Answer(r)
        BY <2>4, <1>1, <1>4
    <3> QED BY <3>2, <3>3, <3>4, <3>5 DEF Answer
  <2> QED BY <1>1, <2>3, <2>4
<1> QED BY <1>2, <1>7, <1>8 DEF HostInv

\* A window without a failure has taken the answer to its command.
LEMMA HostListenKeeps ==
    ASSUME HostInv, Listen
    PROVE  HostInv'
<1>1. PICK k \in 0..Len(out) : \E x \in 0..k : Judged(k, x)
    BY WindowIs
<1>2. PICK x \in 0..k : Judged(k, x)
    BY <1>1
<1> DEFINE win == Received(k, x)
           rest == SubSeq(out, k + 1, Len(out))
<1>3. HostTypes /\ HostTypes'
    BY HostTypesKept DEF HostInv, Next
<1>4. waiting /\ ~waiting' /\ bank' = bank /\ preds' = preds /\ out' = rest
  <2>1. waiting /\ waiting' = FALSE /\ bank' = bank /\ preds' = preds
      BY WindowIs
  <2>2. waiting /\ ~waiting'
      BY <2>1, Zenon
  <2> QED BY <1>2, <2>1, <2>2 DEF Judged
<1>5. step \in 1..28
  <2>1. step \in 1..29 /\ step # 29
      BY <1>3, <1>4, Zenon DEF HostTypes
  <2> QED BY <2>1
<1>6. /\ \A kind : \A i \in Heads(win, kind) : \E j \in Heads(out, kind) : j <= k /\ out[j] = win[i]
      /\ \A kind : \A i \in Heads(rest, kind) : i + k \in Heads(out, kind) /\ i + k > k /\ i \in Int
  <2>1. \A kind : \A i \in Heads(rest, kind) : i \in Int
      BY DEF Heads
  <2> QED BY <1>3, <2>1, WindowHeads
<1>7. step' = step + 1 \/ (step = 1 /\ step' = 29 /\ failed')
    BY <1>5, <1>3, HostWindowTypes
<1>8. step' # 1
    BY <1>5, <1>7
<1> HIDE DEF win, rest
<1>9. ASSUME Sayings(out') = {}
      PROVE  AnswersOwn'
    BY <1>4, <1>9 DEF AnswersOwn, Sayings, Heads
<1>10. ASSUME step = 1, ~failed'
       PROVE  StoredSoFar' /\ AnswersOwn'
  <2>1. step' = 2 /\ LeftBefore
      BY <1>7, <1>10 DEF HostInv
  <2>2. Now.do = "ID"
      BY <1>10, ScriptIs DEF Now
  <2>3. Heads(win, "id") # {}
      BY <1>2, <1>10, <2>2 DEF Judged, win
  <2>4. PICK i \in Heads(out, "id") : i <= k
      BY <1>6, <2>3
  <2>5. \A j \in Sayings(rest) : j + k \in Sayings(out) /\ j + k > k /\ j \in Int
      BY <1>6 DEF Sayings
  <2>6. i \in Int
      BY DEF Heads
  <2>7. Sayings(rest) = {}
      BY <2>1, <2>4, <2>5, <2>6 DEF LeftBefore
  <2>8. StoredSoFar'
      BY <2>1 DEF StoredSoFar, PktSteps, Classes
  <2> QED BY <1>4, <1>9, <2>7, <2>8
<1>11. ASSUME step > 1, ~failed'
       PROVE  StoredSoFar' /\ (step' < 28 => AnswersOwn')
  <2>1. step' = step + 1 /\ step \in 2..28
      BY <1>5, <1>7, <1>11
  <2>2. CASE ~failed /\ step \in 2..3
    <3>1. Sayings(out) = {} /\ StoredSoFar
        BY <2>2 DEF HostInv, AnswersOwn
    <3>2. Sayings(rest) = {}
        BY <3>1, <1>6 DEF Sayings
    <3>3. StoredSoFar'
        BY <2>1, <2>2 DEF StoredSoFar, PktSteps, Classes
    <3> QED BY <1>4, <1>9, <3>2, <3>3
  <2>3. CASE ~failed /\ step \in PktSteps
    <3>1. /\ StoredSoFar /\ Heads(out, "got") = {} /\ \A i, j \in Heads(out, "recv") : i = j
          /\ Heads(out, "recv") # {} => Holds(PacketOf(step, preds))
        BY <2>3, <1>4 DEF HostInv, AnswersOwn, PktSteps
    <3>2. Now.do \in {"PKT_W", "PKT_EX", "PKT_RX"}
      <4>1. step \in 4..7 \/ step \in 8..19 \/ step \in 24..27
          BY <2>3 DEF PktSteps
      <4>2. Script[step].do \in {"PKT_W", "PKT_EX", "PKT_RX"}
          BY <4>1, ScriptIs
      <4> QED BY <4>2 DEF Now
    <3>3. Heads(win, "recv") # {} /\ chip' = chip
        BY <1>2, <1>11, <3>2 DEF Judged, win, Stored
    <3>4. PICK i \in Heads(out, "recv") : i <= k
        BY <1>6, <3>3
    <3>5. Heads(rest, "recv") = {} /\ Heads(rest, "got") = {}
      <4>1. i \in Int
          BY DEF Heads
      <4>2. ASSUME NEW j \in Heads(rest, "recv")
            PROVE  FALSE
        <5>1. j + k = i /\ j + k > k /\ j \in Int
            BY <1>6, <3>1
        <5> QED BY <5>1, <3>4, <4>1
      <4>3. Heads(rest, "recv") = {}
          BY <4>2
      <4>4. Heads(rest, "got") = {}
          BY <1>6, <3>1
      <4> QED BY <4>3, <4>4
    <3>6. StoredSoFar'
      <4>1. \A s \in PktSteps : s < step' => s < step \/ s = step
          BY <2>1 DEF PktSteps
      <4>2. \A s \in PktSteps : s < step' => Holds(PacketOf(s, preds))
          BY <3>1, <3>4, <4>1 DEF StoredSoFar
      <4>3. \A c \in Classes : 20 + c < step' => 20 + c < step
          BY <2>1, <2>3 DEF PktSteps, Classes
      <4> QED BY <1>4, <3>1, <3>3, <4>2, <4>3 DEF StoredSoFar, Holds
    <3> QED BY <1>4, <1>9, <3>5, <3>6 DEF Sayings
  <2>4. CASE ~failed /\ step \in 20..23
    <3>1. /\ StoredSoFar /\ Heads(out, "recv") = {}
          /\ \A i, j \in Heads(out, "got") : i = j
          /\ \A i \in Heads(out, "got") : out[i].body = <<"row", step - 20>>
        BY <2>4, <1>4 DEF HostInv, AnswersOwn, PktSteps
    <3>2. Now.do = "GET" /\ Now.n = step - 20 /\ Now.n \in Classes
      <4>1. step \in 20..23
          BY <2>4
      <4>2. Script[step].do = "GET" /\ Script[step].n = step - 20
          BY <4>1, ScriptIs
      <4> QED BY <4>1, <4>2 DEF Now, Classes
    <3>3. ReadBack(win)
        BY <1>2, <3>2 DEF Judged, win
    <3>4. PICK v \in Body(win) :
             chip' = (IF v[1] = "none" THEN chip ELSE [chip EXCEPT ![Now.n] = v]) /\ v[1] # "none"
        BY <1>11, <3>3 DEF ReadBack
    <3>5. Heads(win, "got") # {}
        BY <1>11, <3>3 DEF ReadBack
    <3>6. v \in {<<"row", Now.n>>, <<"cut", Now.n>>}
      <4>1. win \in Seq(ReplyPieces)
          BY <1>3, ReceivedIs DEF win
      <4>2. PICK i \in Heads(win, "recv") \cup Heads(win, "got") :
               v \in {win[i].body, <<"cut", win[i].body[2]>>, <<"none", 0>>}
          BY <4>1, BodyIs
      <4>3. win[i].body = <<"row", Now.n>>
          BY <1>6, <3>1, <3>2
      <4> QED BY <4>2, <4>3, <3>4
    <3>7. Sayings(rest) = {}
      <4>1. PICK i \in Heads(out, "got") : i <= k
          BY <1>6, <3>5
      <4>2. i \in Int
          BY DEF Heads
      <4>3. ASSUME NEW j \in Heads(rest, "got")
            PROVE  FALSE
        <5>1. j + k \in Heads(out, "got") /\ j + k > k /\ j \in Int
            BY <1>6
        <5>2. j + k = i
            BY <3>1, <5>1
        <5> QED BY <4>1, <4>2, <5>1, <5>2
      <4>4. Heads(rest, "got") = {}
          BY <4>3
      <4>5. Heads(rest, "recv") = {}
          BY <1>6, <3>1
      <4> QED BY <4>4, <4>5 DEF Sayings
    <3>8. StoredSoFar'
      <4>1. \A s \in PktSteps : s < step' => s < step
          BY <2>1, <2>4 DEF PktSteps
      <4>2. \A s \in PktSteps : s < step' => Holds(PacketOf(s, preds))
          BY <3>1, <4>1 DEF StoredSoFar
      <4>3. ASSUME NEW c \in Classes, 20 + c < step'
            PROVE  chip'[c] \in {<<"row", c>>, <<"cut", c>>}
        <5>1. /\ chip' = [chip EXCEPT ![Now.n] = v]
              /\ chip \in [Classes -> {<<"zero", 0>>} \cup ({"row", "cut"} \X Classes)]
            BY <1>3, <3>4 DEF HostTypes
        <5>2. CASE c = Now.n
            BY <5>1, <5>2, <3>6
        <5>3. CASE c # Now.n
          <6>1. 20 + c < step
              BY <4>3, <5>3, <2>1, <3>2 DEF Classes
          <6> QED BY <5>1, <5>3, <6>1, <3>1 DEF StoredSoFar
        <5> QED BY <5>2, <5>3
      <4> QED BY <1>4, <4>2, <4>3 DEF StoredSoFar, Holds
    <3> QED BY <1>4, <1>9, <3>7, <3>8
  <2>5. CASE ~failed /\ step = 28
    <3>1. StoredSoFar /\ step' = 29
        BY <2>1, <2>5 DEF HostInv
    <3>2. Now.do = "DUMP"
        BY <2>5, ScriptIs DEF Now
    <3>3. chip' = chip
        BY <1>2, <3>2 DEF Judged
    <3>4. StoredSoFar'
        BY <1>4, <2>5, <3>1, <3>3 DEF StoredSoFar, PktSteps, Classes, Holds
    <3> QED BY <3>1, <3>4
  <2>6. ~failed
    <3>1. Now.do # "ID"
        BY <2>1, StepCommands
    <3>2. CASE ReadBack(win)
        BY <1>11, <3>2 DEF ReadBack
    <3>3. CASE ~ReadBack(win)
        BY <1>2, <1>11, <3>1, <3>3 DEF Judged, win
    <3> QED BY <3>2, <3>3
  <2>7. step \in 2..3 \/ step \in PktSteps \/ step \in 20..23 \/ step = 28
      BY <2>1 DEF PktSteps
  <2> QED BY <2>2, <2>3, <2>4, <2>5, <2>6, <2>7
<1> QED BY <1>3, <1>5, <1>8, <1>10, <1>11 DEF HostInv

\* Initially only what an earlier program left is on its way.
LEMMA HostInvStarts == Init => HostInv
<1> SUFFICES ASSUME Init PROVE HostInv
    OBVIOUS
<1>1. HostTypes /\ step = 1
    BY HostStarts DEF Init
<1>2. Heads(out, "id") = {}
  <2>1. Id("w", 3) \in AllIds /\ Id("w", 1) \in AllIds
      BY DEF Id, AllIds
  <2>2. <<"row", 3>> \in AllBodies /\ <<"row", 1>> \in AllBodies
      BY DEF AllBodies, Classes
  <2>3. \A kind \in {"recv", "got"}, id \in AllIds, body \in AllBodies : Heads(Reply(kind, id, body), "id") = {}
    <3>1. \A kind \in {"recv", "got"} : kind # "id" /\ kind \in {"id", "recv", "got", "deleted", "err", "dump"}
        OBVIOUS
    <3> QED BY <3>1, ReplyHeads
  <2>4. Heads(<<>>, "id") = {}
      BY DEF Heads
  <2>5. Heads(Reply("recv", Id("w", 3), <<"row", 3>>), "id") = {}
      BY <2>1, <2>2, <2>3, Zenon
  <2>6. Heads(Reply("got", Id("w", 1), <<"row", 1>>), "id") = {}
      BY <2>1, <2>2, <2>3, Zenon
  <2> QED BY <2>4, <2>5, <2>6 DEF Init
<1> QED BY <1>1, <1>2 DEF HostInv, LeftBefore

\* Every step of ssos_model and its board keeps the invariant.
LEMMA HostInvKept ==
    ASSUME HostInv, [Next]_vars
    PROVE  HostInv'
<1>1. CASE UNCHANGED vars
  <2>1. UNCHANGED <<step, waiting, bank, out, chip, preds, failed, lost>>
      BY <1>1 DEF vars
  <2>2. HostTypes'
      BY HostTypesKept DEF HostInv
  <2>3. (LeftBefore' <=> LeftBefore) /\ (StoredSoFar' <=> StoredSoFar) /\ (AnswersOwn' <=> AnswersOwn)
      BY <2>1 DEF LeftBefore, StoredSoFar, AnswersOwn, Holds, Sayings
  <2> QED BY <2>1, <2>2, <2>3 DEF HostInv
<1> QED BY <1>1, HostSendKeeps, HostSendFailsKeeps, HostListenKeeps DEF Next

\* A run that has passed is at its end, where every step has stored its record.
LEMMA HostInvImplies == HostInv => RowsStored
<1> SUFFICES ASSUME HostInv PROVE RowsStored
    OBVIOUS
<1>1. Lag \in Nat /\ PktMax \in Nat /\ PktMax >= 2
    BY HostModelAssumption
<1>2. HostTypes
    BY DEF HostInv
<1>3. TypeOK
  <2>1. Done = 29 /\ Len(QuerySet) = 4
      BY ScriptIs DEF Done, QuerySet
  <2>2. \A i \in 1..PktMax : bank[i] # Empty => bank[i].id \in AllIds /\ bank[i].body \in AllBodies
    <3>1. \A i \in 1..PktMax : bank[i] # Empty => bank[i] \in Bank!Packet
        BY <1>2, KnownTypes DEF HostTypes, Orderly
    <3> QED BY <3>1 DEF Bank!Packet
  <2>3. Room <= Lag + 2 * (PktMax + 1) /\ Room \in Int /\ Len(out) <= Room /\ Len(out) \in Nat
      BY <1>1, <1>2 DEF Room, HostTypes
  <2>4. Len(out) <= Lag + 2 * (PktMax + 1)
      BY <1>1, <2>3
  <2>5. Len(preds) <= 4
      BY <1>2 DEF HostTypes, Predicted
  <2> QED BY <1>2, <2>1, <2>2, <2>4, <2>5, Zenon DEF TypeOK, HostTypes
<1>4. ASSUME Passed
      PROVE  /\ \A c \in Classes : chip[c] \in {<<"row", c>>, <<"cut", c>>}
             /\ \A c \in Classes : \E i \in 1..PktMax : bank[i] = WeightPkt(c)
             /\ \A e \in Examples : \E i \in 1..PktMax : bank[i] = ExamplePkt(e)
             /\ \A q \in Queries : \E i \in 1..PktMax : bank[i] = ReceiptPkt(q, preds[q])
  <2>1. step = 29 /\ StoredSoFar
      BY <1>4, ScriptIs DEF Passed, Done, HostInv
  <2>2. \A s \in PktSteps : \E i \in 1..PktMax : bank[i] = PacketOf(s, preds)
      BY <2>1 DEF StoredSoFar, Holds, PktSteps
  <2>3. Queries = 1..4 /\ Classes = 0..3 /\ Examples = 1..12
      BY TextsAre DEF Queries, QuerySet, Classes
  <2>4. \A c \in Classes : chip[c] \in {<<"row", c>>, <<"cut", c>>}
      BY <2>1, <2>3 DEF StoredSoFar
  <2>5. \A c \in Classes : c + 4 \in PktSteps /\ PacketOf(c + 4, preds) = WeightPkt(c)
    <3>1. ASSUME NEW c \in Classes PROVE c + 4 \in PktSteps /\ c + 4 < 8 /\ (c + 4) - 4 = c
        BY <2>3 DEF PktSteps
    <3> QED BY <3>1 DEF PacketOf
  <2>6. \A e \in Examples : e + 7 \in PktSteps /\ PacketOf(e + 7, preds) = ExamplePkt(e)
    <3>1. ASSUME NEW e \in Examples
          PROVE  e + 7 \in PktSteps /\ ~(e + 7 < 8) /\ e + 7 < 20 /\ (e + 7) - 7 = e
        BY <2>3 DEF PktSteps
    <3> QED BY <3>1 DEF PacketOf
  <2>7. \A q \in Queries : q + 23 \in PktSteps /\ PacketOf(q + 23, preds) = ReceiptPkt(q, preds[q])
    <3>1. ASSUME NEW q \in Queries
          PROVE  q + 23 \in PktSteps /\ ~(q + 23 < 8) /\ ~(q + 23 < 20) /\ (q + 23) - 23 = q
        BY <2>3 DEF PktSteps
    <3> QED BY <3>1 DEF PacketOf
  <2> QED BY <2>2, <2>4, <2>5, <2>6, <2>7
<1> QED BY <1>3, <1>4 DEF RowsStored, PassedMeansStored

\* ssos_model is a part of the console, which takes its steps or leaves it alone.
LEMMA HostModelParts ==
    /\ ConsoleInit => Init
    /\ [ConsoleNext]_<<part, vars, sessionVars>> => [Next]_vars
BY DEF ConsoleInit, ConsoleNext, vars

(***************************************************************************)
(* A run of ssos_model that ends with fail = 0 has in the bank each row,   *)
(* each example and each receipt it sent, and has read back, for each      *)
(* row, what the board sent for that row, whatever its windows took in     *)
(* late and whatever the bank held before.                                 *)
(***************************************************************************)
THEOREM RowsAreStored == ConsoleSpec => []RowsStored
<1>1. ConsoleInit => HostInv
    BY HostModelParts, HostInvStarts
<1>2. HostInv /\ [ConsoleNext]_<<part, vars, sessionVars>> => HostInv'
    BY HostModelParts, HostInvKept
<1>3. HostInv => RowsStored
    BY HostInvImplies
<1> QED BY <1>1, <1>2, <1>3, PTL DEF ConsoleSpec

(***************************************************************************)
(* No step of ssos_model lets storePacket replace a record of the program  *)
(* or a seed record by one of another id, though it replaces by            *)
(* coordinates too, wherever other programs have put their packets: the    *)
(* places that embed gives to the twelve examples are all apart, and apart *)
(* from the rows', the receipts' and the controller's.  Another program's  *)
(* packet makes room only where it lies at the coordinates of the packet   *)
(* sent.                                                                   *)
(***************************************************************************)
THEOREM OwnRecordsAreKept == ConsoleSpec => OwnRecordsStay
<1>1. ConsoleInit => HostTypes
    BY HostModelParts, HostStarts
<1>2. HostTypes /\ [ConsoleNext]_<<part, vars, sessionVars>> => HostTypes'
    BY HostModelParts, HostTypesKept
<1>3. HostTypes /\ [ConsoleNext]_<<part, vars, sessionVars>> =>
         [\A i \in 1..PktMax :
             bank[i] # Empty /\ bank[i].id[1] # "old" =>
                /\ bank'[i] # Empty
                /\ \/ bank'[i].id = bank[i].id
                   \/ bank[i].id[1] = "crowd" /\ bank'[i].d = bank[i].d]_vars
    BY HostModelParts, RecordsKept
<1> QED BY <1>1, <1>2, <1>3, PTL DEF ConsoleSpec, OwnRecordsStay
=============================================================================
