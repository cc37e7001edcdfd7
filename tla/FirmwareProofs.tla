---------------------------- MODULE FirmwareProofs ---------------------------
(***************************************************************************)
(* The two parts of the kernel firmware that share no state: the adaptive  *)
(* tensor, for every clock period, all clamps, and all rests and weights   *)
(* that host and firmware may choose; and the BENCH command.               *)
(***************************************************************************)
EXTENDS MCFirmware, Sequences, FiniteSetTheorems, FunctionTheorems, WellFoundedInduction, TLAPS

-----------------------------------------------------------------------------
\* The clock.

LEMMA Difference ==
    ASSUME NEW p \in Nat, p > 1, NEW c \in 0..(p - 1), NEW t \in 0..(p - 1)
    PROVE  (c - t) % p = IF c >= t THEN c - t ELSE c - t + p
OBVIOUS

LEMMA NextTime ==
    ASSUME TensorAssumption, clock \in Time, Advance
    PROVE  clock' = (IF clock = Period - 1 THEN 0 ELSE clock + 1) /\ clock' \in Time
BY DEF TensorAssumption, Time, Advance

LEMMA LaterIsTime == ASSUME TensorAssumption, clock \in Time, NEW ms \in Nat PROVE Later(ms) \in Time
BY DEF TensorAssumption, Time, Later

(***************************************************************************)
(* The age of a window can be read off the clock until a period is over.   *)
(***************************************************************************)
AgeInv ==
    /\ clock \in Time /\ win.t0 \in Time /\ age \in 0..Period
    /\ age < Period => age = (clock - win.t0) % Period

-----------------------------------------------------------------------------
\* Types.

LEMMA TuningsType ==
    ASSUME TensorAssumption, NEW b \in BOOLEAN, NEW t \in Tunings(b)
    PROVE  t \in Tunings(FALSE) \cup Tunings(TRUE) /\ t.rest \in Nat /\ t.burst \in Nat
BY DEF TensorAssumption, Tunings

NanType == [row0: BOOLEAN, rows: BOOLEAN, x: BOOLEAN, score: BOOLEAN]

LEMMA NanSteps ==
    ASSUME NEW n \in NanType
    PROVE  /\ FillX(n) \in NanType /\ Fuse(n) \in NanType /\ Learn(n) \in NanType
           /\ \A b \in BOOLEAN : [n EXCEPT !.row0 = b] \in NanType
           /\ [n EXCEPT !.row0 = FALSE, !.rows = FALSE] \in NanType
<1>1. \A a, b \in BOOLEAN : a \/ b \in BOOLEAN
    OBVIOUS
<1> QED BY <1>1 DEF NanType, FillX, Fuse, Learn

\* A reception: the window goes on, or a new one begins.
LEMMA AdaptType ==
    ASSUME TensorAssumption, TypeOK, win.n < MaxCount,
           NEW v \in NanType, ApplyBatch(v), Adapt(win.n + 1, v)
    PROVE  /\ win' \in [n: 0..MaxCount, t0: Time, rate: Nat]
           /\ age' \in 0..Period /\ restUntil' \in Time /\ nan' \in NanType
           /\ tuned' \in Tunings(FALSE) \cup Tunings(TRUE)
<1>1. tuned' \in Tunings(FALSE) \cup Tunings(TRUE) /\ tuned'.rest \in Nat
  <2>1. (v.rows \/ v.x) \in BOOLEAN
      BY DEF NanType
  <2> QED BY <2>1, TuningsType DEF ApplyBatch
<1>2. Elapsed \in Nat \ {0}
    BY DEF TensorAssumption, TypeOK, Time, Elapsed
<1>3. ((win.n + 1) * PerSecond) \div Elapsed \in Nat
  <2>1. (win.n + 1) * PerSecond \in Nat
      BY DEF TensorAssumption, TypeOK
  <2> HIDE DEF TypeOK
  <2> DEFINE a == (win.n + 1) * PerSecond
             d == Elapsed
  <2> HIDE DEF a, d
  <2>2. a \div d \in Nat
      BY <2>1, <1>2 DEF a, d
  <2> QED BY <2>2 DEF a, d
<1>4. CASE Open(win.n + 1)
  <2>1. win' = [win EXCEPT !.n = win.n + 1] /\ nan' = v /\ UNCHANGED <<age, restUntil>>
      BY <1>4 DEF Adapt
  <2>2. win' \in [n: 0..MaxCount, t0: Time, rate: Nat]
    <3>1. win.n + 1 \in 0..MaxCount
        BY DEF TypeOK, TensorAssumption
    <3> QED BY <2>1, <3>1 DEF TypeOK
  <2> QED BY <2>1, <2>2, <1>1 DEF TypeOK
<1>5. CASE ~Open(win.n + 1)
  <2>1. /\ win' = [n |-> 0, t0 |-> clock, rate |-> ((win.n + 1) * PerSecond) \div Elapsed]
        /\ nan' = IF win.rate # 0 THEN Learn(v) ELSE v
        /\ restUntil' = IF tuned'.rest > 0 THEN Later(tuned'.rest) ELSE restUntil
        /\ age' = 0
      BY <1>5 DEF Adapt
  <2>2. win' \in [n: 0..MaxCount, t0: Time, rate: Nat]
      BY <2>1, <1>3 DEF TypeOK, TensorAssumption
  <2>3. restUntil' \in Time
      BY <2>1, <1>1, LaterIsTime DEF TypeOK
  <2>4. nan' \in NanType
      BY <2>1, NanSteps
  <2>5. age' \in 0..Period
      BY <2>1 DEF TensorAssumption
  <2> QED BY <2>2, <2>3, <2>4, <2>5, <1>1
<1> QED BY <1>4, <1>5

\* What each step does to weights and inputs that may not be numbers.
LEMMA TunedType ==
    ASSUME TensorAssumption, NEW v \in NanType, ApplyBatch(v)
    PROVE  tuned' \in Tunings(FALSE) \cup Tunings(TRUE)
<1>1. (v.rows \/ v.x) \in BOOLEAN
    BY DEF NanType
<1> QED BY <1>1, TuningsType DEF ApplyBatch

LEMMA TensorType == TensorAssumption /\ TypeOK /\ [Next]_vars => TypeOK'
<1> SUFFICES ASSUME TensorAssumption, TypeOK, [Next]_vars
             PROVE  TypeOK'
    OBVIOUS
<1>1. nan \in NanType
    BY DEF TypeOK, NanType
<1> DEFINE v == Fuse(FillX(nan))
<1>2. v \in NanType
    BY <1>1, NanSteps
<1>3. CASE OnRecv
  <2>1. /\ win.n < MaxCount /\ since < MaxCount
        /\ since' = since + 1 /\ UNCHANGED <<clock, fault>>
        /\ ApplyBatch(v) /\ Adapt(win.n + 1, v)
      BY <1>3 DEF OnRecv
  <2>2. since' \in 0..MaxCount
      BY <2>1 DEF TypeOK, TensorAssumption
  <2> HIDE DEF v
  <2> QED BY <2>1, <2>2, <1>2, AdaptType DEF TypeOK, NanType
<1>4. CASE OnGet
  <2>1. ApplyBatch(v) /\ nan' = v /\ UNCHANGED <<clock, age, win, restUntil, fault, since>>
      BY <1>4 DEF OnGet
  <2> HIDE DEF v
  <2> QED BY <2>1, <1>2, TunedType DEF TypeOK, NanType
<1>5. CASE OnFault
  <2>1. /\ ApplyBatch(v) /\ nan' = v /\ fault' = TRUE /\ UNCHANGED <<clock, age, win, since>>
        /\ \E ms \in IF nan.rows THEN 0..Wide ELSE FaultRests : restUntil' = Later(ms)
      BY <1>5 DEF OnFault
  <2>2. restUntil' \in Time
      BY <2>1, LaterIsTime DEF TypeOK, TensorAssumption
  <2> HIDE DEF v
  <2> QED BY <2>1, <2>2, <1>2, TunedType DEF TypeOK, NanType
<1>6. CASE SetW
  <2>1. PICK b \in BOOLEAN : nan' = Fuse([nan EXCEPT !.row0 = b])
      BY <1>6, <1>1 DEF SetW, NanType
  <2>2. ApplyBatch(nan') /\ UNCHANGED <<clock, age, win, restUntil, fault, since>>
      BY <1>6 DEF SetW
  <2>3. nan' \in NanType
      BY <2>1, <1>1, NanSteps
  <2> QED BY <2>2, <2>3, TunedType DEF TypeOK, NanType
<1>7. CASE ResetSeed
  <2>1. /\ nan' = Fuse([nan EXCEPT !.row0 = FALSE, !.rows = FALSE])
        /\ ApplyBatch(nan') /\ UNCHANGED <<clock, age, win, restUntil, fault, since>>
      BY <1>7 DEF ResetSeed
  <2>2. nan' \in NanType
      BY <2>1, <1>1, NanSteps
  <2> QED BY <2>1, <2>2, TunedType DEF TypeOK, NanType
<1>8. CASE Tick
    BY <1>8 DEF Tick, TypeOK
<1>10. CASE ClearFlush
  <2>1. since' = 0 /\ UNCHANGED <<clock, age, win, restUntil, fault, tuned, nan>>
      BY <1>10 DEF ClearFlush
  <2>2. 0 \in 0..MaxCount
      BY DEF TensorAssumption
  <2> QED BY <2>1, <2>2 DEF TypeOK
<1>11. CASE UNCHANGED vars
    BY <1>11 DEF vars, TypeOK
<1>9. CASE Advance
  <2>1. age' \in 0..Period /\ UNCHANGED <<win, restUntil, fault, since, tuned, nan>>
      BY <1>9 DEF Advance, TypeOK, TensorAssumption
  <2> QED BY <2>1, <1>9, NextTime DEF TypeOK
<1> QED BY <1>3, <1>4, <1>5, <1>6, <1>7, <1>8, <1>9, <1>10, <1>11 DEF Next, Command

LEMMA TensorStarts == TensorAssumption /\ Init => TypeOK
<1> SUFFICES ASSUME TensorAssumption, Init
             PROVE  TypeOK
    OBVIOUS
<1>1. /\ clock \in Time /\ 0 \in Time /\ 0 \in 0..Period /\ 0 \in 0..MaxCount
    BY DEF TensorAssumption, Init, Time
<1>2. win \in [n: 0..MaxCount, t0: Time, rate: Nat]
    BY <1>1 DEF Init
<1>3. nan \in [row0: BOOLEAN, rows: BOOLEAN, x: BOOLEAN, score: BOOLEAN]
    BY DEF Init
<1> QED BY <1>1, <1>2, <1>3 DEF Init, TypeOK

LEMMA TensorTypeInvariant == TensorAssumption => (Spec => []TypeOK)
<1> SUFFICES ASSUME TensorAssumption PROVE Spec => []TypeOK
    OBVIOUS
<1>1. TypeOK /\ [Next]_vars => TypeOK'
    BY TensorType
<1> QED BY <1>1, TensorStarts, PTL DEF Spec

-----------------------------------------------------------------------------
\* Numbers.

\* A score that is not a number stays one: it is an input of the next batch and
\* is computed from its inputs.  As long as no input was one, rows 1..7, which
\* choose the burst, are numbers.
NanInv ==
    /\ nan.x => nan.score
    /\ ~nan.x => ~nan.rows /\ win.n < BurstMax

LEMMA NanKeeps == TensorAssumption /\ TypeOK /\ NanInv /\ [Next]_vars => NanInv'
<1> SUFFICES ASSUME TensorAssumption, TypeOK, NanInv, [Next]_vars
             PROVE  NanInv'
    OBVIOUS
<1>1. nan \in NanType
    BY DEF TypeOK, NanType
<1> DEFINE v == Fuse(FillX(nan))
<1>2. /\ v \in NanType
      /\ v.x = nan.score /\ v.rows = nan.rows /\ (v.x => v.score)
      /\ Learn(v).x = v.x /\ Learn(v).score = v.score /\ (~v.x => Learn(v).rows = v.rows)
    BY <1>1 DEF NanType, Fuse, FillX, Learn
<1>3. CASE OnRecv
  <2>1. ApplyBatch(v) /\ Adapt(win.n + 1, v)
      BY <1>3 DEF OnRecv
  <2> HIDE DEF v
  <2>2. nan' \in {v, Learn(v)}
      BY <2>1, Zenon DEF Adapt
  <2>3. (nan'.x => nan'.score) /\ (~nan'.x => ~nan'.rows /\ ~v.x)
      BY <2>2, <1>2 DEF NanInv
  <2>4. ASSUME ~nan'.x
        PROVE  win'.n < BurstMax
    <3>1. tuned' \in Tunings(FALSE)
        BY <2>1, <2>3, <2>4, <1>2 DEF ApplyBatch, NanInv
    <3>2. tuned'.burst <= BurstMax /\ tuned'.burst \in Nat /\ BurstMax \in Nat \ {0}
        BY <3>1 DEF Tunings, TensorAssumption
    <3>3. CASE Open(win.n + 1)
      <4>1. win' = [win EXCEPT !.n = win.n + 1]
          BY <2>1, <3>3 DEF Adapt
      <4> QED BY <4>1, <3>2, <3>3 DEF Open, TypeOK
    <3>4. CASE ~Open(win.n + 1)
      <4>1. win'.n = 0
          BY <2>1, <3>4 DEF Adapt
      <4> QED BY <4>1, <3>2
    <3> QED BY <3>3, <3>4
  <2> QED BY <2>3, <2>4 DEF NanInv
<1>4. CASE OnGet \/ OnFault
  <2>1. nan' = v /\ win' = win
      BY <1>4 DEF OnGet, OnFault
  <2> HIDE DEF v
  <2> QED BY <2>1, <1>2 DEF NanInv
<1>5. CASE SetW \/ ResetSeed
  <2>1. win' = win
      BY <1>5 DEF SetW, ResetSeed
  <2>2. PICK b \in BOOLEAN, c \in {nan.rows, FALSE} : nan' = Fuse([nan EXCEPT !.row0 = b, !.rows = c])
    <3>1. CASE SetW
      <4>1. PICK b \in BOOLEAN : nan' = Fuse([nan EXCEPT !.row0 = b])
          BY <3>1, <1>1 DEF SetW, NanType
      <4>2. [nan EXCEPT !.row0 = b] = [nan EXCEPT !.row0 = b, !.rows = nan.rows]
          BY <1>1 DEF NanType
      <4> QED BY <4>1, <4>2
    <3>2. CASE ResetSeed
        BY <3>2 DEF ResetSeed
    <3> QED BY <3>1, <3>2, <1>5
  <2>3. (nan'.x => nan'.score) /\ nan'.x = nan.x /\ nan'.rows = c
      BY <2>2, <1>1 DEF NanType, Fuse
  <2> QED BY <2>1, <2>3 DEF NanInv
<1>6. CASE Tick \/ ClearFlush \/ Advance \/ UNCHANGED vars
    BY <1>6 DEF Tick, ClearFlush, Advance, vars, NanInv
<1> QED BY <1>3, <1>4, <1>5, <1>6 DEF Next, Command

(***************************************************************************)
(* A window closes after at most BurstMax receptions, for every clamp and  *)
(* whatever weights the host sets, unless a number is none.                *)
(***************************************************************************)
THEOREM WindowsClose == TensorAssumption => (Spec => []WindowCloses)
<1> SUFFICES ASSUME TensorAssumption PROVE Spec => []WindowCloses
    OBVIOUS
<1>1. Init => NanInv
    BY DEF Init, NanInv, TensorAssumption
<1>2. TypeOK /\ NanInv /\ [Next]_vars => NanInv'
    BY NanKeeps
<1>3. NanInv => WindowCloses
    BY DEF NanInv, WindowCloses, Numbers
<1> QED BY <1>1, <1>2, <1>3, TensorTypeInvariant, PTL DEF Spec

-----------------------------------------------------------------------------
\* The rate.

LEMMA AgeKeeps == TensorAssumption /\ TypeOK /\ AgeInv /\ [Next]_vars => AgeInv'
<1> SUFFICES ASSUME TensorAssumption, TypeOK, AgeInv, [Next]_vars
             PROVE  AgeInv'
    OBVIOUS
<1>1. TypeOK'
    BY TensorType
<1>2. CASE OnRecv
  <2>1. UNCHANGED clock
      BY <1>2 DEF OnRecv
  <2>2. (age' = age /\ win'.t0 = win.t0) \/ (age' = 0 /\ win'.t0 = clock)
    <3> DEFINE v == Fuse(FillX(nan))
    <3>1. Adapt(win.n + 1, v)
        BY <1>2 DEF OnRecv
    <3> HIDE DEF v
    <3> QED BY <3>1 DEF Adapt, TypeOK
  <2>3. (clock - clock) % Period = 0
      BY Difference DEF TypeOK, Time, TensorAssumption
  <2> QED BY <1>1, <2>1, <2>2, <2>3 DEF AgeInv, TypeOK
<1>3. CASE Advance
  <2>1. win' = win /\ age' = (IF age < Period THEN age + 1 ELSE age)
      BY <1>3 DEF Advance
  <2>2. clock' = (IF clock = Period - 1 THEN 0 ELSE clock + 1) /\ clock' \in Time
      BY <1>3, NextTime DEF TypeOK
  <2>3. ASSUME age' < Period
        PROVE  age' = (clock' - win.t0) % Period
    <3>1. age + 1 < Period /\ age' = age + 1 /\ age = (clock - win.t0) % Period
        BY <2>1, <2>3 DEF AgeInv, TensorAssumption
    <3>2. /\ (clock - win.t0) % Period = IF clock >= win.t0 THEN clock - win.t0 ELSE clock - win.t0 + Period
          /\ (clock' - win.t0) % Period = IF clock' >= win.t0 THEN clock' - win.t0 ELSE clock' - win.t0 + Period
      <4>1. Period \in Nat /\ Period > 1 /\ {clock, clock', win.t0} \subseteq 0..(Period - 1)
          BY <2>2 DEF AgeInv, Time, TensorAssumption
      <4> QED BY <4>1, Difference
    <3> QED BY <3>1, <3>2, <2>2 DEF AgeInv, Time, TensorAssumption
  <2> QED BY <1>1, <2>1, <2>3 DEF AgeInv, TypeOK
<1>4. CASE OnGet \/ OnFault \/ SetW \/ ResetSeed \/ Tick \/ ClearFlush \/ UNCHANGED vars
    BY <1>4 DEF OnGet, OnFault, SetW, ResetSeed, Tick, ClearFlush, vars, AgeInv
<1> QED BY <1>2, <1>3, <1>4 DEF Next, Command

(***************************************************************************)
(* The rate is the receptions of the window over the time it was open, for *)
(* every period of the clock and wherever in it the window begins.         *)
(***************************************************************************)
THEOREM RateIsMeasured == TensorAssumption => (Spec => RateMeasuresTheWindow)
<1> SUFFICES ASSUME TensorAssumption PROVE Spec => RateMeasuresTheWindow
    OBVIOUS
<1>1. Init => AgeInv
  <2> SUFFICES ASSUME Init PROVE AgeInv
      OBVIOUS
  <2>1. (clock - clock) % Period = 0
      BY Difference DEF Init, Time, TensorAssumption
  <2> QED BY <2>1 DEF Init, AgeInv, TensorAssumption
<1>2. TypeOK /\ AgeInv /\ [Next]_vars => AgeInv'
    BY AgeKeeps
<1>3. ASSUME TypeOK, AgeInv, [Next]_vars
      PROVE  [RateMeasured]_vars
  <2> SUFFICES ASSUME age' = 0, age \in 1..(Period - 1)
               PROVE  win'.rate = ((win.n + 1) * PerSecond) \div age
      BY DEF RateMeasured
  <2>1. OnRecv
      BY <1>3 DEF Next, Command, OnGet, OnFault, SetW, ResetSeed, Tick, ClearFlush, Advance, vars,
             TensorAssumption
  <2> DEFINE v == Fuse(FillX(nan))
  <2>2. Adapt(win.n + 1, v)
      BY <2>1 DEF OnRecv
  <2> HIDE DEF v
  <2>3. win'.rate = ((win.n + 1) * PerSecond) \div Elapsed
      BY <2>2 DEF Adapt
  <2>4. Elapsed = age
      BY <1>3 DEF Elapsed, AgeInv, TensorAssumption
  <2> QED BY <2>3, <2>4
<1> QED BY <1>1, <1>2, <1>3, TensorTypeInvariant, PTL DEF Spec, RateMeasuresTheWindow

-----------------------------------------------------------------------------
\* The flush counter.

\* What is not a number is seen in the score at once, and reaches the rows of
\* the clamped outputs only through x[8].
NumbersInv ==
    /\ nan.row0 \/ nan.x => nan.score
    /\ nan.rows => nan.x
    /\ tuned \in Tunings(nan.rows \/ nan.x)

\* A weight of row 0, or none, is set; no reception, GET or fault does that.
LEMMA ScoreShows ==
    ASSUME NEW n \in NanType, n.rows => n.x
    PROVE  LET s == Fuse(n)
           IN  /\ s.row0 = n.row0 /\ s.rows = n.rows /\ s.x = n.x
               /\ s.row0 \/ s.x => s.score
BY DEF NanType, Fuse

LEMMA NumbersFlow ==
    ASSUME NEW n \in NanType, n.row0 \/ n.x => n.score, n.rows => n.x
    PROVE  LET v == Fuse(FillX(n))
               l == Learn(v)
           IN  /\ v \in NanType
               /\ v.x = n.score /\ (v.score <=> n.score) /\ v.row0 = n.row0 /\ v.rows = n.rows
               /\ l.x = v.x /\ l.score = v.score
               /\ l.row0 = (v.row0 \/ v.x) /\ l.rows = (v.rows \/ v.x)
<1>1. Fuse(FillX(n)) \in NanType
    BY NanSteps
<1> QED BY <1>1 DEF NanType, Fuse, FillX, Learn

LEMMA FlushTuned ==
    ASSUME TensorAssumption, NEW b \in BOOLEAN, NEW t \in Tunings(b)
    PROVE  t.flush \in 0..Wide /\ (~b => t.flush \in FlushMin..FlushMax)
BY DEF TensorAssumption, Tunings

LEMMA NumbersKept ==
    ASSUME TensorAssumption, TypeOK, NumbersInv, [Next]_vars
    PROVE  /\ NumbersInv'
           /\ nan' \in NanType
           /\ OnRecv \/ OnGet \/ OnFault => nan'.score = nan.score
<1> DEFINE v == Fuse(FillX(nan))
<1>1. nan \in NanType /\ nan' \in NanType
    BY TensorType DEF TypeOK, NanType
<1>2. /\ v \in NanType
      /\ v.x = nan.score /\ (v.score <=> nan.score) /\ v.row0 = nan.row0 /\ v.rows = nan.rows
      /\ Learn(v).x = v.x /\ Learn(v).score = v.score
      /\ Learn(v).row0 = (v.row0 \/ v.x) /\ Learn(v).rows = (v.rows \/ v.x)
    BY <1>1, NumbersFlow DEF NumbersInv
<1>3. /\ v.x = nan.score /\ v.score = nan.score
      /\ v.row0 \/ v.x => v.score
      /\ v.rows => v.x
    BY <1>1, <1>2 DEF NumbersInv, NanType
<1>4. CASE OnRecv
  <2>1. ApplyBatch(v) /\ Adapt(win.n + 1, v)
      BY <1>4 DEF OnRecv
  <2> HIDE DEF v
  <2>2. nan' \in {v, Learn(v)}
      BY <2>1, Zenon DEF Adapt
  <2>3. /\ nan'.x = v.x /\ nan'.score = v.score
        /\ nan'.row0 \/ nan'.x => nan'.score
        /\ nan'.rows => nan'.x
      BY <2>2, <1>2, <1>3
  <2>4. (nan'.rows \/ nan'.x) = (v.rows \/ v.x)
      BY <2>3, <1>3, <1>1, <1>2 DEF NanType
  <2>5. tuned' \in Tunings(nan'.rows \/ nan'.x)
      BY <2>1, <2>4 DEF ApplyBatch
  <2> QED BY <2>3, <2>5, <1>1, <1>3 DEF NumbersInv
<1>5. CASE OnGet \/ OnFault
  <2>1. ApplyBatch(v) /\ nan' = v
      BY <1>5 DEF OnGet, OnFault
  <2> HIDE DEF v
  <2> QED BY <2>1, <1>1, <1>3 DEF ApplyBatch, NumbersInv
<1>6. CASE SetW \/ ResetSeed
  <2>1. PICK n \in NanType : nan' = Fuse(n) /\ (n.rows => n.x)
    <3>1. CASE SetW
      <4>1. PICK b \in BOOLEAN : nan' = Fuse([nan EXCEPT !.row0 = b])
          BY <3>1, <1>1 DEF SetW, NanType
      <4>2. LET n == [nan EXCEPT !.row0 = b] IN n \in NanType /\ (n.rows => n.x)
          BY <1>1 DEF NanType, NumbersInv
      <4> QED BY <4>1, <4>2
    <3>2. CASE ResetSeed
      <4>1. nan' = Fuse([nan EXCEPT !.row0 = FALSE, !.rows = FALSE])
          BY <3>2 DEF ResetSeed
      <4>2. LET n == [nan EXCEPT !.row0 = FALSE, !.rows = FALSE] IN n \in NanType /\ (n.rows => n.x)
          BY <1>1 DEF NanType
      <4> QED BY <4>1, <4>2
    <3> QED BY <3>1, <3>2, <1>6
  <2>2. (nan'.row0 \/ nan'.x => nan'.score) /\ (nan'.rows => nan'.x)
      BY <2>1, ScoreShows
  <2>3. ApplyBatch(nan')
      BY <1>6 DEF SetW, ResetSeed
  <2>4. OnRecv \/ OnGet \/ OnFault => nan'.score = nan.score
      BY <1>4, <1>5
  <2> QED BY <2>2, <2>3, <2>4, <1>1 DEF ApplyBatch, NumbersInv
<1>7. CASE Tick \/ ClearFlush \/ Advance \/ UNCHANGED vars
    BY <1>7, <1>1, <1>4, <1>5 DEF Tick, ClearFlush, Advance, vars, NumbersInv
<1> QED BY <1>4, <1>5, <1>6, <1>7 DEF Next, Command

\* The instances differ from TensorRuntime in the weights that TSET may set
\* (clock), and in how wide the clamps are (nan).
LEMMA ClockSteps ==
    ASSUME Clock!Next
    PROVE  OnRecv \/ OnGet \/ OnFault \/ Clock!SetW \/ ResetSeed \/ Tick \/ ClearFlush \/ Advance
<1>1. /\ Clock!OnRecv => OnRecv
      /\ Clock!OnGet => OnGet
      /\ Clock!OnFault => OnFault
    BY Zenon DEF Clock!OnRecv, OnRecv, Clock!OnGet, OnGet, Clock!OnFault, OnFault, Clock!ApplyBatch, ApplyBatch,
        Clock!Tunings, Tunings, Clock!FillX, FillX, Clock!Fuse, Fuse, Clock!Learn, Learn, Clock!Adapt, Adapt,
        Clock!Open, Open, Clock!Elapsed, Elapsed, Clock!Later, Later
<1>2. /\ Clock!ResetSeed => ResetSeed
      /\ Clock!Tick => Tick
      /\ Clock!ClearFlush => ClearFlush
      /\ Clock!Advance => Advance
    BY Zenon DEF Clock!ResetSeed, ResetSeed, Clock!Tick, Tick, Clock!ClearFlush, ClearFlush,
        Clock!Advance, Advance, Clock!ApplyBatch, ApplyBatch, Clock!Tunings, Tunings, Clock!Fuse, Fuse
<1> QED BY <1>1, <1>2 DEF Clock!Next, Clock!Command

LEMMA ClockSetW == ASSUME Clock!SetW PROVE SetW
<1>1. PICK b \in {t = "nan" : t \in TsetValues \ {"nan"}} \cup {nan.row0} :
          nan' = Clock!Fuse([nan EXCEPT !.row0 = b])
    BY Zenon DEF Clock!SetW
<1>2. b \in {t = "nan" : t \in TsetValues} \cup {nan.row0} /\ nan' = Fuse([nan EXCEPT !.row0 = b])
    BY <1>1, Zenon DEF Clock!Fuse, Fuse
<1>3. ApplyBatch(nan') /\ UNCHANGED <<clock, age, win, restUntil, fault, since>>
    BY Zenon DEF Clock!SetW, Clock!ApplyBatch, ApplyBatch, Clock!Tunings, Tunings
<1> QED BY <1>2, <1>3, Zenon DEF SetW

LEMMA NanClamps ==
    ASSUME TensorAssumption
    PROVE  /\ Nan!Tunings(TRUE) \subseteq Tunings(TRUE)
           /\ Nan!Tunings(FALSE) \subseteq Tunings(FALSE)
           /\ \A v : Nan!ApplyBatch(v) => ApplyBatch(v)
<1>1. Nan!Tunings(TRUE) \subseteq Tunings(TRUE)
    BY DEF Nan!Tunings, Tunings, TensorAssumption
<1>2. Nan!Tunings(FALSE) \subseteq Tunings(FALSE)
    BY DEF Nan!Tunings, Tunings, TensorAssumption
<1>3. ASSUME NEW b, b PROVE Nan!Tunings(b) = Nan!Tunings(TRUE) /\ Tunings(b) = Tunings(TRUE)
    BY <1>3, Zenon DEF Nan!Tunings, Tunings
<1>4. ASSUME NEW b, ~b PROVE Nan!Tunings(b) = Nan!Tunings(FALSE) /\ Tunings(b) = Tunings(FALSE)
    BY <1>4, Zenon DEF Nan!Tunings, Tunings
<1>5. ASSUME NEW v, Nan!ApplyBatch(v) PROVE ApplyBatch(v)
  <2>1. tuned' \in Nan!Tunings(v.rows \/ v.x)
      BY <1>5, Zenon DEF Nan!ApplyBatch
  <2>2. CASE v.rows \/ v.x
      BY <1>1, <1>3, <2>1, <2>2, Zenon DEF ApplyBatch
  <2>3. CASE ~(v.rows \/ v.x)
      BY <1>2, <1>4, <2>1, <2>3, Zenon DEF ApplyBatch
  <2> QED BY <2>2, <2>3
<1> QED BY <1>1, <1>2, <1>5

LEMMA NanPartSteps == ASSUME TensorAssumption, Nan!Next PROVE Next
<1>0. \A v : Nan!ApplyBatch(v) => ApplyBatch(v)
    BY NanClamps
<1>1. /\ \A n : Nan!FillX(n) = FillX(n) /\ Nan!Fuse(n) = Fuse(n)
      /\ \A n, v : Nan!Adapt(n, v) => Adapt(n, v)
    BY Zenon DEF Nan!FillX, FillX, Nan!Fuse, Fuse, Nan!Learn, Learn, Nan!Adapt, Adapt, Nan!Open, Open,
        Nan!Elapsed, Elapsed, Nan!Later, Later
<1>2. Nan!OnRecv => OnRecv
    BY <1>0, <1>1, Zenon DEF Nan!OnRecv, OnRecv
<1>3. Nan!OnGet => OnGet
    BY <1>0, <1>1, Zenon DEF Nan!OnGet, OnGet
<1>4. Nan!OnFault => OnFault
  <2> SUFFICES ASSUME Nan!OnFault PROVE OnFault
      OBVIOUS
  <2>1. \E ms \in IF nan.rows THEN 0..FlushMin ELSE {} : restUntil' = Nan!Later(ms)
      BY Zenon DEF Nan!OnFault
  <2>2. 0..FlushMin \subseteq 0..Wide
      BY DEF TensorAssumption
  <2>3. \E ms \in IF nan.rows THEN 0..Wide ELSE FaultRests : restUntil' = Later(ms)
    <3>1. CASE nan.rows
        BY <2>1, <2>2, <3>1, Zenon DEF Nan!Later, Later
    <3>2. CASE ~nan.rows
        BY <2>1, <3>2, Zenon DEF Nan!Later, Later
    <3> QED BY <3>1, <3>2
  <2> QED BY <1>0, <1>1, <2>3, Zenon DEF Nan!OnFault, OnFault
<1>5. (Nan!SetW => SetW) /\ (Nan!ResetSeed => ResetSeed)
    BY <1>0, <1>1, Zenon DEF Nan!SetW, SetW, Nan!ResetSeed, ResetSeed
<1>6. (Nan!Tick => Tick) /\ (Nan!ClearFlush => ClearFlush) /\ (Nan!Advance => Advance)
    BY Zenon DEF Nan!Tick, Tick, Nan!ClearFlush, ClearFlush, Nan!Advance, Advance
<1> QED BY <1>2, <1>3, <1>4, <1>5, <1>6, Zenon DEF Nan!Next, Nan!Command, Next, Command

-----------------------------------------------------------------------------
(***************************************************************************)
(* The BENCH command, for every number of samples, all cycle counts and    *)
(* any fault of each model; broken is its fault.                           *)
(***************************************************************************)
\* The instance of BenchModels brings its own name of the same cardinality.
LEMMA SameCardinality == \A S : Bench!Cardinality(S) = Cardinality(S)
BY DEF Bench!Cardinality, Cardinality

LEMMA UpToN == ASSUME NEW n \in Nat PROVE IsFiniteSet(1..n) /\ Cardinality(1..n) = n
BY FS_Interval

\* Counting up: what holds at 0 and of each next number holds up to n.
LEMMA Climb ==
    ASSUME NEW n \in Nat, NEW S, 0 \in S, \A i \in 0..n : i # 0 /\ i - 1 \in S => i \in S
    PROVE  0..n \subseteq S
<1> DEFINE T == (0..n) \ S
           Less == {q \in Nat \X Nat : q[1] < q[2]}
<1>1. SUFFICES ASSUME T # {} PROVE FALSE
    OBVIOUS
<1>2. PICK i \in T : \A j \in T : ~(<<j, i>> \in Less)
  <2>1. T \subseteq Nat
      OBVIOUS
  <2>2. IsWellFoundedOn(Less, Nat)
      BY NatLessThanWellFounded, Zenon DEF OpToRel
  <2> HIDE DEF T, Less
  <2> QED BY <1>1, <2>1, <2>2, WFMin, Zenon
<1>3. i # 0 /\ i - 1 \in 0..n /\ i \in 0..n /\ i - 1 \notin T
  <2>1. i \in Nat /\ i \in 0..n /\ 0 \notin T
      OBVIOUS
  <2>2. i # 0 /\ i - 1 \in Nat /\ i - 1 < i
      BY <2>1
  <2>3. <<i - 1, i>> \in Less
      BY <2>1, <2>2
  <2> HIDE DEF T, Less
  <2>4. i - 1 \notin T
      BY <1>2, <2>3
  <2> QED BY <2>1, <2>2, <2>4
<1> QED BY <1>3

Steps(n, A) == [1..n -> [A -> A]]

\* There is a function that starts with a and is continued by the steps F.
LEMMA Iterates ==
    ASSUME NEW n \in Nat, NEW A, NEW a \in A, NEW F \in Steps(n, A)
    PROVE  \E f \in [0..n -> A] : f[0] = a /\ \A j \in 1..n : f[j] = F[j][f[j - 1]]
<1> DEFINE S == {m \in 0..n : \E f \in [0..m -> A] :
                    f[0] = a /\ \A j \in 1..m : f[j] = F[j][f[j - 1]]}
<1>1. 0 \in S
  <2> DEFINE z == [j \in 0..0 |-> a]
  <2>1. z \in [0..0 -> A] /\ z[0] = a /\ \A j \in 1..0 : z[j] = F[j][z[j - 1]]
      OBVIOUS
  <2>2. 0 \in 0..n
      OBVIOUS
  <2> HIDE DEF z
  <2> QED BY <2>1, <2>2
<1>2. ASSUME NEW m \in 0..n, m # 0, m - 1 \in S
      PROVE  m \in S
  <2>1. PICK f \in [0..(m - 1) -> A] : f[0] = a /\ \A j \in 1..(m - 1) : f[j] = F[j][f[j - 1]]
      BY <1>2
  <2> DEFINE g == [j \in 0..m |-> IF j = m THEN F[m][f[m - 1]] ELSE f[j]]
  <2>2. m \in 1..n /\ m - 1 \in 0..(m - 1) /\ F[m] \in [A -> A] /\ f[m - 1] \in A
      BY <1>2 DEF Steps
  <2>3. g \in [0..m -> A] /\ g[0] = a
      BY <2>1, <2>2
  <2>4. ASSUME NEW j \in 1..m
        PROVE  g[j] = F[j][g[j - 1]]
    <3>1. CASE j = m
        BY <2>2, <3>1
    <3>2. CASE j # m
      <4>1. j \in 1..(m - 1) /\ j - 1 \in 0..(m - 1) /\ j - 1 # m
          BY <3>2
      <4> QED BY <2>1, <3>2, <4>1
    <3> QED BY <3>1, <3>2
  <2> HIDE DEF g
  <2> QED BY <2>3, <2>4
<1>3. 0..n \subseteq S
  <2> HIDE DEF S
  <2> QED BY <1>1, <1>2, Climb
<1> QED BY <1>3

LEMMA CountsOn ==
    ASSUME NEW n \in Nat, NEW F \in Steps(n, Nat)
    PROVE  \E f \in [0..n -> Nat] : f[0] = 0 /\ \A j \in 1..n : f[j] = F[j][f[j - 1]]
<1>1. PICK A, a : A = Nat /\ a = 0
    OBVIOUS
<1>2. a \in A /\ F \in Steps(n, A)
    BY <1>1
<1>3. \E f \in [0..n -> A] : f[0] = a /\ \A j \in 1..n : f[j] = F[j][f[j - 1]]
    BY <1>2, Iterates
<1> QED BY <1>1, <1>3

-----------------------------------------------------------------------------
\* sort32.

Arrays(n) == [1..n -> Nat]

Ordered(s, n) == \A x, y \in 1..n : x <= y => s[x] <= s[y]

\* The inner loop stops behind the last element that is not larger than v.
LEMMA StopsBehind ==
    ASSUME NEW n \in Nat, NEW s \in Arrays(n), NEW i \in 1..n, NEW v \in Nat
    PROVE  LET j == Bench!Stop(s, v, i)
           IN  /\ j \in 0..i
               /\ j # 0 => s[j] <= v
               /\ \A k \in (j + 1)..i : s[k] > v
<1> DEFINE F == [k \in 1..i |-> [m \in Nat |-> IF s[k] > v THEN m ELSE k]]
           P(f) == f = [k \in 0..i |-> IF k > 0 /\ s[k] > v THEN f[k - 1] ELSE k]
<1>1. \E f : P(f)
  <2>1. F \in Steps(i, Nat) /\ i \in Nat
      BY DEF Steps
  <2>2. PICK f \in [0..i -> Nat] : f[0] = 0 /\ \A k \in 1..i : f[k] = F[k][f[k - 1]]
    <3> HIDE DEF F
    <3> QED BY <2>1, CountsOn
  <2>3. ASSUME NEW k \in 0..i
        PROVE  f[k] = IF k > 0 /\ s[k] > v THEN f[k - 1] ELSE k
    <3>1. CASE k = 0
        BY <2>2, <3>1
    <3>2. CASE k # 0
      <4>1. k \in 1..i /\ k - 1 \in 0..i /\ f[k - 1] \in Nat
          BY <3>2
      <4>2. f[k] = F[k][f[k - 1]]
          BY <2>2, <4>1
      <4> QED BY <4>1, <4>2
    <3> QED BY <3>1, <3>2
  <2>4. P(f)
    <3>1. f = [k \in 0..i |-> f[k]]
        OBVIOUS
    <3> QED BY <2>3, <3>1
  <2> QED BY <2>4
<1> DEFINE j == CHOOSE f : P(f)
<1>2. P(j)
    BY <1>1
<1>3. Bench!Stop(s, v, i) = j[i]
    BY DEF Bench!Stop
<1> HIDE DEF j
<1> DEFINE S == {k \in 0..i : /\ j[k] \in 0..k
                              /\ j[k] # 0 => s[j[k]] <= v
                              /\ \A m \in (j[k] + 1)..k : s[m] > v}
<1>4. \A k \in 0..i : j[k] = IF k > 0 /\ s[k] > v THEN j[k - 1] ELSE k
    BY <1>2
<1>5. 0 \in S
    BY <1>4
<1>6. ASSUME NEW k \in 0..i, k # 0, k - 1 \in S
      PROVE  k \in S
  <2>1. CASE s[k] > v
    <3>1. j[k] = j[k - 1] /\ k - 1 \in 0..i
        BY <1>4, <1>6, <2>1
    <3>2. ASSUME NEW m \in (j[k] + 1)..k
          PROVE  s[m] > v
      <4>1. m = k \/ m \in (j[k - 1] + 1)..(k - 1)
          BY <1>6, <3>1
      <4> QED BY <1>6, <2>1, <4>1
    <3> QED BY <1>6, <3>1, <3>2
  <2>2. CASE ~(s[k] > v)
    <3>1. j[k] = k /\ s[k] \in Nat /\ k \in Nat
        BY <1>4, <1>6, <2>2 DEF Arrays
    <3> QED BY <2>2, <3>1
  <2> QED BY <2>1, <2>2
<1>7. i \in S
  <2>1. 0..i \subseteq S
    <3>1. i \in Nat
        OBVIOUS
    <3> HIDE DEF S
    <3> QED BY <1>5, <1>6, <3>1, Climb
  <2> QED BY <2>1
<1> QED BY <1>3, <1>7

LEMMA Joined ==
    ASSUME NEW p \in Seq(Nat), NEW q \in Seq(Nat)
    PROVE  /\ p \o q \in Seq(Nat) /\ Len(p \o q) = Len(p) + Len(q)
           /\ \A k \in 1..(Len(p) + Len(q)) :
                 (p \o q)[k] = IF k <= Len(p) THEN p[k] ELSE q[k - Len(p)]
OBVIOUS

\* What the assignments of one round leave in the array.
LEMMA InsertedIs ==
    ASSUME NEW n \in Nat, NEW s \in Arrays(n), NEW i \in 1..(n - 1)
    PROVE  LET v == s[i + 1]
               j == Bench!Stop(s, v, i)
           IN  /\ Bench!Inserted(s, i) \in Arrays(n)
               /\ \A k \in 1..n : Bench!Inserted(s, i)[k] =
                     IF k \in (j + 2)..(i + 1) THEN s[k - 1] ELSE IF k = j + 1 THEN v ELSE s[k]
<1> DEFINE v == s[i + 1]
           j == Bench!Stop(s, v, i)
           t == SubSeq(s, 1, j) \o <<v>> \o SubSeq(s, j + 1, i) \o SubSeq(s, i + 2, Len(s))
<1>1. v \in Nat /\ j \in 0..i
  <2>1. i \in 1..n /\ i + 1 \in 1..n /\ s[i + 1] \in Nat
      BY DEF Arrays
  <2> QED BY <2>1, StopsBehind
<1>2. Bench!Inserted(s, i) = t
    BY DEF Bench!Inserted
<1> HIDE DEF v, j
<1>3. s \in Seq(Nat) /\ Len(s) = n
    BY DEF Arrays
<1>4. /\ SubSeq(s, 1, j) \in Seq(Nat) /\ Len(SubSeq(s, 1, j)) = j
      /\ \A k \in 1..j : SubSeq(s, 1, j)[k] = s[k]
    BY <1>1, <1>3
<1>5. /\ SubSeq(s, j + 1, i) \in Seq(Nat) /\ Len(SubSeq(s, j + 1, i)) = i - j
      /\ \A k \in 1..(i - j) : SubSeq(s, j + 1, i)[k] = s[j + k]
    BY <1>1, <1>3
<1>6. /\ SubSeq(s, i + 2, n) \in Seq(Nat) /\ Len(SubSeq(s, i + 2, n)) = n - i - 1
      /\ \A k \in 1..(n - i - 1) : SubSeq(s, i + 2, n)[k] = s[i + 1 + k]
    BY <1>1, <1>3
<1> DEFINE b == SubSeq(s, 1, j)
           c == SubSeq(s, j + 1, i)
           d == SubSeq(s, i + 2, n)
<1>7. t = b \o <<v>> \o c \o d
    BY <1>3
<1> HIDE DEF b, c, d, t
<1>8. /\ t \in Seq(Nat) /\ Len(t) = n
      /\ \A k \in 1..n : t[k] = IF k <= j THEN b[k] ELSE IF k = j + 1 THEN v
                                ELSE IF k <= i + 1 THEN c[k - j - 1] ELSE d[k - i - 1]
  <2>1. /\ b \in Seq(Nat) /\ c \in Seq(Nat) /\ d \in Seq(Nat)
        /\ Len(b) = j /\ Len(c) = i - j /\ Len(d) = n - i - 1
      BY <1>4, <1>5, <1>6 DEF b, c, d
  <2> DEFINE p == b \o <<v>>
             q == p \o c
  <2>2. /\ p \in Seq(Nat) /\ Len(p) = j + 1
        /\ \A k \in 1..(j + 1) : p[k] = IF k <= j THEN b[k] ELSE v
      BY <1>1, <2>1
  <2>3. t = q \o d
      BY <1>7
  <2> HIDE DEF p
  <2>4. /\ q \in Seq(Nat) /\ Len(q) = i + 1
        /\ \A k \in 1..(i + 1) : q[k] = IF k <= j + 1 THEN p[k] ELSE c[k - j - 1]
    <3>1. q \in Seq(Nat) /\ Len(q) = Len(p) + Len(c)
        BY <2>1, <2>2, Joined
    <3>2. \A k \in 1..(Len(p) + Len(c)) : q[k] = IF k <= Len(p) THEN p[k] ELSE c[k - Len(p)]
        BY <2>1, <2>2, Joined
    <3>3. Len(p) + Len(c) = i + 1 /\ Len(p) = j + 1 /\ \A k \in Nat : k - (j + 1) = k - j - 1
        BY <1>1, <2>1, <2>2
    <3> HIDE DEF q
    <3> QED BY <1>1, <3>1, <3>2, <3>3
  <2> HIDE DEF q
  <2>5. /\ t \in Seq(Nat) /\ Len(t) = n
        /\ \A k \in 1..n : t[k] = IF k <= i + 1 THEN q[k] ELSE d[k - i - 1]
    <3>1. t \in Seq(Nat) /\ Len(t) = Len(q) + Len(d)
        BY <2>1, <2>3, <2>4, Joined
    <3>2. \A k \in 1..(Len(q) + Len(d)) : t[k] = IF k <= Len(q) THEN q[k] ELSE d[k - Len(q)]
        BY <2>1, <2>3, <2>4, Joined
    <3>3. Len(q) + Len(d) = n /\ Len(q) = i + 1 /\ \A k \in Nat : k - (i + 1) = k - i - 1
        BY <1>1, <2>1, <2>4
    <3> QED BY <3>1, <3>2, <3>3
  <2>6. ASSUME NEW k \in 1..n
        PROVE  t[k] = IF k <= j THEN b[k] ELSE IF k = j + 1 THEN v
                      ELSE IF k <= i + 1 THEN c[k - j - 1] ELSE d[k - i - 1]
    <3>1. t[k] = IF k <= i + 1 THEN q[k] ELSE d[k - i - 1]
        BY <2>5
    <3>2. k <= i + 1 => q[k] = IF k <= j + 1 THEN p[k] ELSE c[k - j - 1]
        BY <2>4
    <3>3. k <= j + 1 => p[k] = IF k <= j THEN b[k] ELSE v
        BY <1>1, <2>2
    <3> QED BY <1>1, <3>1, <3>2, <3>3
  <2> QED BY <2>5, <2>6
<1>9. ASSUME NEW k \in 1..n
      PROVE  t[k] = IF k \in (j + 2)..(i + 1) THEN s[k - 1] ELSE IF k = j + 1 THEN v ELSE s[k]
  <2>1. CASE k <= j
      BY <1>1, <1>4, <1>8, <2>1 DEF b
  <2>2. CASE k = j + 1
      BY <1>1, <1>8, <2>2
  <2>3. CASE k \in (j + 2)..(i + 1)
    <3>1. k - j - 1 \in 1..(i - j) /\ j + (k - j - 1) = k - 1
        BY <1>1, <2>3
    <3> QED BY <1>1, <1>5, <1>8, <2>3, <3>1 DEF c
  <2>4. CASE k > i + 1
    <3>1. k - i - 1 \in 1..(n - i - 1) /\ i + 1 + (k - i - 1) = k
        BY <1>1, <2>4
    <3> QED BY <1>1, <1>6, <1>8, <2>4, <3>1 DEF d
  <2> QED BY <1>1, <2>1, <2>2, <2>3, <2>4
<1>10. t \in Arrays(n)
    BY <1>8 DEF Arrays
<1> QED BY <1>2, <1>9, <1>10 DEF j, v

\* The array holds the numbers of a in some order.
Rearranged(s, a, n) == \E p \in Bijection(1..n, 1..n) : \A k \in 1..n : s[k] = a[p[k]]

LEMMA InsertedOrders ==
    ASSUME NEW n \in Nat, NEW s \in Arrays(n), NEW i \in 1..(n - 1), Ordered(s, i)
    PROVE  Ordered(Bench!Inserted(s, i), i + 1)
<1> DEFINE v == s[i + 1]
           j == Bench!Stop(s, v, i)
           t == Bench!Inserted(s, i)
<1>1. /\ v \in Nat /\ j \in 0..i
      /\ j # 0 => s[j] <= v
      /\ \A k \in (j + 1)..i : s[k] > v
  <2>1. i \in 1..n /\ i + 1 \in 1..n /\ s[i + 1] \in Nat
      BY DEF Arrays
  <2> QED BY <2>1, StopsBehind
<1>2. /\ t \in Arrays(n)
      /\ \A k \in 1..n : t[k] = IF k \in (j + 2)..(i + 1) THEN s[k - 1] ELSE IF k = j + 1 THEN v ELSE s[k]
    BY InsertedIs
<1> HIDE DEF v, j, t
<1>3. \A x, y \in 1..i : x <= y => s[x] <= s[y]
    BY DEF Ordered
<1>4. ASSUME NEW x \in 1..(i + 1), NEW y \in 1..(i + 1), x <= y
      PROVE  t[x] <= t[y]
  <2>1. /\ x \in 1..n /\ y \in 1..n /\ x \in Nat /\ y \in Nat
        /\ \A k \in 1..n : s[k] \in Nat
      BY DEF Arrays
  <2>2. CASE y <= j
    <3>1. t[x] = s[x] /\ t[y] = s[y] /\ x \in 1..i /\ y \in 1..i
        BY <1>1, <1>2, <1>4, <2>1, <2>2
    <3> QED BY <1>3, <1>4, <3>1
  <2>3. CASE y = j + 1 /\ x = y
      BY <1>1, <1>2, <2>1, <2>3
  <2>4. CASE y = j + 1 /\ x # y
    <3>1. x <= j /\ j \in 1..i /\ x \in 1..i /\ t[y] = v /\ t[x] = s[x]
        BY <1>1, <1>2, <1>4, <2>1, <2>4
    <3>2. s[x] <= s[j] /\ s[j] <= v /\ s[j] \in Nat
        BY <1>1, <1>3, <2>1, <3>1
    <3> QED BY <1>1, <2>1, <3>1, <3>2
  <2>5. CASE y > j + 1
    <3>1. y - 1 \in (j + 1)..i /\ y - 1 \in 1..i /\ t[y] = s[y - 1]
        BY <1>1, <1>2, <1>4, <2>1, <2>5
    <3>2. CASE x <= j
      <4>1. t[x] = s[x] /\ x \in 1..i /\ x <= y - 1
          BY <1>1, <1>2, <2>1, <2>5, <3>2
      <4> QED BY <1>3, <3>1, <4>1
    <3>3. CASE x = j + 1
      <4>1. t[x] = v /\ s[y - 1] > v /\ s[y - 1] \in Nat
          BY <1>1, <1>2, <2>1, <3>1, <3>3
      <4> QED BY <1>1, <3>1, <4>1
    <3>4. CASE x > j + 1
      <4>1. t[x] = s[x - 1] /\ x - 1 \in 1..i /\ x - 1 <= y - 1
          BY <1>1, <1>2, <1>4, <2>1, <3>4
      <4> QED BY <1>3, <3>1, <4>1
    <3> QED BY <1>1, <2>1, <3>2, <3>3, <3>4
  <2> QED BY <1>1, <2>1, <2>2, <2>3, <2>4, <2>5
<1> QED BY <1>4 DEF Ordered, t

LEMMA InsertedRearranges ==
    ASSUME NEW n \in Nat, NEW s \in Arrays(n), NEW i \in 1..(n - 1)
    PROVE  Rearranged(Bench!Inserted(s, i), s, n)
<1> DEFINE j == Bench!Stop(s, s[i + 1], i)
           t == Bench!Inserted(s, i)
           p == [k \in 1..n |-> IF k \in (j + 2)..(i + 1) THEN k - 1 ELSE IF k = j + 1 THEN i + 1 ELSE k]
           q == [k \in 1..n |-> IF k \in (j + 1)..i THEN k + 1 ELSE IF k = i + 1 THEN j + 1 ELSE k]
<1>1. j \in 0..i
  <2>1. i \in 1..n /\ i + 1 \in 1..n /\ s[i + 1] \in Nat
      BY DEF Arrays
  <2> QED BY <2>1, StopsBehind
<1>2. \A k \in 1..n : t[k] = IF k \in (j + 2)..(i + 1) THEN s[k - 1]
                             ELSE IF k = j + 1 THEN s[i + 1] ELSE s[k]
    BY InsertedIs
<1> HIDE DEF j, t
<1>3. p \in [1..n -> 1..n] /\ q \in [1..n -> 1..n]
    BY <1>1
<1>4. ASSUME NEW k \in 1..n
      PROVE  q[p[k]] = k /\ p[q[k]] = k /\ t[k] = s[p[k]]
  <2>1. q[p[k]] = k
      BY <1>1
  <2>2. p[q[k]] = k
      BY <1>1
  <2>3. t[k] = s[p[k]]
      BY <1>1, <1>2
  <2> QED BY <2>1, <2>2, <2>3
<1> HIDE DEF p, q
<1>5. p \in Bijection(1..n, 1..n)
  <2>1. p \in Injection(1..n, 1..n)
      BY <1>3, <1>4 DEF Injection, IsInjective
  <2>2. p \in Surjection(1..n, 1..n)
      BY <1>3, <1>4 DEF Surjection
  <2> QED BY <2>1, <2>2 DEF Bijection
<1> QED BY <1>4, <1>5 DEF Rearranged, t

LEMMA RearrangedTwice ==
    ASSUME NEW n \in Nat, NEW s, NEW t, NEW a, Rearranged(s, a, n), Rearranged(t, s, n)
    PROVE  Rearranged(t, a, n)
<1>1. PICK p \in Bijection(1..n, 1..n) : \A k \in 1..n : s[k] = a[p[k]]
    BY DEF Rearranged
<1>2. PICK q \in Bijection(1..n, 1..n) : \A k \in 1..n : t[k] = s[q[k]]
    BY DEF Rearranged
<1> DEFINE r == [k \in 1..n |-> p[q[k]]]
<1>3. p \in [1..n -> 1..n] /\ q \in [1..n -> 1..n]
    BY DEF Bijection, Injection
<1>4. r \in Bijection(1..n, 1..n)
    BY Fun_BijTransitive
<1>5. \A k \in 1..n : t[k] = a[r[k]]
    BY <1>1, <1>2, <1>3
<1> HIDE DEF r
<1> QED BY <1>4, <1>5 DEF Rearranged

\* The rounds of sort32, one after the other.
LEMMA SortRounds ==
    ASSUME NEW n \in Nat \ {0}, NEW a \in Arrays(n)
    PROVE  \E f \in [0..(n - 1) -> Arrays(n)] :
              /\ f[0] = a
              /\ \A i \in 1..(n - 1) : f[i] = Bench!Inserted(f[i - 1], i)
              /\ Bench!Sort32(a) = f[n - 1]
<1> DEFINE F == [i \in 1..(n - 1) |-> [s \in Arrays(n) |-> Bench!Inserted(s, i)]]
           P(f) == f = [i \in 0..(Len(a) - 1) |-> IF i = 0 THEN a ELSE Bench!Inserted(f[i - 1], i)]
<1>0. Len(a) = n
    BY DEF Arrays
<1>1. F \in Steps(n - 1, Arrays(n))
  <2>1. \A i \in 1..(n - 1), s \in Arrays(n) : Bench!Inserted(s, i) \in Arrays(n)
      BY InsertedIs
  <2> QED BY <2>1 DEF Steps
<1>2. PICK f \in [0..(n - 1) -> Arrays(n)] : f[0] = a /\ \A i \in 1..(n - 1) : f[i] = F[i][f[i - 1]]
  <2>1. n - 1 \in Nat
      OBVIOUS
  <2> HIDE DEF F
  <2> QED BY <1>1, <2>1, Iterates
<1>3. ASSUME NEW i \in 1..(n - 1)
      PROVE  f[i] = Bench!Inserted(f[i - 1], i)
  <2>1. f[i - 1] \in Arrays(n)
      OBVIOUS
  <2>2. F[i][f[i - 1]] = Bench!Inserted(f[i - 1], i)
      BY <2>1
  <2> HIDE DEF F
  <2> QED BY <1>2, <2>2
<1> HIDE DEF F
<1>4. P(f)
  <2>1. f = [i \in 0..(n - 1) |-> f[i]]
      OBVIOUS
  <2>2. \A i \in 0..(n - 1) : f[i] = IF i = 0 THEN a ELSE Bench!Inserted(f[i - 1], i)
      BY <1>2, <1>3
  <2> QED BY <1>0, <2>1, <2>2
<1> DEFINE g == CHOOSE h : P(h)
<1>5. P(g) /\ Bench!Sort32(a) = g[n - 1]
    BY <1>0, <1>4 DEF Bench!Sort32
<1> HIDE DEF g
<1> DEFINE S == {i \in 0..(n - 1) : g[i] = f[i]}
<1>6. \A i \in 0..(n - 1) : g[i] = IF i = 0 THEN a ELSE Bench!Inserted(g[i - 1], i)
    BY <1>0, <1>5
<1>7. 0 \in S
    BY <1>2, <1>6
<1>8. ASSUME NEW i \in 0..(n - 1), i # 0, i - 1 \in S PROVE i \in S
    BY <1>3, <1>6, <1>8
<1>9. n - 1 \in S
  <2>1. n - 1 \in Nat
      OBVIOUS
  <2> HIDE DEF S
  <2>2. 0..(n - 1) \subseteq S
      BY <1>7, <1>8, <2>1, Climb
  <2> QED BY <2>1, <2>2
<1> QED BY <1>2, <1>3, <1>5, <1>9

\* sort32 orders its array, and loses or invents nothing.
LEMMA SortSorts ==
    ASSUME NEW n \in Nat \ {0}, NEW a \in Arrays(n)
    PROVE  /\ Bench!Sort32(a) \in Arrays(n)
           /\ Ordered(Bench!Sort32(a), n)
           /\ Rearranged(Bench!Sort32(a), a, n)
<1>1. PICK f \in [0..(n - 1) -> Arrays(n)] :
         /\ f[0] = a
         /\ \A i \in 1..(n - 1) : f[i] = Bench!Inserted(f[i - 1], i)
         /\ Bench!Sort32(a) = f[n - 1]
    BY SortRounds
<1> DEFINE S == {i \in 0..(n - 1) : Ordered(f[i], i + 1) /\ Rearranged(f[i], a, n)}
<1>2. 0 \in S
  <2>1. Ordered(a, 1)
    <3>1. \A x, y \in 1..1 : x = y /\ a[x] \in Nat
        BY DEF Arrays
    <3> QED BY <3>1 DEF Ordered
  <2>2. Rearranged(a, a, n)
    <3> DEFINE id == [k \in 1..n |-> k]
    <3>1. id \in Bijection(1..n, 1..n) /\ \A k \in 1..n : a[k] = a[id[k]]
        BY DEF Bijection, Injection, IsInjective, Surjection
    <3> HIDE DEF id
    <3> QED BY <3>1 DEF Rearranged
  <2> QED BY <1>1, <2>1, <2>2
<1>3. ASSUME NEW i \in 0..(n - 1), i # 0, i - 1 \in S PROVE i \in S
  <2>0. i \in 1..(n - 1) /\ f[i - 1] \in Arrays(n)
      BY <1>3
  <2>1. f[i] = Bench!Inserted(f[i - 1], i)
      BY <1>1, <2>0
  <2>2. Ordered(f[i - 1], i) /\ Rearranged(f[i - 1], a, n)
    <3>1. i - 1 + 1 = i
        OBVIOUS
    <3> QED BY <1>3, <3>1
  <2>3. Ordered(f[i], i + 1)
      BY <2>0, <2>1, <2>2, InsertedOrders
  <2>4. Rearranged(f[i], a, n)
    <3>1. Rearranged(f[i], f[i - 1], n)
        BY <2>0, <2>1, InsertedRearranges
    <3> QED BY <2>2, <3>1, RearrangedTwice
  <2> QED BY <2>3, <2>4
<1>4. n - 1 \in S
  <2>1. n - 1 \in Nat
      OBVIOUS
  <2> HIDE DEF S
  <2>2. 0..(n - 1) \subseteq S
      BY <1>2, <1>3, <2>1, Climb
  <2> QED BY <2>1, <2>2
<1>5. n - 1 + 1 = n /\ n - 1 \in 0..(n - 1)
    OBVIOUS
<1> QED BY <1>1, <1>4, <1>5

\* At least k samples are no more than the k-th.
LEMMA SortedCounts ==
    ASSUME NEW n \in Nat \ {0}, NEW a \in Arrays(n), NEW k \in 1..n
    PROVE  LET v == Bench!Sort32(a)[k]
           IN  /\ v \in {a[i] : i \in 1..n}
               /\ Cardinality({j \in 1..n : a[j] <= v}) >= k
               /\ k = 1 => \A j \in 1..n : v <= a[j]
               /\ k = n => \A j \in 1..n : a[j] <= v
<1> DEFINE s == Bench!Sort32(a)
           B == {j \in 1..n : a[j] <= s[k]}
<1>1. s \in Arrays(n) /\ \A x, y \in 1..n : x <= y => s[x] <= s[y]
    BY SortSorts DEF Ordered
<1>2. PICK p \in Bijection(1..n, 1..n) : \A x \in 1..n : s[x] = a[p[x]]
    BY SortSorts DEF Rearranged
<1> HIDE DEF s
<1>3. p \in [1..n -> 1..n] /\ \A j \in 1..n : \E x \in 1..n : p[x] = j
    BY DEF Bijection, Injection, Surjection
<1>4. Cardinality(B) >= k
  <2> DEFINE r == [x \in 1..k |-> p[x]]
  <2>1. r \in Injection(1..k, B)
    <3>1. ASSUME NEW x \in 1..k
          PROVE  x \in 1..n /\ p[x] \in B
      <4>0. x \in 1..n /\ x <= k
          OBVIOUS
      <4>1. x \in 1..n /\ x <= k /\ p[x] \in 1..n
          BY <1>3, <4>0
      <4>2. s[x] <= s[k] /\ s[x] = a[p[x]]
          BY <1>1, <1>2, <4>1
      <4> QED BY <4>1, <4>2
    <3>2. \A x, y \in 1..k : p[x] = p[y] => x = y
        BY <3>1 DEF Bijection, Injection, IsInjective
    <3> QED BY <3>1, <3>2 DEF Injection, IsInjective
  <2>2. IsFiniteSet(1..n) /\ IsFiniteSet(B)
    <3>1. IsFiniteSet(1..n) /\ B \subseteq 1..n
        BY FS_Interval
    <3> QED BY <3>1, FS_Subset
  <2>3. Cardinality(1..k) = k
      BY FS_Interval
  <2> HIDE DEF r, B
  <2>4. Cardinality(1..k) <= Cardinality(B)
      BY <2>1, <2>2, FS_Injection
  <2> QED BY <2>3, <2>4
<1>5. s[k] \in {a[i] : i \in 1..n}
    BY <1>2, <1>3
<1>6. ASSUME NEW j \in 1..n
      PROVE  \E x \in 1..n : a[j] = s[x]
  <2>1. PICK x \in 1..n : p[x] = j
      BY <1>3
  <2> QED BY <1>2, <2>1
<1>7. k = 1 => \A j \in 1..n : s[k] <= a[j]
  <2>1. \A x \in 1..n : 1 <= x
      OBVIOUS
  <2> QED BY <1>1, <1>6, <2>1
<1>8. k = n => \A j \in 1..n : a[j] <= s[k]
  <2>1. \A x \in 1..n : x <= n
      OBVIOUS
  <2> QED BY <1>1, <1>6, <2>1
<1> QED BY <1>4, <1>5, <1>7, <1>8 DEF s

LEMMA PercentilesRight ==
    ASSUME Bench!BenchAssumption, NEW taken \in Measured,
           pct' = Bench!Percentiles(taken)
    PROVE  Bench!PercentilesDescribeSamples'
<1>0. Samples \in Nat \ {0} /\ \A i \in 1..Samples : taken[i] \in Nat
    BY DEF Bench!BenchAssumption
<1>1. taken \in Arrays(Samples)
    BY DEF Bench!BenchAssumption, Arrays
<1> DEFINE s == Bench!Sort32(taken)
           Counted(v) == {i \in 1..Samples : taken[i] <= v}
<1>2. Len(s) = Samples
    BY <1>0, <1>1, SortSorts DEF Arrays
<1>3. \A k \in 1..Samples :
         /\ s[k] \in {taken[i] : i \in 1..Samples}
         /\ Bench!Cardinality(Counted(s[k])) >= k
         /\ Bench!Cardinality(Counted(s[k])) \in Int
  <2> SUFFICES ASSUME NEW k \in 1..Samples
               PROVE  /\ s[k] \in {taken[i] : i \in 1..Samples}
                      /\ Cardinality(Counted(s[k])) >= k
                      /\ Cardinality(Counted(s[k])) \in Int
      BY SameCardinality
  <2>0. /\ s[k] \in {taken[i] : i \in 1..Samples}
        /\ Cardinality(Counted(s[k])) >= k
      BY <1>0, <1>1, SortedCounts
  <2>1. Counted(s[k]) \subseteq 1..Samples /\ IsFiniteSet(1..Samples)
      BY <1>0, UpToN
  <2>2. Cardinality(Counted(s[k])) \in Nat
      BY <2>1, FS_Subset, FS_CardinalityType
  <2> QED BY <2>0, <2>2
<1>4. \A j \in 1..Samples : s[1] <= taken[j] /\ taken[j] <= s[Samples]
  <2>1. 1 \in 1..Samples /\ Samples \in 1..Samples
      BY <1>0
  <2> QED BY <1>0, <1>1, <2>1, SortedCounts
<1>5. /\ Samples \div 2 + 1 \in 1..Samples
      /\ (Samples * 95) \div 100 + 1 \in 1..Samples
      /\ (Samples * 99) \div 100 + 1 \in 1..Samples
      /\ 100 * (Samples \div 2 + 1) >= 50 * Samples
      /\ 100 * ((Samples * 95) \div 100 + 1) >= 95 * Samples
      /\ 100 * ((Samples * 99) \div 100 + 1) >= 99 * Samples
    BY <1>0
<1>6. /\ pct'.taken = taken /\ pct'.lo = s[1] /\ pct'.hi = s[Samples]
      /\ pct'.p50 = s[Samples \div 2 + 1]
      /\ pct'.p95 = s[(Samples * 95) \div 100 + 1]
      /\ pct'.p99 = s[(Samples * 99) \div 100 + 1]
    BY <1>2 DEF Bench!Percentiles
<1> HIDE DEF s
<1>7. \A v : Counted(v) = {i \in 1..Samples : pct'.taken[i] <= v}
    BY <1>6
<1>8. /\ {pct'.lo, pct'.p50, pct'.p95, pct'.p99, pct'.hi} \subseteq {taken[i] : i \in 1..Samples}
      /\ \A v \in {taken[i] : i \in 1..Samples} : pct'.lo <= v /\ v <= pct'.hi
  <2>1. 1 \in 1..Samples /\ Samples \in 1..Samples
      BY <1>0
  <2>2. /\ pct'.lo \in {taken[i] : i \in 1..Samples} /\ pct'.hi \in {taken[i] : i \in 1..Samples}
      BY <1>3, <1>6, <2>1
  <2>3. /\ pct'.p50 \in {taken[i] : i \in 1..Samples}
        /\ pct'.p95 \in {taken[i] : i \in 1..Samples}
        /\ pct'.p99 \in {taken[i] : i \in 1..Samples}
      BY <1>3, <1>5, <1>6
  <2> QED BY <1>4, <1>6, <2>2, <2>3
<1>9. /\ 100 * Bench!Cardinality(Counted(pct'.p50)) >= 50 * Samples
      /\ 100 * Bench!Cardinality(Counted(pct'.p95)) >= 95 * Samples
      /\ 100 * Bench!Cardinality(Counted(pct'.p99)) >= 99 * Samples
  <2> HIDE DEF Counted
  <2>1. ASSUME NEW k \in 1..Samples, NEW q \in Nat, 100 * k >= q * Samples
        PROVE  100 * Bench!Cardinality(Counted(s[k])) >= q * Samples
      BY <1>0, <1>3, <2>1
  <2> QED BY <1>5, <1>6, <2>1
<1> QED BY <1>6, <1>7, <1>8, <1>9 DEF Bench!PercentilesDescribeSamples

-----------------------------------------------------------------------------
\* The 22 phases.
LEMMA PhaseFacts ==
    /\ DOMAIN Bench!Phases = 1..22 /\ Bench!Idle = 23
    /\ \A i \in 1..22 :
         LET p == Bench!Phases[i]
         IN  /\ p.do = "time" => p.kernel \notin Bench!Models
             /\ p.do = "init" => p.model \in Bench!Models
             /\ p.model \in Bench!Models \cup {"none"}
<1>1. Len(Bench!Phases) = 22 /\ DOMAIN Bench!Phases = 1..22
    BY DEF Bench!Phases
<1>2. ASSUME NEW i \in 1..22
      PROVE  LET p == Bench!Phases[i]
             IN  /\ p.do = "time" => p.kernel \notin Bench!Models
                 /\ p.do = "init" => p.model \in Bench!Models
                 /\ p.model \in Bench!Models \cup {"none"}
    BY DEF Bench!Phases, Bench!Init9, Bench!Warm, Bench!Plain, Bench!Tflm,
           Bench!Sample, Bench!Models
<1> QED BY <1>1, <1>2 DEF Bench!Idle

(***************************************************************************)
(* A model that answers is allocated and sound, and what was allocated     *)
(* once stays.                                                             *)
(***************************************************************************)
Allocated ==
    \A m \in Bench!Models :
       /\ model[m].interpreter = "allocated" => model[m].added
       /\ model[m].ok => model[m].interpreter = "allocated" /\ broken[m] = "none"

BenchInv ==
    /\ Bench!TypeOK
    /\ Allocated
    /\ Bench!InvokeOnlyAllocated
    /\ phase = 0 => runs = 0
    /\ phase \in 1..22 => runs > 0
    /\ Bench!PercentilesDescribeSamples

LEMMA BenchStarts == ASSUME Bench!BenchAssumption, Bench!Init PROVE BenchInv
BY PhaseFacts DEF BenchInv, Bench!Init, Bench!TypeOK, Allocated, Bench!InvokeOnlyAllocated,
    Bench!PercentilesDescribeSamples, Bench!Fresh, Bench!BenchAssumption, Bench!Models

ModelType == [added: BOOLEAN, interpreter: {"none", "built", "allocated"}, ok: BOOLEAN]

LEMMA InitializedKeeps ==
    ASSUME BenchInv, NEW m \in Bench!Models
    PROVE  LET i == Bench!Initialized(m)
           IN  /\ i \in ModelType
               /\ i.interpreter = "allocated" => i.added
               /\ i.ok => i.interpreter = "allocated" /\ broken[m] = "none"
               /\ m \in invoked => i.interpreter = "allocated" /\ broken[m] = "none"
<1>1. model[m] \in ModelType
    BY DEF BenchInv, Bench!TypeOK, ModelType
<1>2. CASE broken[m] = "version" \/ model[m].added
  <2>1. Bench!Initialized(m) = [model[m] EXCEPT !.ok = FALSE]
      BY <1>2 DEF Bench!Initialized
  <2> DEFINE i == [model[m] EXCEPT !.ok = FALSE]
  <2>2. i \in ModelType /\ i.interpreter = model[m].interpreter /\ i.added = model[m].added /\ i.ok = FALSE
      BY <1>1 DEF ModelType
  <2> QED BY <2>1, <2>2 DEF BenchInv, Allocated, Bench!InvokeOnlyAllocated
<1>3. CASE ~(broken[m] = "version" \/ model[m].added)
  <2>1. Bench!Initialized(m) = [added |-> TRUE,
            interpreter |-> IF broken[m] = "allocate" THEN "built" ELSE "allocated",
            ok |-> broken[m] = "none"]
      BY <1>3 DEF Bench!Initialized
  <2>2. m \notin invoked
      BY <1>3 DEF BenchInv, Allocated, Bench!InvokeOnlyAllocated
  <2>3. (broken[m] = "none") \in BOOLEAN
      OBVIOUS
  <2> DEFINE b == broken[m] = "none"
             j == [added |-> TRUE,
                   interpreter |-> IF broken[m] = "allocate" THEN "built" ELSE "allocated", ok |-> b]
  <2>4. j.added = TRUE /\ j.ok = b /\ j.interpreter = (IF broken[m] = "allocate" THEN "built" ELSE "allocated")
      BY Zenon
  <2>5. j \in ModelType
    <3> HIDE DEF b
    <3>1. b \in BOOLEAN
        BY <2>3 DEF b
    <3> QED BY <3>1 DEF ModelType
  <2> HIDE DEF j
  <2>6. Bench!Initialized(m) = j
      BY <2>1 DEF j
  <2> QED BY <2>2, <2>4, <2>5, <2>6
<1> QED BY <1>2, <1>3

LEMMA BenchRestarts == ASSUME Bench!BenchAssumption, BenchInv, Bench!Restart PROVE BenchInv'
BY PhaseFacts DEF BenchInv, Bench!Restart, Bench!TypeOK, Allocated, Bench!InvokeOnlyAllocated,
    Bench!PercentilesDescribeSamples, Bench!Fresh, Bench!BenchAssumption, Bench!Models

LEMMA BenchBoots == ASSUME Bench!BenchAssumption, BenchInv, Bench!Boot PROVE BenchInv'
<1>1. model' \in [Bench!Models -> ModelType]
    BY InitializedKeeps DEF Bench!Boot, BenchInv, Bench!TypeOK, ModelType
<1>2. Allocated' /\ Bench!InvokeOnlyAllocated'
    BY InitializedKeeps DEF Bench!Boot, BenchInv, Bench!TypeOK, Allocated, Bench!InvokeOnlyAllocated
<1>3. phase = 0 /\ phase' = 23 /\ UNCHANGED <<broken, runs, timed, pct, invoked>>
    BY PhaseFacts DEF Bench!Boot
<1>4. Bench!TypeOK'
    BY <1>1, <1>3, PhaseFacts DEF BenchInv, Bench!TypeOK, ModelType
<1>5. runs' = 0
    BY <1>3 DEF BenchInv
<1>6. Bench!PercentilesDescribeSamples'
    BY <1>3 DEF BenchInv, Bench!PercentilesDescribeSamples
<1> QED BY <1>2, <1>3, <1>4, <1>5, <1>6 DEF BenchInv

\* The next phase, or the end of the command.
LEMMA PhaseOver ==
    ASSUME Bench!BenchAssumption, BenchInv, phase \in 1..22, phase' = phase + 1, runs' = runs
    PROVE  phase' \in 0..Bench!Idle /\ runs' > 0 /\ phase' # 0
<1>1. runs > 0
    BY DEF BenchInv
<1> QED BY <1>1, PhaseFacts

LEMMA KernelInvoked ==
    ASSUME BenchInv, phase \in 1..22, Bench!Ready, Bench!Invoked, UNCHANGED <<model, broken>>
    PROVE  Bench!InvokeOnlyAllocated' /\ invoked' \subseteq Bench!Models
<1>1. Bench!Current.model \in Bench!Models =>
        model[Bench!Current.model].interpreter = "allocated" /\ broken[Bench!Current.model] = "none"
    BY DEF BenchInv, Allocated, Bench!Ready, Bench!Models
<1> QED BY <1>1 DEF BenchInv, Bench!TypeOK, Bench!InvokeOnlyAllocated, Bench!Invoked

LEMMA NoLine == ASSUME pct' = <<>> PROVE Bench!PercentilesDescribeSamples'
BY DEF Bench!PercentilesDescribeSamples

LEMMA BenchSteps ==
    ASSUME Bench!BenchAssumption, BenchInv, [Bench!Next]_Bench!vars
    PROVE  BenchInv'
<1>1. CASE Bench!Boot
    BY <1>1, BenchBoots
<1>2. CASE Bench!BootCrashes
    BY <1>2 DEF Bench!BootCrashes, Bench!vars, BenchInv, Bench!TypeOK, Allocated,
                Bench!InvokeOnlyAllocated, Bench!PercentilesDescribeSamples
<1>3. CASE Bench!Reset
    BY <1>3, BenchRestarts DEF Bench!Reset
<1>4. CASE Bench!Bench
  <2>1. /\ runs' = runs + 1 /\ runs' \in 0..MaxRuns /\ runs' > 0 /\ phase' = 1 /\ timed' = {}
        /\ UNCHANGED <<broken, model, pct, invoked>>
      BY <1>4 DEF Bench!Bench, BenchInv, Bench!TypeOK, Bench!BenchAssumption
  <2>2. Bench!TypeOK'
      BY <2>1, PhaseFacts DEF BenchInv, Bench!TypeOK
  <2>3. Bench!PercentilesDescribeSamples'
      BY <2>1 DEF BenchInv, Bench!PercentilesDescribeSamples
  <2>4. Allocated' /\ Bench!InvokeOnlyAllocated'
      BY <2>1 DEF BenchInv, Allocated, Bench!InvokeOnlyAllocated
  <2> QED BY <2>1, <2>2, <2>3, <2>4 DEF BenchInv
<1>5. CASE Bench!InitModel
  <2> DEFINE m == Bench!Current.model
  <2>1. phase \in 1..22 /\ m \in Bench!Models /\ Bench!Current.do = "init"
      BY <1>5, PhaseFacts DEF Bench!InitModel, Bench!Running, Bench!Current
  <2>2. CASE Bench!Crashes(m)
      BY <1>5, <2>2, BenchRestarts DEF Bench!InitModel
  <2>3. CASE ~Bench!Crashes(m)
    <3>1. /\ model' = [model EXCEPT ![m] = Bench!Initialized(m)] /\ phase' = phase + 1
          /\ UNCHANGED <<broken, runs, timed, pct, invoked>>
        BY <1>5, <2>3 DEF Bench!InitModel
    <3>2. model' \in [Bench!Models -> ModelType]
        BY <2>1, <3>1, InitializedKeeps DEF BenchInv, Bench!TypeOK, ModelType
    <3>3. Allocated' /\ Bench!InvokeOnlyAllocated'
        BY <2>1, <3>1, InitializedKeeps DEF BenchInv, Bench!TypeOK, Allocated, Bench!InvokeOnlyAllocated
    <3>5. Bench!TypeOK'
        BY <2>1, <3>1, <3>2, PhaseOver DEF BenchInv, Bench!TypeOK, ModelType
    <3>6. Bench!PercentilesDescribeSamples'
        BY <3>1 DEF BenchInv, Bench!PercentilesDescribeSamples
    <3> QED BY <2>1, <3>1, <3>3, <3>5, <3>6, PhaseOver DEF BenchInv
  <2> QED BY <2>2, <2>3
<1>6. CASE Bench!WarmUp
  <2>1. /\ phase \in 1..22 /\ phase' = phase + 1 /\ pct' = <<>>
        /\ UNCHANGED <<broken, model, runs, timed>> /\ Bench!Ready /\ Bench!Invoked
      BY <1>6, PhaseFacts DEF Bench!WarmUp, Bench!Running
  <2>2. Bench!TypeOK'
      BY <2>1, KernelInvoked, PhaseOver DEF BenchInv, Bench!TypeOK
  <2> QED BY <2>1, <2>2, KernelInvoked, PhaseOver, NoLine DEF BenchInv, Allocated
<1>7. CASE Bench!Time
  <2>1. /\ phase \in 1..22 /\ phase' = phase + 1 /\ pct' = <<>>
        /\ UNCHANGED <<broken, model, runs>> /\ Bench!Ready /\ Bench!Invoked
      BY <1>7, PhaseFacts DEF Bench!Time, Bench!Running
  <2>2. timed' \subseteq {Bench!Phases[i].kernel : i \in DOMAIN Bench!Phases} \ Bench!Models
    <3>1. timed' = timed \cup {Bench!Phases[phase].kernel} /\ Bench!Phases[phase].do = "time"
        BY <1>7 DEF Bench!Time, Bench!Running, Bench!Current
    <3>2. phase \in DOMAIN Bench!Phases /\ Bench!Phases[phase].kernel \notin Bench!Models
      <4>1. phase \in 1..22
          BY <2>1
      <4> QED BY ONLY <3>1, <4>1, PhaseFacts
    <3> QED BY <3>1, <3>2 DEF BenchInv, Bench!TypeOK
  <2>3. Bench!TypeOK'
      BY <2>1, <2>2, KernelInvoked, PhaseOver DEF BenchInv, Bench!TypeOK
  <2> QED BY <2>1, <2>3, KernelInvoked, PhaseOver, NoLine DEF BenchInv, Allocated
<1>8. CASE Bench!SkipKernel
  <2>1. /\ phase \in 1..22 /\ phase' = phase + 1 /\ pct' = <<>>
        /\ UNCHANGED <<broken, model, runs, timed, invoked>>
      BY <1>8, PhaseFacts DEF Bench!SkipKernel, Bench!Running
  <2>2. Bench!TypeOK'
      BY <2>1, PhaseOver DEF BenchInv, Bench!TypeOK
  <2> QED BY <2>1, <2>2, PhaseOver, NoLine DEF BenchInv, Allocated, Bench!InvokeOnlyAllocated
<1>9. CASE Bench!TakeSamples
  <2>1. /\ phase \in 1..22 /\ phase' = phase + 1
        /\ UNCHANGED <<broken, model, runs, timed>> /\ Bench!Ready /\ Bench!Invoked
      BY <1>9, PhaseFacts DEF Bench!TakeSamples, Bench!Running
  <2>2. Bench!TypeOK'
      BY <2>1, KernelInvoked, PhaseOver DEF BenchInv, Bench!TypeOK
  <2>3. Bench!PercentilesDescribeSamples'
      BY <1>9, PercentilesRight DEF Bench!TakeSamples, Bench!Lines
  <2> QED BY <2>1, <2>2, <2>3, KernelInvoked, PhaseOver DEF BenchInv, Allocated
<1>10. CASE UNCHANGED Bench!vars
    BY <1>10 DEF Bench!vars, BenchInv, Bench!TypeOK, Allocated,
                 Bench!InvokeOnlyAllocated, Bench!PercentilesDescribeSamples
<1> QED BY <1>1, <1>2, <1>3, <1>4, <1>5, <1>6, <1>7, <1>8, <1>9, <1>10 DEF Bench!Next, Bench!BenchStep

(***************************************************************************)
(* No interpreter is invoked whose tensors were not allocated, and a       *)
(* percentile line describes its samples.                                  *)
(***************************************************************************)
LEMMA BenchModelsSound == Bench!BenchAssumption => (Bench!Spec => []Bench!BenchSound)
<1> SUFFICES ASSUME Bench!BenchAssumption PROVE Bench!Spec => []Bench!BenchSound
    OBVIOUS
<1>1. Bench!Init => BenchInv
    BY BenchStarts
<1>2. BenchInv /\ [Bench!Next]_Bench!vars => BenchInv'
    BY BenchSteps
<1>3. BenchInv => Bench!BenchSound
    BY DEF BenchInv, Bench!BenchSound
<1> QED BY <1>1, <1>2, <1>3, PTL DEF Bench!Spec

-----------------------------------------------------------------------------
\* The two parts together.

\* An initial state of a part is one of its component, and so is every step.
LEMMA FirmwareStarts ==
    ASSUME TensorAssumption, FirmwareInit
    PROVE  Init /\ Bench!Init /\ part \in {"clock", "nan", "bench"}
<1>1. Nan!Init => Init
    BY NanClamps, Zenon DEF Nan!Init, Init, Nan!Time, Time
<1> QED BY <1>1 DEF FirmwareInit

LEMMA FirmwareSteps ==
    ASSUME TensorAssumption, [FirmwareNext]_<<part, vars, benchVars>>
    PROVE  [Next]_vars /\ [Bench!Next]_(Bench!vars) /\ part' = part
<1>1. Clock!Next => Next
    BY ClockSteps, ClockSetW, Zenon DEF Next, Command
<1>2. Nan!Next => Next
    BY NanPartSteps
<1>3. Bench!vars = benchVars /\ Bench!vars' = benchVars'
    BY DEF Bench!vars, benchVars
<1>4. CASE part = "clock" /\ Clock!Next /\ UNCHANGED <<part, benchVars>>
    BY <1>1, <1>3, <1>4
<1>5. CASE part = "nan" /\ Nan!Next /\ UNCHANGED <<part, benchVars>>
    BY <1>2, <1>3, <1>5
<1>6. CASE part = "bench" /\ Bench!Next /\ UNCHANGED <<part, vars>>
    BY <1>3, <1>6
<1>7. CASE UNCHANGED <<part, vars, benchVars>>
    BY <1>3, <1>7
<1> QED BY <1>4, <1>5, <1>6, <1>7, Zenon DEF FirmwareNext

LEMMA FirmwareParts == TensorAssumption => (FirmwareSpec => Spec /\ Bench!Spec)
<1> SUFFICES ASSUME TensorAssumption PROVE FirmwareSpec => Spec /\ Bench!Spec
    OBVIOUS
<1>1. FirmwareInit => Init /\ Bench!Init
    BY FirmwareStarts
<1>2. [FirmwareNext]_<<part, vars, benchVars>> => [Next]_vars /\ [Bench!Next]_(Bench!vars)
    BY FirmwareSteps
<1> QED BY <1>1, <1>2, PTL DEF FirmwareSpec, Spec, Bench!Spec

(***************************************************************************)
(* BENCH invokes no model without tensors, and what it prints are the      *)
(* percentiles of its samples, because sort32 orders them and loses none;  *)
(* and every variable of the firmware keeps its type.                      *)
(***************************************************************************)
THEOREM BenchIsSound == FirmwareAssumption => (FirmwareSpec => []BenchSound)
<1> SUFFICES ASSUME FirmwareAssumption PROVE FirmwareSpec => []BenchSound
    OBVIOUS
<1>1. TensorAssumption /\ Bench!BenchAssumption
    BY FirmwareAssumption DEF FirmwareAssumption
<1>2. TypeOK /\ Bench!BenchSound => BenchSound
    BY DEF BenchSound
<1> QED BY <1>1, <1>2, FirmwareParts, TensorTypeInvariant, BenchModelsSound, PTL

(***************************************************************************)
(* The runtime is the flush counter that the controller assumes, for every *)
(* threshold range: receptions count up; any command may move the          *)
(* threshold, within its clamps if the tensor holds numbers only; TSET and *)
(* TRESET alone decide about that; and only a counter at the threshold is  *)
(* cleared.                                                                *)
(***************************************************************************)
THEOREM RuntimeIsFlushCounter == TensorAssumption => (FirmwareSpec => CountsFlushes)
<1> SUFFICES ASSUME TensorAssumption PROVE FirmwareSpec => CountsFlushes
    OBVIOUS
<1> DEFINE bar == IF part = "bench" THEN 0 ELSE IF since < Wide THEN since ELSE Wide
           flush == IF part = "bench" THEN FlushMin ELSE tuned.flush
           num == part = "bench" \/ Numbers
<1>1. FirmwareInit => NumbersInv
  <2> SUFFICES ASSUME FirmwareInit PROVE NumbersInv
      OBVIOUS
  <2>1. Init
      BY FirmwareStarts
  <2>2. nan = [row0 |-> FALSE, rows |-> FALSE, x |-> FALSE, score |-> FALSE] /\ tuned \in Tunings(FALSE)
      BY <2>1 DEF Init
  <2>3. ~nan.row0 /\ ~nan.rows /\ ~nan.x
      BY <2>2
  <2>4. (nan.rows \/ nan.x) = FALSE
      BY <2>3
  <2> QED BY <2>2, <2>3, <2>4 DEF NumbersInv
<1>2. TypeOK /\ NumbersInv /\ [FirmwareNext]_<<part, vars, benchVars>> => NumbersInv'
    BY FirmwareSteps, NumbersKept
<1>3. FirmwareInit => Flushes!Init
  <2> SUFFICES ASSUME FirmwareInit PROVE Flushes!Init
      OBVIOUS
  <2>1. Init
      BY FirmwareStarts
  <2>2. Numbers /\ tuned.flush \in FlushMin..FlushMax /\ FlushMin \in FlushMin..FlushMax
      BY <2>1 DEF Init, Numbers, Tunings, TensorAssumption
  <2>3. since = 0 /\ 0 < Wide
      BY <2>1 DEF Init, TensorAssumption
  <2>4. (part = "bench" \/ Numbers) = TRUE
      BY <2>2
  <2> QED BY <2>2, <2>3, <2>4 DEF Flushes!Init, Flushes!Thresholds
<1>4. ASSUME TypeOK, NumbersInv, NumbersInv', [FirmwareNext]_<<part, vars, benchVars>>
      PROVE  [Flushes!Next]_<<bar, flush, num>>
  <2>0. part' = part /\ [Next]_vars
      BY <1>4, FirmwareSteps
  <2>7. CASE part = "bench"
    <3>1. bar' = bar /\ flush' = flush /\ num' = num
        BY <2>0, <2>7
    <3> QED BY <3>1
  <2> SUFFICES ASSUME part # "bench" PROVE [Flushes!Next]_<<bar, flush, num>>
      BY <2>7
  <2>1. /\ bar = (IF since < Wide THEN since ELSE Wide) /\ bar' = (IF since' < Wide THEN since' ELSE Wide)
        /\ flush = tuned.flush /\ flush' = tuned'.flush
        /\ num = Numbers /\ num' = Numbers'
      BY <2>0 DEF Numbers
  <2>2. since \in Nat /\ Wide \in Nat \ {0}
      BY <1>4 DEF TypeOK, TensorAssumption
  <2>a. nan \in NanType /\ nan' \in NanType
      BY <1>4, <2>0, NumbersKept DEF TypeOK, NanType
  <2>b. (Numbers <=> ~nan.score) /\ (Numbers' <=> ~nan'.score) /\ num \in BOOLEAN /\ num' \in BOOLEAN
    <3>1. (Numbers <=> ~nan.score) /\ (Numbers' <=> ~nan'.score)
        BY <1>4, <2>a DEF NanType, NumbersInv, Numbers
    <3>2. Numbers \in BOOLEAN /\ Numbers' \in BOOLEAN
        BY DEF Numbers
    <3> QED BY <2>1, <3>1, <3>2
  <2>c. flush' \in Flushes!Thresholds(num')
    <3>3. tuned'.flush \in 0..Wide /\ (~(nan'.rows \/ nan'.x) => tuned'.flush \in FlushMin..FlushMax)
      <4>1. (nan'.rows \/ nan'.x) \in BOOLEAN /\ tuned' \in Tunings(nan'.rows \/ nan'.x)
          BY <1>4, <2>a DEF NanType, NumbersInv
      <4> QED BY <4>1, FlushTuned
    <3>4. num' => ~(nan'.rows \/ nan'.x)
        BY <1>4, <2>1, <2>b DEF NumbersInv
    <3> QED BY <2>1, <3>3, <3>4 DEF Flushes!Thresholds
  <2> HIDE DEF bar, flush, num
  <2>3. CASE OnRecv
    <3>1. since' = since + 1
        BY <2>3 DEF OnRecv
    <3>2. bar' = IF bar < Wide THEN bar + 1 ELSE bar
        BY <2>1, <2>2, <3>1
    <3>3. num' = num
        BY <1>4, <2>0, <2>1, <2>3, <2>b, NumbersKept
    <3> QED BY <2>c, <3>2, <3>3 DEF Flushes!Next, Flushes!Received, bar, flush, num
  <2>4. CASE OnGet \/ OnFault \/ SetW \/ ResetSeed
    <3>1. since' = since
        BY <2>4 DEF OnGet, OnFault, SetW, ResetSeed
    <3>2. bar' = bar
        BY <2>1, <3>1
    <3> QED BY <2>b, <2>c, <3>2 DEF Flushes!Next, Flushes!WeightsSet, bar, flush, num
  <2>5. CASE ClearFlush
    <3>1. since >= tuned.flush /\ since' = 0 /\ tuned' = tuned /\ nan' = nan
        BY <2>5 DEF ClearFlush
    <3>2. tuned.flush \in 0..Wide
      <4>1. (nan.rows \/ nan.x) \in BOOLEAN /\ tuned \in Tunings(nan.rows \/ nan.x)
          BY <1>4, <2>a DEF NanType, NumbersInv
      <4> QED BY <4>1, FlushTuned
    <3>3. bar >= flush /\ bar' = 0 /\ flush' = flush /\ num' = num
        BY <2>1, <2>2, <3>1, <3>2 DEF Numbers
    <3> QED BY <3>3 DEF Flushes!Next, Flushes!Flushed, bar, flush, num
  <2>6. CASE Tick \/ Advance \/ UNCHANGED vars
    <3>1. since' = since /\ tuned' = tuned /\ nan' = nan
        BY <2>6 DEF Tick, Advance, vars
    <3>2. bar' = bar /\ flush' = flush /\ num' = num
        BY <2>1, <3>1 DEF Numbers
    <3> QED BY <3>2
  <2> QED BY <2>0, <2>3, <2>4, <2>5, <2>6 DEF Next, Command
<1>5. FirmwareSpec => []TypeOK
    BY FirmwareParts, TensorTypeInvariant, PTL
<1> QED BY <1>1, <1>2, <1>3, <1>4, <1>5, PTL DEF FirmwareSpec, CountsFlushes, Flushes!Spec
=============================================================================
