--------------------------- MODULE TensorRuntime ----------------------------
(***************************************************************************)
(* The adaptive tensor of tqa_runtime.cpp: the reception window with its   *)
(* rate, the rest deadline, the fault flag, and the scheduling numbers     *)
(* that apply_batch derives from nine inputs and 72 weights.               *)
(*                                                                         *)
(* The arithmetic is abstracted to what decides control: apply_batch may   *)
(* pick any number of each clamped range.  Kept exactly is where a value   *)
(* that is not a number travels, since clampf lets it through: TSET takes  *)
(* one from the console, and from row 0 it reaches score, x[8] and, by     *)
(* learning, every row.  The conversion of such a value to uint16_t is     *)
(* undefined, so the number it becomes is any of 0..Wide.                  *)
(*                                                                         *)
(* millis() is the clock modulo Period (2^32 in the program).  scale,      *)
(* pending_ack and y8[5..7] are written and at most printed: left out.     *)
(***************************************************************************)
EXTENDS Integers

CONSTANTS
    Period,                 \* millis() counts modulo Period
    BurstMax, RestMax,      \* clamps of burst (1..) and rest_ms (0..)
    FlushMin, FlushMax,     \* clamps of flush_n
    FaultRests,             \* 4 + w * 6 for a weight of 0.25 .. 4
    Wide,                   \* largest result of an undefined conversion
    PerSecond,              \* 1000
    TsetValues,             \* "number", "nan"
    MaxCount                \* bound of the model: receptions counted

TensorAssumption ==
    /\ Period \in Nat /\ Period > 1
    /\ BurstMax \in Nat /\ 1 <= BurstMax
    /\ RestMax \in Nat
    /\ FlushMin \in Nat /\ FlushMax \in Nat
    /\ 1 <= FlushMin /\ FlushMin <= FlushMax
    /\ FaultRests \subseteq Nat
    /\ Wide \in Nat /\ BurstMax <= Wide /\ FlushMax <= Wide /\ RestMax <= Wide
    /\ PerSecond \in Nat
    /\ TsetValues \subseteq {"number", "nan"}
    /\ MaxCount \in Nat

VARIABLES
    clock,      \* millis()
    age,        \* ghost: true time since win_t0, up to Period
    win,        \* [n, t0, rate]: win_n, win_t0, last_rate
    restUntil,
    fault,      \* recent_fault
    since,      \* since_flush
    tuned,      \* [burst, rest, flush]: what apply_batch chose
    nan         \* [row0, rows, x, score]: where a value is not a number:
                \* weights of row 0, of rows 1..7, x[8], score

vars == <<clock, age, win, restUntil, fault, since, tuned, nan>>

Time == 0..(Period - 1)

Tunings(bad) ==
    IF bad THEN [burst: 0..Wide, rest: 0..Wide, flush: 0..Wide]
           ELSE [burst: 1..BurstMax, rest: 0..RestMax, flush: FlushMin..FlushMax]

TypeOK ==
    /\ clock \in Time
    /\ age \in 0..Period
    /\ win \in [n: 0..MaxCount, t0: Time, rate: Nat]
    /\ restUntil \in Time
    /\ fault \in BOOLEAN
    /\ since \in 0..MaxCount
    /\ tuned \in Tunings(FALSE) \cup Tunings(TRUE)
    /\ nan \in [row0: BOOLEAN, rows: BOOLEAN, x: BOOLEAN, score: BOOLEAN]

\* tensorInit() at any value of millis().
Init ==
    /\ clock \in Time
    /\ age = 0
    /\ win = [n |-> 0, t0 |-> clock, rate |-> 0]
    /\ restUntil = 0
    /\ fault = FALSE
    /\ since = 0
    /\ tuned \in Tunings(FALSE)
    /\ nan = [row0 |-> FALSE, rows |-> FALSE, x |-> FALSE, score |-> FALSE]

-----------------------------------------------------------------------------

\* fill_x: the ninth input is the score of the last batch.
FillX(n) == [n EXCEPT !.x = n.score]

\* tensorFuse98: row 0 gives the score.
Fuse(n) == [n EXCEPT !.score = n.row0 \/ n.x]

\* Mutant: the outputs are converted without clampf.
ApplyBatchUnclamped(n) == tuned' \in Tunings(TRUE)

\* apply_batch on the outputs of rows 2, 3 and 4.
ApplyBatch(n) == tuned' \in Tunings(n.rows \/ n.x)

\* learn_batch adds a multiple of x to every row.
Learn(n) == [n EXCEPT !.row0 = n.row0 \/ n.x, !.rows = n.rows \/ n.x]

\* Mutant: a signed comparison takes a wrapped clock for no time at all.
ElapsedSigned == IF clock > win.t0 THEN clock - win.t0 ELSE 1

Elapsed == LET d == (clock - win.t0) % Period IN IF d < 1 THEN 1 ELSE d

\* Mutant: the sum does not wrap as uint32_t does.
LaterUnwrapped(ms) == clock + ms

Later(ms) == (clock + ms) % Period

\* Mutant: the window is closed only by the very reception that fills it.
OpenUnlessEqual(n) == n # tuned'.burst

\* The test is made with the burst just chosen.
Open(n) == n < tuned'.burst

\* maybe_adapt for a window of n receptions, with the new burst and rest_ms.
Adapt(n, v) ==
    IF Open(n)
      THEN /\ win' = [win EXCEPT !.n = n]
           /\ nan' = v
           /\ UNCHANGED <<age, restUntil>>
      ELSE /\ win' = [n |-> 0, t0 |-> clock, rate |-> (n * PerSecond) \div Elapsed]
           /\ nan' = IF win.rate # 0 THEN Learn(v) ELSE v
           /\ restUntil' = IF tuned'.rest > 0 THEN Later(tuned'.rest) ELSE restUntil
           /\ age' = 0

\* tensorOnRecv, for each stored packet; BENCH calls it and
\* tensorOnRecvNaive8, which fills x and takes a row's product eight times.
OnRecv ==
    LET v == Fuse(FillX(nan)) IN
    /\ win.n < MaxCount /\ since < MaxCount
    /\ since' = since + 1
    /\ ApplyBatch(v)
    /\ Adapt(win.n + 1, v)
    /\ UNCHANGED <<clock, fault>>

OnGet ==
    LET v == Fuse(FillX(nan)) IN
    /\ ApplyBatch(v)
    /\ nan' = v
    /\ UNCHANGED <<clock, age, win, restUntil, fault, since>>

OnFault ==
    LET v == Fuse(FillX(nan)) IN
    /\ ApplyBatch(v)
    /\ nan' = v
    /\ fault' = TRUE
    /\ \E ms \in IF nan.rows THEN 0..Wide ELSE FaultRests : restUntil' = Later(ms)
    /\ UNCHANGED <<clock, age, win, since>>

\* Mutant: a tick in the very millisecond of the deadline re-arms it.
TickRearms ==
    /\ fault
    /\ clock >= restUntil
    /\ IF clock > restUntil
         THEN fault' = FALSE /\ UNCHANGED restUntil
         ELSE fault' = fault /\ restUntil' = Later(1)
    /\ UNCHANGED <<clock, age, win, since, tuned, nan>>

\* tensorTick, on every turn of loop().
Tick ==
    /\ fault
    /\ clock > restUntil
    /\ fault' = FALSE
    /\ UNCHANGED <<clock, age, win, restUntil, since, tuned, nan>>

\* tensorSetW changes one weight of row 0; it may be the one that was not a
\* number.  x is not filled again.
SetW ==
    /\ \E b \in {t = "nan" : t \in TsetValues} \cup {nan.row0} :
          nan' = Fuse([nan EXCEPT !.row0 = b])
    /\ ApplyBatch(nan')
    /\ UNCHANGED <<clock, age, win, restUntil, fault, since>>

ResetSeed ==
    /\ nan' = Fuse([nan EXCEPT !.row0 = FALSE, !.rows = FALSE])
    /\ ApplyBatch(nan')
    /\ UNCHANGED <<clock, age, win, restUntil, fault, since>>

\* loop() after a successful saveBank.
ClearFlush ==
    /\ since >= tuned.flush
    /\ since' = 0
    /\ UNCHANGED <<clock, age, win, restUntil, fault, tuned, nan>>

Advance ==
    /\ clock' = (clock + 1) % Period
    /\ age' = IF age < Period THEN age + 1 ELSE age
    /\ UNCHANGED <<win, restUntil, fault, since, tuned, nan>>

Command == OnRecv \/ OnGet \/ OnFault \/ SetW \/ ResetSeed

Next == Command \/ Tick \/ ClearFlush \/ Advance

Spec == Init /\ [][Next]_vars

(***************************************************************************)
(* Time passes, and an idle loop() ticks many times in every millisecond:  *)
(* a deadline that is past again and again is seen.                        *)
(***************************************************************************)
FairSpec == Spec /\ WF_vars(Advance) /\ SF_vars(Tick)

-----------------------------------------------------------------------------
\* Properties.

\* No weight, input or score is other than a number.
Numbers == nan = [row0 |-> FALSE, rows |-> FALSE, x |-> FALSE, score |-> FALSE]

(***************************************************************************)
(* While the numbers are numbers, every window closes after at most        *)
(* BurstMax receptions, although each reception, GET and fault picks a     *)
(* new burst: win_n * 1000 does not overflow and learning goes on.         *)
(***************************************************************************)
WindowCloses == Numbers => win.n < BurstMax

(***************************************************************************)
(* The time a window was open is measured right across a wrap of millis(), *)
(* unless it was open for a whole period of 49.7 days.                     *)
(***************************************************************************)
RateMeasured ==
    age' = 0 /\ age \in 1..(Period - 1) =>
        win'.rate = ((win.n + 1) * PerSecond) \div age

RateMeasuresTheWindow == [][RateMeasured]_vars

(***************************************************************************)
(* Once the host is quiet a fault is forgotten, whatever deadlines faults  *)
(* and batches wrote over each other and however millis() wraps; except    *)
(* when the deadline is the largest value of the clock, which no later     *)
(* time exceeds.                                                           *)
(***************************************************************************)
FaultForgotten ==
    <>[][~Command]_vars => <>[](~fault \/ restUntil = Period - 1)

\* Packets waiting to be flushed, as SsosKernel sees them.
Counter == INSTANCE FlushCounter WITH
    FlushWide <- Wide,
    since <- IF since < Wide THEN since ELSE Wide,
    threshold <- tuned.flush,
    numbers <- Numbers

(***************************************************************************)
(* The runtime is the flush counter that SsosKernel assumes: its threshold *)
(* is within its clamps as long as no weight was set to something that is  *)
(* not a number, and only TSET and TRESET decide about that.               *)
(***************************************************************************)
ImplementsFlushCounter == Counter!Spec

(***************************************************************************)
(* TRESET answers "OK tensor reset to trained seed": after it, weights,    *)
(* inputs and score are numbers again.                                     *)
(***************************************************************************)
ResetRestoresNumbers ==
    [][ResetSeed => ~(nan'.x \/ nan'.score)]_vars
=============================================================================
