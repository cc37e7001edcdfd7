---------------------------- MODULE BenchModels -----------------------------
(***************************************************************************)
(* The kernel measurements of tqa_bench.cpp: the three TensorFlow Lite     *)
(* models and where each is initialised, the phases of tqaBenchRun in      *)
(* their order, and the percentiles of print_pct.                          *)
(*                                                                         *)
(* A phase measures one kernel.  Its cycle counts are free: none of them   *)
(* decides a step.  The float results are left out with the two "match"    *)
(* lines that print them.                                                  *)
(*                                                                         *)
(* External: a MicroMutableOpResolver<1> takes one registration and        *)
(* refuses the next; a model is bad in one of the ways of Faults; and the  *)
(* worst of them ("crash") resets the chip while it is being allocated.    *)
(***************************************************************************)
EXTENDS Integers, Sequences, FiniteSets

CONSTANTS
    Samples,    \* samples of a percentile line (128)
    Measured,   \* the samples, in cycles, that a line may be computed from
    MaxRuns     \* bound of the model: BENCH commands between two resets

BenchAssumption ==
    /\ Samples \in Nat \ {0}
    /\ Measured \subseteq [1..Samples -> Nat]
    /\ MaxRuns \in Nat

Models == {"hw", "f9", "s9"}
Faults == {"none", "version", "allocate", "shape", "crash"}

VARIABLES
    fault,      \* what is wrong with each model in this image
    model,      \* each model: its static resolver and interpreter, tfl_*_ok
    phase,      \* 0: setup(); 1..Len(Phases): BENCH; then: idle
    runs,       \* BENCH commands since the last reset
    timed,      \* kernels of which this BENCH has printed a measurement
    pct,        \* the percentile line just printed, with its samples
    invoked     \* ghost: models invoked since the last reset

vars == <<fault, model, phase, runs, timed, pct, invoked>>

Init9(m) == [do |-> "init", kernel |-> m, model |-> m]
Warm(m) == [do |-> "warm", kernel |-> m, model |-> m]
Plain(k) == [do |-> "time", kernel |-> k, model |-> "none"]
Tflm(k, m) == [do |-> "time", kernel |-> k, model |-> m]
Sample(k, m) == [do |-> "sample", kernel |-> k, model |-> m]

\* Initialisation, warm-up and 9 -> 1 kernels; then the fused 9 -> 8, for which
\* tensorOnRecv and its naive form run on the live runtime.
Phases ==
    <<Init9("f9"), Init9("s9"), Warm("hw"), Warm("f9"), Warm("s9"),
      Plain("9d_f32"), Plain("9d_s8"), Plain("espnn9"),
      Tflm("tflm9f", "f9"), Tflm("tflm9s8", "s9"), Tflm("tflm_hw", "hw"),
      Sample("9d_f32", "none"), Sample("9d_s8", "none"), Sample("espnn9", "none"),
      Sample("tflm9f", "f9"),
      Plain("fuse98"), Plain("eight9to1"),
      Plain("recv_fuse"), Plain("recv_x8"),
      Sample("fuse98", "none"), Sample("eight9to1", "none"),
      Plain("scale")>>

Idle == Len(Phases) + 1
Current == Phases[phase]

Fresh == [added |-> FALSE, interpreter |-> "none", ok |-> FALSE]

TypeOK ==
    /\ fault \in [Models -> Faults]
    /\ model \in [Models -> [added: BOOLEAN,
                             interpreter: {"none", "built", "allocated"},
                             ok: BOOLEAN]]
    /\ phase \in 0..Idle
    /\ runs \in 0..MaxRuns
    /\ timed \subseteq {Phases[i].kernel : i \in DOMAIN Phases} \ Models
    /\ invoked \subseteq Models

Init ==
    /\ fault \in [Models -> Faults]
    /\ model = [m \in Models |-> Fresh]
    /\ phase = 0
    /\ runs = 0
    /\ timed = {}
    /\ pct = <<>>
    /\ invoked = {}

-----------------------------------------------------------------------------
\* hw_init, f9_init, s9_init.  Resolver and interpreter are static locals:
\* they are built at the first call and found as they were left by the next.

\* Mutant: the result of AllocateTensors is not looked at.
InitializedUnallocated(m) ==
    IF fault[m] = "version" \/ model[m].added THEN [model[m] EXCEPT !.ok = FALSE]
    ELSE [added |-> TRUE,
          interpreter |-> IF fault[m] = "allocate" THEN "built" ELSE "allocated",
          ok |-> fault[m] # "shape"]

Initialized(m) ==
    IF fault[m] = "version" \/ model[m].added THEN [model[m] EXCEPT !.ok = FALSE]
    ELSE [added |-> TRUE,
          interpreter |-> IF fault[m] = "allocate" THEN "built" ELSE "allocated",
          ok |-> fault[m] = "none"]

\* Allocating this model now would reset the chip.
Crashes(m) == fault[m] = "crash" /\ ~model[m].added

\* Mutant: all models are initialised at start.
BootModelsAll == Models

BootModels == {"hw"}

\* tqaBenchInit in setup(); if a model crashes the chip, setup() starts again.
Boot ==
    /\ phase = 0
    /\ ~\E m \in BootModels : Crashes(m)
    /\ model' = [m \in Models |-> IF m \in BootModels THEN Initialized(m) ELSE model[m]]
    /\ phase' = Idle
    /\ UNCHANGED <<fault, runs, timed, pct, invoked>>

BootCrashes == phase = 0 /\ (\E m \in BootModels : Crashes(m)) /\ UNCHANGED vars

Restart ==
    /\ model' = [m \in Models |-> Fresh]
    /\ phase' = 0
    /\ runs' = 0 /\ timed' = {} /\ pct' = <<>> /\ invoked' = {}
    /\ UNCHANGED fault

\* Reset, or loss of power.
Reset == phase # 0 /\ Restart

-----------------------------------------------------------------------------
\* tqaBenchRun.

Bench ==
    /\ phase = Idle
    /\ runs < MaxRuns
    /\ runs' = runs + 1
    /\ phase' = 1
    /\ timed' = {}
    /\ UNCHANGED <<fault, model, pct, invoked>>

Running(kinds) == phase \in DOMAIN Phases /\ Current.do \in kinds

InitModel ==
    /\ Running({"init"})
    /\ IF Crashes(Current.model)
         THEN Restart
         ELSE /\ model' = [model EXCEPT ![Current.model] = Initialized(Current.model)]
              /\ phase' = phase + 1
              /\ UNCHANGED <<fault, runs, timed, pct, invoked>>

\* The kernel can be run: it needs no model, or one that is initialised.
Ready == Current.model # "none" => model[Current.model].ok

Invoked == invoked' = invoked \cup ({Current.model} \cap Models)

WarmUp ==
    /\ Running({"warm"}) /\ Ready
    /\ Invoked
    /\ phase' = phase + 1
    /\ pct' = <<>>
    /\ UNCHANGED <<fault, model, runs, timed>>

Time ==
    /\ Running({"time"}) /\ Ready
    /\ Invoked
    /\ timed' = timed \cup {Current.kernel}
    /\ phase' = phase + 1
    /\ pct' = <<>>
    /\ UNCHANGED <<fault, model, runs>>

SkipKernel ==
    /\ Running({"warm", "time", "sample"}) /\ ~Ready
    /\ phase' = phase + 1
    /\ pct' = <<>>
    /\ UNCHANGED <<fault, model, runs, timed, invoked>>

\* The inner loop of sort32: v passes every larger element before it, and
\* stops behind the first j of them.  (s[k] is a[k - 1] of the program.)
Stop(s, v, i) ==
    LET j[k \in 0..i] == IF k > 0 /\ s[k] > v THEN j[k - 1] ELSE k
    IN  j[i]

\* s with the element at i + 1 moved down behind the j-th.
Inserted(s, i) ==
    LET v == s[i + 1]
        j == Stop(s, v, i)
    IN  SubSeq(s, 1, j) \o <<v>> \o SubSeq(s, j + 1, i) \o SubSeq(s, i + 2, Len(s))

\* Mutant: the outer loop of the sort stops before the last element.
Sort32StopsEarly(a) ==
    LET sorted[i \in 0..(Len(a) - 1)] ==
            IF i = 0 THEN a ELSE Inserted(sorted[i - 1], i)
    IN  sorted[Len(a) - 2]

\* sort32, an insertion sort: sorted[i] is the array after i rounds.
Sort32(a) ==
    LET sorted[i \in 0..(Len(a) - 1)] ==
            IF i = 0 THEN a ELSE Inserted(sorted[i - 1], i)
    IN  sorted[Len(a) - 1]

\* print_pct on samples in the order in which they were taken.
Percentiles(taken) ==
    LET s == Sort32(taken)
        n == Len(s)
    IN  [taken |-> taken, lo |-> s[1], hi |-> s[n], p50 |-> s[n \div 2 + 1],
         p95 |-> s[(n * 95) \div 100 + 1], p99 |-> s[(n * 99) \div 100 + 1]]

Lines == {Percentiles(taken) : taken \in Measured}

TakeSamples ==
    /\ Running({"sample"}) /\ Ready
    /\ Invoked
    /\ pct' \in Lines
    /\ phase' = phase + 1
    /\ UNCHANGED <<fault, model, runs, timed>>

BenchStep == InitModel \/ WarmUp \/ Time \/ SkipKernel \/ TakeSamples

Next == Boot \/ BootCrashes \/ Reset \/ Bench \/ BenchStep

Spec == Init /\ [][Next]_vars

\* setup() runs to its end unless the board is reset.
FairSpec == Spec /\ WF_vars(Boot)

-----------------------------------------------------------------------------
\* Properties.

(***************************************************************************)
(* Whatever is wrong with a model, and however often BENCH is given: no    *)
(* interpreter is invoked whose tensors were not allocated.                *)
(***************************************************************************)
InvokeOnlyAllocated ==
    \A m \in invoked : model[m].interpreter = "allocated" /\ fault[m] = "none"

(***************************************************************************)
(* The line of print_pct describes the samples: its extremes are theirs,   *)
(* and at least 50, 95 and 99 percent of them are at or below its          *)
(* percentiles, which are samples themselves.                              *)
(***************************************************************************)
PercentilesDescribeSamples ==
    LET Below(v) == Cardinality({i \in 1..Samples : pct.taken[i] <= v})
        Taken == {pct.taken[i] : i \in 1..Samples}
    IN  pct # <<>> =>
          /\ {pct.lo, pct.p50, pct.p95, pct.p99, pct.hi} \subseteq Taken
          /\ \A v \in Taken : pct.lo <= v /\ v <= pct.hi
          /\ 100 * Below(pct.p50) >= 50 * Samples
          /\ 100 * Below(pct.p95) >= 95 * Samples
          /\ 100 * Below(pct.p99) >= 99 * Samples

(***************************************************************************)
(* tqa_bench.cpp: "9->1 models are initialized in BENCH only - a bad model *)
(* must not boot-loop."  Unless the model initialised at start is the bad  *)
(* one, setup() always comes to its end again.                             *)
(***************************************************************************)
NoBootLoop == fault["hw"] # "crash" => []<>(phase # 0)

(***************************************************************************)
(* The safety of the BENCH command: its types, and the two invariants      *)
(* above of the initialisations and of print_pct.                          *)
(***************************************************************************)
BenchSound == TypeOK /\ InvokeOnlyAllocated /\ PercentilesDescribeSamples

(***************************************************************************)
(* docs/USE_CASES.md: "`BENCH` runs the included kernel measurements."     *)
(* With sound models every BENCH measures every kernel.                    *)
(***************************************************************************)
EveryBenchMeasures ==
    phase = Idle /\ runs > 0 /\ (\A m \in Models : fault[m] = "none")
        => {"tflm9f", "tflm9s8", "tflm_hw"} \subseteq timed
=============================================================================
