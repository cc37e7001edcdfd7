----------------------------- MODULE MCFirmware -----------------------------
(***************************************************************************)
(* Small instances of the two parts of the kernel firmware that share no   *)
(* state: the adaptive tensor, with numbers only (clock) and with weights  *)
(* that are none (nan), and the BENCH command (bench).  One of the three,  *)
(* named by part, runs; the variables of the other component keep their    *)
(* first value.                                                            *)
(***************************************************************************)
EXTENDS TensorRuntime

CONSTANTS Samples, Measured, MaxRuns    \* of BenchModels

\* A kernel that gets faster, one that gets slower, a steady one with two
\* outliers, and one that varies, with ties.
MCMeasured ==
    {[i \in 1..Samples |-> Samples - i], [i \in 1..Samples |-> i],
     [i \in 1..Samples |-> IF i \in {2, 3} THEN 90 ELSE 7],
     [i \in 1..Samples |-> (37 * i) % 101]}

VARIABLES
    part,
    broken, model, phase, runs, timed, pct, invoked

Clock == INSTANCE TensorRuntime WITH TsetValues <- TsetValues \ {"nan"}

\* A weight that is not a number makes the clamps void: the narrowest are wide
\* enough, with one value outside of them, 0, that it may be converted to.
Nan == INSTANCE TensorRuntime WITH BurstMax <- 1, RestMax <- 0, FlushMax <- FlushMin, FaultRests <- {},
                                   Wide <- FlushMin

Bench == INSTANCE BenchModels WITH fault <- broken

ASSUME FirmwareAssumption == TensorAssumption /\ Bench!BenchAssumption

benchVars == <<broken, model, phase, runs, timed, pct, invoked>>

FirmwareInit ==
    /\ part \in {"clock", "nan", "bench"}
    /\ Bench!Init
    /\ part # "bench" => \A i \in DOMAIN broken : broken[i] = "none"
    /\ IF part = "clock" THEN Init ELSE Nan!Init
    /\ part = "bench" => clock = 0 /\ tuned.burst = 1

FirmwareNext ==
    \/ part = "clock" /\ Clock!Next /\ UNCHANGED <<part, benchVars>>
    \/ part = "nan" /\ Nan!Next /\ UNCHANGED <<part, benchVars>>
    \/ part = "bench" /\ Bench!Next /\ UNCHANGED <<part, vars>>

\* FairSpec of TensorRuntime and of BenchModels.
Fairness ==
    /\ WF_vars(part = "clock" /\ Clock!Advance)
    /\ SF_vars(part = "clock" /\ Clock!Tick)
    /\ WF_benchVars(part = "bench" /\ Bench!Boot)

FirmwareSpec == FirmwareInit /\ [][FirmwareNext]_<<part, vars, benchVars>> /\ Fairness

-----------------------------------------------------------------------------
\* Properties: those of TensorRuntime, and those of BenchModels, where each is
\* stated and explained.

\* A fault is forgotten once the host is quiet.
FaultsEnd ==
    part = "clock" =>
        (<>[][part = "clock" => ~Command]_vars => <>[](~fault \/ restUntil = Period - 1))

\* What the controller sees of the runtime: while BENCH is measured alone,
\* nothing.
Flushes == INSTANCE FlushCounter WITH
    FlushWide <- Wide,
    since <- IF part = "bench" THEN 0 ELSE IF since < Wide THEN since ELSE Wide,
    threshold <- IF part = "bench" THEN FlushMin ELSE tuned.flush,
    numbers <- part = "bench" \/ Numbers

\* It is the flush counter that SsosKernel assumes, with weights that are no
\* numbers and without.
CountsFlushes == Flushes!Spec

(***************************************************************************)
(* The types; no model is invoked without tensors, at boot or by BENCH;    *)
(* and a percentile line describes the samples it was computed from.       *)
(***************************************************************************)
BenchSound == TypeOK /\ Bench!BenchSound

\* What USE_CASES.md says of BENCH, and the code does not do.
EveryBenchMeasures == part = "bench" => Bench!EveryBenchMeasures

\* No model that resets the chip keeps it from ever finishing its boot.
NoBootLoop == part = "bench" => Bench!NoBootLoop
=============================================================================
