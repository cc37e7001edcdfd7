---------------------------- MODULE FlushCounter ----------------------------
(***************************************************************************)
(* What the packet controller needs to know of the tensor runtime: how     *)
(* many packets wait to be flushed, up to the highest threshold there can  *)
(* be; a threshold that any command may move; and whether the tensor holds *)
(* numbers only, which keeps the threshold within its clamps.  SsosKernel  *)
(* contains these steps; TensorRuntime implements them.                    *)
(***************************************************************************)
EXTENDS Naturals

CONSTANTS FlushMin, FlushMax, FlushWide

VARIABLES since, threshold, numbers

Thresholds(n) == IF n THEN FlushMin..FlushMax ELSE 0..FlushWide

Init == since = 0 /\ numbers = TRUE /\ threshold \in Thresholds(TRUE)

\* No reception makes or heals what is not a number.
Received ==
    /\ since' = IF since < FlushWide THEN since + 1 ELSE since
    /\ threshold' \in Thresholds(numbers)
    /\ UNCHANGED numbers

\* Nor does a GET or a fault.
Retuned == threshold' \in Thresholds(numbers) /\ UNCHANGED <<since, numbers>>

WeightsSet ==
    /\ numbers' \in BOOLEAN
    /\ threshold' \in Thresholds(numbers')
    /\ UNCHANGED since

Flushed == since >= threshold /\ since' = 0 /\ UNCHANGED <<threshold, numbers>>

Next == Received \/ Retuned \/ WeightsSet \/ Flushed

Spec == Init /\ [][Next]_<<since, threshold, numbers>>
=============================================================================
