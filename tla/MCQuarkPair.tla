----------------------------- MODULE MCQuarkPair -----------------------------
(***************************************************************************)
(* QuarkPair with streams of different lengths, so that one stream ends    *)
(* while the other goes on alone.                                          *)
(***************************************************************************)
EXTENDS QuarkPair

UnevenSteps == [s \in Streams |-> IF s = 0 THEN 2 ELSE 4]
=============================================================================
