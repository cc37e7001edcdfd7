------------------------------- MODULE MCLanes -------------------------------
(***************************************************************************)
(* Small instances of the three-board trio: one lane with its worker, with *)
(* everything that may go wrong (lane) and with damaged frames only        *)
(* (damage), and the two lane tasks under the controller, with short       *)
(* streams (trio) and with a run that is given up (late).  One of the      *)
(* four, named by part, runs; the variables of the others keep their first *)
(* value.                                                                  *)
(***************************************************************************)
EXTENDS QuarkLane

CONSTANTS
    MaxSteps, MaxRuns, MaxTimeouts,     \* of QuarkTrio
    LateRuns    \* bound of the model: runs of a controller that gives up

VARIABLES
    part,
    pc, run, left, count, printed, ok, done, task, tflight, tattempt, ttx, tretry,
    resent, timeouts

\* One stream ends while the other goes on alone.
UnevenSteps == [s \in {0, 1} |-> IF s = 0 THEN 2 ELSE 3]

Damage == INSTANCE QuarkLane WITH MaxMisses <- 0, MaxResets <- 0

Trio == INSTANCE QuarkTrio WITH
    inflight <- tflight, attempt <- tattempt, tx <- ttx, retry <- tretry

ASSUME LanesAssumption == Trio!TrioAssumption

trioVars ==
    <<pc, run, left, count, printed, ok, done, task, tflight, tattempt, ttx, tretry,
      resent, timeouts>>
allVars == <<part, vars, trioVars>>

LanesInit ==
    /\ part \in {"lane", "damage", "trio", "late"}
    /\ Init
    /\ Trio!Init

\* The trio's bounded numbers of runs come to an end, RunsEnd says in which
\* states; a lane never stops.
TrioStops == part \in {"trio", "late"} /\ UNCHANGED allVars

LanesNext ==
    \/ part = "lane" /\ Next /\ UNCHANGED <<part, trioVars>>
    \/ part = "damage" /\ Damage!Next /\ UNCHANGED <<part, trioVars>>
    \/ part = "trio" /\ Trio!Next /\ timeouts' = 0 /\ UNCHANGED <<part, vars>>
    \/ part = "late" /\ Trio!Next /\ run' <= LateRuns /\ UNCHANGED <<part, vars>>
    \/ TrioStops

\* Fairness of QuarkLane and of QuarkTrio.  Only after damage alone does the
\* host have to ask for runs again.
LanesFairness ==
    /\ WF_vars(part = "damage" /\ Damage!Run)
    /\ WF_vars((part = "lane" /\ LaneStep) \/ (part = "damage" /\ Damage!LaneStep))
    /\ WF_vars((part = "lane" /\ MasterBoots) \/ (part = "damage" /\ Damage!MasterBoots))
    /\ WF_vars((part = "lane" /\ WorkerStep) \/ (part = "damage" /\ Damage!WorkerStep))
    /\ WF_trioVars(part = "trio" /\ Trio!Controller)
    /\ \A t \in Trio!Tasks : WF_trioVars(part = "trio" /\ Trio!TaskStep(t))

LanesSpec == LanesInit /\ [][LanesNext]_allVars /\ LanesFairness

-----------------------------------------------------------------------------
\* Properties: those of QuarkLane, and those of QuarkTrio, where each is stated
\* and explained.

\* The types; what is printed and sent again is right, in a run that is given
\* up as well.
TrioIsComplete == TypeOK /\ Trio!TrioIsComplete

\* No run of a lane waits for ever, whatever went wrong; after damage alone a
\* later run succeeds; and every RUN of the controller ends without its own
\* timeout.
RunsEnd ==
    /\ part = "lane" => RunsReturn
    /\ part = "damage" => RunsSucceed
    /\ part = "trio" => Trio!RunsEnd
=============================================================================
