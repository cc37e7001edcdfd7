----------------------------- MODULE MCPackages -----------------------------
(***************************************************************************)
(* Small instances of the ParetoQ package and of the language training:    *)
(* the block loader with its runner (loader), the ring with a patient host *)
(* (ring) and with transfers that are given up (late), and the checkpoints *)
(* of training (train).  One of the four, named by part, runs; the         *)
(* variables of the others keep their first value.                         *)
(***************************************************************************)
EXTENDS ParetoLoader

CONSTANTS
    Stages, Inputs, Outputs, MaxDamage, MaxTimeouts, MaxIdle, SeqMod,   \* of ParetoRing
    Shapes, Targets, StepGoals, Every, OldStep, OldShape, MaxKills      \* of Checkpoints

VARIABLES
    part,
    m, request, inReady, seq, reply, outcome, hidden, genuine, node, pkt, cache, job, left, damage,
    timeouts,
    pc, first, last, before, shape, target, step, weights, rng, drawn, files, kills

Ring == INSTANCE ParetoRing WITH step <- request, MaxTimeouts <- 0, Patient <- TRUE

Late == INSTANCE ParetoRing WITH step <- request, MaxIdle <- 0, Patient <- FALSE

Train == INSTANCE Checkpoints

ASSUME PackagesAssumption ==
    /\ Ring!RingAssumption /\ Late!RingAssumption
    /\ Train!CheckpointsAssumption

ringVars ==
    <<m, request, inReady, seq, reply, outcome, hidden, genuine, node, pkt, cache, job, left, damage,
      timeouts>>
trainVars ==
    <<pc, first, last, before, shape, target, step, weights, rng, drawn, files, kills>>
allVars == <<part, vars, ringVars, trainVars>>

PackagesInit ==
    /\ part \in {"loader", "ring", "late", "train"}
    /\ Init
    /\ Ring!Init
    /\ Train!Init
    /\ part # "train" => shape = OldShape

\* The loader's runs come to an end, and a ring whose packets were given up
\* may wait for ever; a ring with a patient host and a training may not.
Stops == part \in {"loader", "late"} /\ UNCHANGED allVars

PackagesNext ==
    \/ part = "loader" /\ Next /\ UNCHANGED <<part, ringVars, trainVars>>
    \/ part = "ring" /\ Ring!Next /\ UNCHANGED <<part, vars, trainVars>>
    \/ part = "late" /\ Late!Next /\ UNCHANGED <<part, vars, trainVars>>
    \/ part = "train" /\ Train!Next /\ UNCHANGED <<part, vars, ringVars>>
    \/ Stops

\* Fairness of ParetoRing.
Fairness ==
    /\ WF_ringVars(part = "ring" /\ Ring!Command)
    /\ WF_ringVars(part = "ring" /\ Ring!MasterStep)
    /\ \A n \in Ring!Nodes : WF_ringVars(part = "ring" /\ Ring!NodeStep(n))
    /\ \A n \in Ring!Compute :
          /\ WF_ringVars(part = "ring" /\ Ring!StageStep(n))
          /\ WF_ringVars(part = "ring" /\ Ring!Scan(n))

PackagesSpec == PackagesInit /\ [][PackagesNext]_allVars /\ Fairness

-----------------------------------------------------------------------------
\* Properties: those of ParetoLoader, and those of the other parts, where each
\* is stated and explained.

(***************************************************************************)
(* The types; a selection with a patient host takes logits of its own      *)
(* hidden vector; that vector is computed in its own command, and a late   *)
(* answer never passes for the answer to the present request, whatever the *)
(* host does.                                                              *)
(***************************************************************************)
LogitsAreOwn ==
    /\ TypeOK
    /\ IF part = "late" THEN Late!TypeOK ELSE Ring!TypeOK
    /\ part = "ring" => Ring!LogitsAreOwn
    /\ Ring!HiddenIsOwn
    /\ Ring!AcceptedIsOwn

\* After one damaged packet and one idle timeout, selections succeed again.
SelectionsSucceed == part = "ring" => Ring!SelectionsSucceed

(***************************************************************************)
(* A checkpoint's token count is what was presented to its weights, its    *)
(* generator has moved on as far as they, and a run with a target ends     *)
(* within one step of it.                                                  *)
(***************************************************************************)
CheckpointsExact == Train!CheckpointsExact

\* A whole checkpoint stays whole.
ResumableStays == Train!ResumableStays
=============================================================================
