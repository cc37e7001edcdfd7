----------------------------- MODULE Checkpoints -----------------------------
(***************************************************************************)
(* The checkpoints of train_reference.py: runs that start from a seed or   *)
(* resume from any checkpoint with any batch shape, are killed at any      *)
(* point, and save through a temporary file.  What is learned is counted   *)
(* by the tokens drawn: weights stands for all batches up to there, and    *)
(* rng for where the generator stands.                                     *)
(***************************************************************************)
EXTENDS Integers

CONSTANTS
    Shapes,     \* batch size times sequence length: tokens per step
    Targets,    \* token counts that the runs aim at
    StepGoals,  \* values of --steps, for runs without a target
    Every,      \* --checkpoint-every
    OldStep,    \* the V1 checkpoint of the package, which has no token count,
    OldShape,   \* and the shape it was trained with
    MaxKills    \* bound of the model: runs that are killed

CheckpointsAssumption ==
    /\ Shapes \subseteq Nat \ {0} /\ Shapes # {}
    /\ Targets \subseteq Nat /\ StepGoals \subseteq Nat
    /\ \E n \in (Targets \cup StepGoals) \ {0} : \A k \in Targets \cup StepGoals : k <= n
    /\ Every \in Nat \ {0}
    /\ OldStep \in Nat /\ OldShape \in Shapes
    /\ MaxKills \in Nat

VARIABLES
    pc,         \* "off", "train", "save" (step taken, checkpoint due), "temp"
                \* (a temporary file is being written), "done"
    first,      \* first_step
    last,       \* last_step
    before,     \* presented_before_run
    shape,      \* tokens_per_step
    target,     \* --target-tokens-per-parameter in tokens, 0 when it is not given
    step,       \* the last step taken
    weights, rng,
    drawn,      \* tokens really presented to the weights
    files,      \* step-N.pt, by step
    kills

run == <<first, last, before, shape, target>>
learned == <<step, weights, rng, drawn>>
vars == <<pc, run, learned, files, kills>>

Ceiling(a, b) == (a + b - 1) \div b

LargestGoal == CHOOSE n \in Targets \cup StepGoals : \A k \in Targets \cup StepGoals : k <= n

\* A step takes a token at least; a target is at most as far as the largest.
Steps == 0..(LargestGoal + OldStep)

NoCount == -1
NoFile == [step |-> 0, presented |-> NoCount, weights |-> 0, rng |-> 0, drawn |-> 0, whole |-> FALSE]
OldFile == [step |-> OldStep, presented |-> NoCount, weights |-> OldStep * OldShape,
            rng |-> OldStep * OldShape, drawn |-> OldStep * OldShape, whole |-> TRUE]

TypeOK ==
    /\ pc \in {"off", "train", "save", "temp", "done"}
    /\ step \in Steps /\ last \in Steps /\ first \in Steps
    /\ pc # "off" => step \in (first - 1)..last
    /\ before >= 0 /\ weights >= 0 /\ rng >= 0 /\ drawn >= 0
    /\ shape \in Shapes
    /\ target \in Targets \cup {0}
    /\ \A n \in DOMAIN files : files[n] = NoFile \/ files[n].step = n
    /\ kills \in 0..MaxKills

Init ==
    /\ pc = "off"
    /\ first = 1 /\ last = 0 /\ before = 0 /\ target = 0
    /\ shape \in Shapes
    /\ step = 0 /\ weights = 0 /\ rng = 0 /\ drawn = 0
    /\ files = [n \in Steps |-> IF n = OldStep /\ OldStep > 0 THEN OldFile ELSE NoFile]
    /\ kills = 0

\* Mutant: the step count and the present shape stand for the tokens.
PresentedBeforeSteps(c, s) == c.step * s

\* The count of the checkpoint.  A V1 checkpoint has none: its steps are counted
\* in the present shape, or the user gives the count, as the README asks of one
\* who changes the shape.
PresentedBefore(c, s) ==
    IF c.presented # NoCount THEN c.presented
    ELSE IF s = OldShape THEN c.step * s
    ELSE c.drawn

\* Mutant: a remainder of less than a step is left out.
LastForFloor(f, presented, goal, s) == f - 1 + (goal - presented) \div s

LastFor(f, presented, goal, s) == f - 1 + Ceiling(goal - presented, s)

Begin(f, b, s) ==
    /\ pc \in {"off", "done"}
    /\ first' = f /\ before' = b /\ shape' = s /\ step' = f - 1
    /\ \/ \E goal \in Targets :
             /\ goal > b
             /\ target' = goal /\ last' = LastFor(f, b, goal, s)
       \/ \E goal \in StepGoals :
             /\ goal >= f
             /\ target' = 0 /\ last' = goal
    /\ pc' = "train"
    /\ UNCHANGED <<files, kills>>

FromSeed ==
    \E s \in Shapes :
       /\ Begin(1, 0, s)
       /\ weights' = 0 /\ rng' = 0 /\ drawn' = 0

\* Mutant: the state of the generator is not restored.
RestoredSeed(c) == 0

Restored(c) == c.rng

Resume(n) ==
    /\ files[n].whole
    /\ \E s \in Shapes : Begin(files[n].step + 1, PresentedBefore(files[n], s), s)
    /\ weights' = files[n].weights /\ rng' = Restored(files[n]) /\ drawn' = files[n].drawn

Presented == before + (step - first + 1) * shape

\* Mutant: one step too many.
MoreStepsLate == step <= last

MoreSteps == step < last

\* One step; a batch that was learned before adds nothing.
TrainStep ==
    /\ pc = "train" /\ MoreSteps
    /\ step' = step + 1
    /\ weights' = IF rng = weights THEN weights + shape ELSE weights
    /\ rng' = rng + shape
    /\ drawn' = drawn + shape
    /\ pc' = IF step' % Every = 0 \/ step' = last THEN "save" ELSE "train"
    /\ UNCHANGED <<run, files, kills>>

\* Mutant: the checkpoint is written in place.
OpenTempInPlace ==
    /\ pc = "save" /\ pc' = "temp"
    /\ files' = [files EXCEPT ![step] = [NoFile EXCEPT !.step = step]]
    /\ UNCHANGED <<run, learned, kills>>

OpenTemp ==
    /\ pc = "save" /\ pc' = "temp"
    /\ UNCHANGED <<run, learned, files, kills>>

\* os.replace, after torch.save has written the temporary file.
Replace ==
    /\ pc = "temp"
    /\ files' = [files EXCEPT ![step] =
                   [step |-> step, presented |-> Presented, weights |-> weights,
                    rng |-> rng, drawn |-> drawn, whole |-> TRUE]]
    /\ pc' = IF MoreSteps THEN "train" ELSE "done"
    /\ UNCHANGED <<run, learned, kills>>

\* A kill, a full disk, a state that is not finite.
Dies ==
    /\ pc \in {"train", "save", "temp"} /\ kills < MaxKills
    /\ kills' = kills + 1
    /\ pc' = "off"
    /\ UNCHANGED <<run, learned, files>>

Next ==
    \/ FromSeed \/ \E n \in Steps : Resume(n)
    \/ TrainStep \/ OpenTemp \/ Replace
    \/ Dies

Spec == Init /\ [][Next]_vars

-----------------------------------------------------------------------------
\* Properties.

(***************************************************************************)
(* "Cumulative tokens-per-parameter accounting that remains correct across *)
(* resumed runs and changed batch shapes": every count in a checkpoint is  *)
(* the number of tokens its weights were really presented with.            *)
(***************************************************************************)
AccountingExact ==
    \A n \in Steps : files[n].presented # NoCount => files[n].presented = files[n].drawn

(***************************************************************************)
(* A run that completes has reached its target, and passed it by less than *)
(* one step, wherever earlier runs were killed and whatever their shapes.  *)
(***************************************************************************)
EndsAtTarget ==
    pc = "done" /\ target > 0 => drawn >= target /\ drawn - target < shape

(***************************************************************************)
(* No batch is learned twice and none is left out after a resume: weights  *)
(* and generator of a checkpoint belong to one moment of one lineage.      *)
(***************************************************************************)
NothingLearnedTwice ==
    \A n \in Steps : files[n].whole => files[n].rng = files[n].weights /\ files[n].weights = files[n].drawn

(***************************************************************************)
(* A checkpoint that can be resumed stays one: replacing it, which a       *)
(* branch from an older checkpoint does, never leaves half a file under    *)
(* its name, wherever the run is killed.                                   *)
(***************************************************************************)
ResumableStays == [][\A n \in Steps : files[n].whole => files'[n].whole]_vars

(***************************************************************************)
(* The safety of training: the types, in which a run takes no more steps   *)
(* than the largest goal has tokens, and the three invariants above.       *)
(***************************************************************************)
CheckpointsExact == TypeOK /\ AccountingExact /\ NothingLearnedTwice /\ EndsAtTarget
=============================================================================
