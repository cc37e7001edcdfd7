------------------------------ MODULE QuarkTrio ------------------------------
(***************************************************************************)
(* The controller of the three-board pipeline: run_trio_pipeline of        *)
(* quark_trio_pipeline.ino creates one task per lane, gives each a pointer *)
(* into an array on its own stack, and takes one notification per task,    *)
(* waiting at most 30 s for each.  The lane's protocol with its worker is  *)
(* QuarkLane's; here a collect attempt succeeds or not.                    *)
(*                                                                         *)
(* A controller that gave up leaves its tasks running.  The next RUN has   *)
(* the same stack frame, the same Lane objects and the same notification   *)
(* count, so that old and new tasks share them.                            *)
(***************************************************************************)
EXTENDS Naturals, FiniteSets

CONSTANTS
    MaxSteps,   \* steps of a lane, of both streams
    MaxRuns,    \* bound of the model: RUN commands
    MaxTimeouts \* bound of the model: 30 s pass without a notification

Lanes == {1, 2}
Streams == {0, 1}
Runs == 1..MaxRuns

TrioAssumption ==
    /\ MaxSteps \in Nat \ {0}
    /\ MaxRuns \in Nat \ {0}
    /\ MaxTimeouts \in Nat

VARIABLES
    pc,         \* the controller: "idle" or in run_trio_pipeline, "wait"
    run,        \* its latest run
    left,       \* notifications still to take
    count,      \* the controller's notification count
    printed,    \* what the run ended with
    ok,         \* runs[lane].ok
    done,       \* steps taken by runs[lane].streams
    task,       \* per run and lane, the task's state
    inflight,   \* per run and lane, the task's local variable
    attempt,    \* per run and lane, the attempt of collect
    tx, retry,  \* tx_frame and retry_frame of the Lane: whose request
    resent,     \* every request sent again was the one in flight
    timeouts

vars == <<pc, run, left, count, printed, ok, done, task, inflight, attempt, tx, retry, resent, timeouts>>

Tasks == Runs \X Lanes

\* A request: the task that prepared it, and its stream.
Requests == Tasks \X Streams
NoRequest == <<<<1, 1>>, 0>>

TypeOK ==
    /\ pc \in {"idle", "wait"}
    /\ run \in 0..MaxRuns
    /\ left \in 0..2
    /\ count \in 0..(2 * MaxRuns)
    /\ printed \in {"none", "error", "result"}
    /\ ok \in [Lanes -> BOOLEAN]
    /\ done \in [Lanes -> 0..MaxSteps]
    /\ task \in [Tasks -> {"none", "created", "overlap", "collect", "ended"}]
    /\ inflight \in [Tasks -> Streams]
    /\ attempt \in [Tasks -> 0..2]
    /\ tx \in [Lanes -> Requests] /\ retry \in [Lanes -> Requests]
    /\ resent \in BOOLEAN
    /\ timeouts \in 0..MaxTimeouts

Init ==
    /\ pc = "idle" /\ run = 0 /\ left = 0 /\ count = 0
    /\ printed = "none"
    /\ ok = [l \in Lanes |-> FALSE]
    /\ done = [l \in Lanes |-> 0]
    /\ task = [t \in Tasks |-> "none"]
    /\ inflight = [t \in Tasks |-> 0]
    /\ attempt = [t \in Tasks |-> 0]
    /\ tx = [l \in Lanes |-> NoRequest] /\ retry = [l \in Lanes |-> NoRequest]
    /\ resent = TRUE
    /\ timeouts = 0

-----------------------------------------------------------------------------
\* The controller.

\* RUN: the array is initialised, the tasks are created (which may fail for
\* lack of memory) and started.
Run ==
    /\ pc = "idle" /\ run < MaxRuns
    /\ pc' = "wait" /\ run' = run + 1 /\ printed' = "none"
    /\ ok' = [l \in Lanes |-> FALSE]
    /\ done' = [l \in Lanes |-> 0]
    /\ \E created \in SUBSET Lanes :
          /\ left' = Cardinality(created)
          /\ task' = [t \in Tasks |-> IF t[1] = run' /\ t[2] \in created THEN "created" ELSE task[t]]
    /\ UNCHANGED <<count, inflight, attempt, tx, retry, resent, timeouts>>

\* Mutant: a notification stands for both tasks.
NotifiedOnce ==
    /\ pc = "wait" /\ left > 0 /\ count > 0
    /\ left' = 0 /\ count' = count - 1
    /\ UNCHANGED <<pc, run, printed, ok, done, task, inflight, attempt, tx, retry, resent, timeouts>>

Notified ==
    /\ pc = "wait" /\ left > 0 /\ count > 0
    /\ left' = left - 1 /\ count' = count - 1
    /\ UNCHANGED <<pc, run, printed, ok, done, task, inflight, attempt, tx, retry, resent, timeouts>>

\* "task_timeout": run_trio_pipeline returns.
GivesUp ==
    /\ pc = "wait" /\ left > 0 /\ count = 0
    /\ timeouts < MaxTimeouts
    /\ timeouts' = timeouts + 1
    /\ pc' = "idle" /\ printed' = "error"
    /\ UNCHANGED <<run, left, count, ok, done, task, inflight, attempt, tx, retry, resent>>

\* Mutant: the second lane's ok is not looked at.
ReportsFirst ==
    /\ pc = "wait" /\ left = 0
    /\ pc' = "idle"
    /\ printed' = IF ok[1] THEN "result" ELSE "error"
    /\ UNCHANGED <<run, left, count, ok, done, task, inflight, attempt, tx, retry, resent, timeouts>>

Reports ==
    /\ pc = "wait" /\ left = 0
    /\ pc' = "idle"
    /\ printed' = IF \A l \in Lanes : ok[l] THEN "result" ELSE "error"
    /\ UNCHANGED <<run, left, count, ok, done, task, inflight, attempt, tx, retry, resent, timeouts>>

-----------------------------------------------------------------------------
\* The task t = <<run, lane>>, run_lane_pipeline.  It writes to the array while
\* the controller of any run is in its frame, and to dead stack otherwise.

FrameWrites(t, okay, steps) ==
    IF pc = "wait"
      THEN ok' = [ok EXCEPT ![t[2]] = okay] /\ done' = [done EXCEPT ![t[2]] = steps]
      ELSE UNCHANGED <<ok, done>>

Taken(t) == IF done[t[2]] < MaxSteps THEN done[t[2]] + 1 ELSE MaxSteps

\* Mutant: a lane that fails does not notify the controller.
EndsSilently(t, okay, steps) ==
    /\ task' = [task EXCEPT ![t] = "ended"]
    /\ FrameWrites(t, okay, steps)
    /\ count' = IF okay THEN count + 1 ELSE count
    /\ inflight' = [inflight EXCEPT ![t] = 0]
    /\ attempt' = [attempt EXCEPT ![t] = 0]

\* The last writes, the notification and vTaskDelete, which frees the stack.
Ends(t, okay, steps) ==
    /\ task' = [task EXCEPT ![t] = "ended"]
    /\ FrameWrites(t, okay, steps)
    /\ count' = count + 1
    /\ inflight' = [inflight EXCEPT ![t] = 0]
    /\ attempt' = [attempt EXCEPT ![t] = 0]

\* init_lane_spi, a dispatch, or the last attempt of collect failed.
TaskFails(t) ==
    /\ task[t] \in {"created", "overlap", "collect"}
    /\ Ends(t, FALSE, done[t[2]])
    /\ UNCHANGED <<pc, run, left, printed, tx, retry, resent, timeouts>>

\* ok = true, prepare and dispatch of stream s, which copies its request.
Dispatches(t, s) ==
    /\ task' = [task EXCEPT ![t] = "overlap"]
    /\ inflight' = [inflight EXCEPT ![t] = s]
    /\ tx' = [tx EXCEPT ![t[2]] = <<t, s>>]
    /\ retry' = [retry EXCEPT ![t[2]] = <<t, s>>]

TaskBegins(t) ==
    /\ task[t] = "created"
    /\ FrameWrites(t, TRUE, done[t[2]])
    /\ Dispatches(t, 0)
    /\ UNCHANGED <<pc, run, left, count, printed, attempt, resent, timeouts>>

\* What a task reads from dead stack may be anything.
InFrame == pc = "wait"

\* The loop ends where it finds ok reset, by the controller of a later run.
TaskStops(t) ==
    /\ task[t] = "overlap" /\ (InFrame => ~ok[t[2]])
    /\ Ends(t, ok[t[2]], done[t[2]])
    /\ UNCHANGED <<pc, run, left, printed, tx, retry, resent, timeouts>>

\* The other stream's request is prepared, if it has steps left.
Overlap(t) ==
    /\ task[t] = "overlap" /\ (InFrame => ok[t[2]])
    /\ task' = [task EXCEPT ![t] = "collect"]
    /\ attempt' = [attempt EXCEPT ![t] = 0]
    /\ \/ tx' = [tx EXCEPT ![t[2]] = <<t, 1 - inflight[t]>>]
       \/ UNCHANGED tx
    /\ UNCHANGED <<pc, run, left, count, printed, ok, done, inflight, retry, resent, timeouts>>

\* Mutant: the frame that was prepared last is sent again.
Again(l) == tx[l]

ResendOf(l) == retry[l]

\* Mutant: one attempt too many.
AttemptsLeftLate(t) == attempt[t] < 3

AttemptsLeft(t) == attempt[t] < 2

Redispatch(t) ==
    /\ task[t] = "collect" /\ AttemptsLeft(t)
    /\ attempt' = [attempt EXCEPT ![t] = @ + 1]
    /\ resent' = (resent /\ ResendOf(t[2]) = <<t, inflight[t]>>)
    /\ UNCHANGED <<pc, run, left, count, printed, ok, done, task, inflight, tx, retry, timeouts>>

\* An answer was accepted: the next dispatch, or the end.
Collected(t) ==
    /\ task[t] = "collect"
    /\ \/ /\ InFrame => Taken(t) < MaxSteps
          /\ FrameWrites(t, ok[t[2]], Taken(t))
          /\ \E s \in Streams : Dispatches(t, s)
          /\ UNCHANGED <<count, attempt>>
       \/ /\ InFrame => Taken(t) = MaxSteps
          /\ Ends(t, ok[t[2]], Taken(t))
          /\ UNCHANGED <<tx, retry>>
    /\ UNCHANGED <<pc, run, left, printed, resent, timeouts>>

TaskStep(t) == TaskFails(t) \/ TaskBegins(t) \/ TaskStops(t) \/ Overlap(t) \/ Redispatch(t) \/ Collected(t)

Controller == Notified \/ Reports

Next == Run \/ Controller \/ GivesUp \/ \E t \in Tasks : TaskStep(t)

\* The tasks and the controller are scheduled; every wait of a task is bounded.
Fairness == WF_vars(Controller) /\ \A t \in Tasks : WF_vars(TaskStep(t))

Spec == Init /\ [][Next]_vars
FairSpec == Spec /\ Fairness

-----------------------------------------------------------------------------
\* Properties.

(***************************************************************************)
(* A result is printed, and with it the token rate, only when both lanes   *)
(* have taken every step of both streams: neither a task that could not be *)
(* created nor one that failed, and no notification, is counted twice.     *)
(***************************************************************************)
ResultIsComplete == printed = "result" => \A l \in Lanes : ok[l] /\ done[l] = MaxSteps

(***************************************************************************)
(* "Each lane preserves its in-flight request separately from the next     *)
(* prepared request, so a checksum retry cannot accidentally resend the    *)
(* other stream."                                                          *)
(***************************************************************************)
RetryResendsOwn == resent

(***************************************************************************)
(* The types; and both of the above for any number of runs until one is    *)
(* given up, and for a first run that is.  (The tasks of a run that was    *)
(* given up share frame, lanes and notifications with those of the next.)  *)
(***************************************************************************)
TrioIsComplete ==
    /\ TypeOK
    /\ timeouts = 0 \/ run = 1 => ResultIsComplete /\ RetryResendsOwn

(***************************************************************************)
(* Every RUN ends, with a result or an error, even though the controller   *)
(* never runs into its own timeout: the lanes notify it on every path.     *)
(***************************************************************************)
RunsEnd == pc = "wait" ~> pc = "idle"
=============================================================================
