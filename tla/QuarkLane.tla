------------------------------ MODULE QuarkLane ------------------------------
(***************************************************************************)
(* One lane of the three-board pipeline of quark_trio_pipeline.ino: the    *)
(* task of the master that runs two interleaved streams against one        *)
(* worker, over an SPI link with a READY line.  Frames carry checksums     *)
(* here, a worker answers a request it cannot use with a NACK (result      *)
(* 0xFFFF), and collect() asks again, up to three times, from a copy of    *)
(* the request in flight.                                                  *)
(*                                                                         *)
(* Modelled: every poll of READY as a step, damaged transfers, pulses of   *)
(* READY that the master misses, errors of the SPI drivers, timeouts,      *)
(* failed runs, resets of either board, and the key/value caches of the    *)
(* worker.                                                                 *)
(***************************************************************************)
EXTENDS Naturals

CONSTANTS
    Steps,      \* total_steps of each stream
    MaxDamage,  \* bound of the model: damaged transfers
    MaxMisses,  \* bound of the model: READY pulses the master misses, and
                \* errors of the SPI drivers
    MaxResets   \* bound of the model: resets of the boards

Streams == {0, 1}

ASSUME LaneAssumption ==
    /\ Steps \in [Streams -> Nat \ {0}]
    /\ {MaxDamage, MaxMisses, MaxResets} \subseteq Nat

VARIABLES
    m,          \* where the lane's task stands
    attempt,    \* attempt of collect()
    inflight,   \* the stream whose request was dispatched last
    pos,        \* StreamState.pos
    prepared,   \* StreamState.prepared
    tx, retry, rx,      \* tx_frame, retry_frame, rx_frame of the Lane
    outcome,    \* how the last run of the lane ended
    w,          \* where the worker stands in worker_loop
    wrx, wtx,   \* worker_rx, worker_tx
    ready,      \* the level of READY
    cache,      \* per stream, the positions whose key/value entries the worker
                \* has computed in this run
    damage, misses, resets,
    disturbed,  \* the worker was reset since the run began
    genuine     \* every accepted result was computed from this run's request
                \* and this run's whole prefix

lane == <<attempt, inflight, pos, prepared, tx, retry, rx, outcome, genuine>>
worker == <<w, wrx, wtx, ready, cache>>
vars == <<m, lane, worker, damage, misses, resets, disturbed>>

(***************************************************************************)
(* A frame is its stream and position (sequence is position + 1); good     *)
(* says that its numbers belong to this run.  Refused stands for every     *)
(* frame that fails a test of its receiver: damaged, empty, cut, or a NACK.*)
(***************************************************************************)
Refused == [stream |-> 2, pos |-> 0, good |-> FALSE]
Frame(p, s) == [stream |-> s, pos |-> p[s], good |-> TRUE]
Stale(f) == [f EXCEPT !.good = FALSE]

Positions == 0..(IF Steps[0] > Steps[1] THEN Steps[0] ELSE Steps[1])
Frames == [stream: 0..2, pos: Positions, good: BOOLEAN]

TypeOK ==
    /\ m \in {"boot", "idle", "disp_hi", "disp_lo", "overlap", "coll_hi", "coll_lo",
              "check", "redisp_hi", "redisp_lo"}
    /\ attempt \in 0..2
    /\ inflight \in Streams
    /\ pos \in [Streams -> Positions]
    /\ prepared \in [Streams -> BOOLEAN]
    /\ {tx, retry, rx, wrx, wtx} \subseteq Frames
    /\ outcome \in {"none", "ok", "error"}
    /\ w \in {"boot", "rx", "rx_done", "compute", "tx", "tx_done", "gap"}
    /\ ready \in {0, 1}
    /\ cache \in [Streams -> SUBSET Positions]
    /\ damage \in 0..MaxDamage /\ misses \in 0..MaxMisses /\ resets \in 0..MaxResets
    /\ disturbed \in BOOLEAN /\ genuine \in BOOLEAN

\* Both boards have started.
Init ==
    /\ m = "idle" /\ attempt = 0 /\ inflight = 0
    /\ pos = [s \in Streams |-> 0]
    /\ prepared = [s \in Streams |-> FALSE]
    /\ tx = Refused /\ retry = Refused /\ rx = Refused
    /\ outcome = "none"
    /\ w = "rx" /\ wrx = Refused /\ wtx = Refused
    /\ ready = 1
    /\ cache = [s \in Streams |-> {}]
    /\ damage = 0 /\ misses = 0 /\ resets = 0
    /\ disturbed = FALSE /\ genuine = TRUE

-----------------------------------------------------------------------------
\* The link.

\* A frame arrives as it was sent, or damaged.
Arrives(f, sent) ==
    \/ f = sent /\ damage' = damage
    \/ f = Refused /\ damage < MaxDamage /\ damage' = damage + 1

(***************************************************************************)
(* The master clocks a transfer with READY high: a worker that expects a   *)
(* request gets sent (the 24 empty bytes of a reply's transfer included),  *)
(* one that has a reply queued sends that.  got is what the master reads.  *)
(***************************************************************************)
Transfer(sent, got) ==
    /\ ready = 1
    /\ \/ w = "rx" /\ w' = "rx_done" /\ Arrives(wrx', sent) /\ got = Refused
       \/ w = "tx" /\ w' = "tx_done" /\ wrx' = wrx /\ Arrives(got, wtx)
       \/ w \notin {"rx", "tx"} /\ UNCHANGED <<w, wrx, damage>> /\ got = Refused
    /\ UNCHANGED <<wtx, ready, cache>>

\* The worker waits for the master or boots; its other steps take less than
\* the shortest timeout, 2 s.
Blocked == {"rx", "tx", "boot"}
TimedOut(level) == ready # level /\ w \in Blocked

-----------------------------------------------------------------------------
\* The task of the lane: run_lane_pipeline.

Active(p, s) == p[s] < Steps[s]

\* RUN: fresh streams, prepare(streams[0]), dispatch.
Run ==
    /\ m = "idle"
    /\ m' = "disp_hi"
    /\ attempt' = 0 /\ inflight' = 0
    /\ pos' = [s \in Streams |-> 0]
    /\ prepared' = [s \in Streams |-> s = 0]
    /\ tx' = Frame(pos', 0)
    /\ outcome' = "none" /\ genuine' = TRUE /\ disturbed' = FALSE
    \* What an earlier run left is of no worth to this one.
    /\ cache' = [s \in Streams |-> {}]
    /\ retry' = Stale(retry) /\ rx' = Stale(rx) /\ wrx' = Stale(wrx) /\ wtx' = Stale(wtx)
    /\ UNCHANGED <<w, ready, damage, misses, resets>>

\* ok = false and a notification; the streams are gone with the controller's.
Fail ==
    /\ m' = "idle"
    /\ outcome' = "error"
    /\ UNCHANGED <<attempt, inflight, pos, prepared, tx, retry, rx, genuine>>

\* Mutant: the retry frame is not copied.
DispatchTransferOnly ==
    /\ m = "disp_hi"
    /\ m' = "disp_lo"
    /\ \E got \in Frames : Transfer(tx, got)
    /\ UNCHANGED <<lane, misses, resets, disturbed>>

\* dispatch keeps a copy of the request it sends.
DispatchTransfer ==
    /\ m = "disp_hi"
    /\ m' = "disp_lo"
    /\ retry' = tx
    /\ \E got \in Frames : Transfer(tx, got)
    /\ UNCHANGED <<attempt, inflight, pos, prepared, tx, rx, outcome, genuine, misses, resets, disturbed>>

DispatchEnd ==
    /\ m = "disp_lo" /\ ready = 0
    /\ m' = "overlap"
    /\ prepared' = [prepared EXCEPT ![inflight] = FALSE]
    /\ UNCHANGED <<attempt, inflight, pos, tx, retry, rx, outcome, genuine, worker, damage, misses, resets, disturbed>>

\* prepare(streams[other]) while the worker computes; then collect begins.
Overlap ==
    /\ m = "overlap"
    /\ m' = "coll_hi"
    /\ attempt' = 0 /\ rx' = Refused
    /\ LET other == 1 - inflight IN
         IF Active(pos, other) /\ ~prepared[other]
           THEN prepared' = [prepared EXCEPT ![other] = TRUE] /\ tx' = Frame(pos, other)
           ELSE UNCHANGED <<prepared, tx>>
    /\ UNCHANGED <<inflight, pos, retry, outcome, genuine, worker, damage, misses, resets, disturbed>>

CollectTransfer ==
    /\ m = "coll_hi"
    /\ m' = "coll_lo"
    /\ \E got \in Frames : Transfer(Refused, got) /\ rx' = got
    /\ UNCHANGED <<attempt, inflight, pos, prepared, tx, retry, outcome, genuine, misses, resets, disturbed>>

\* READY fell in time, and the frame is looked at; or it did not rise or fall,
\* and the attempt counts as one without an answer.
CollectEnd ==
    /\ \/ m = "coll_lo" /\ ready = 0 /\ rx' = rx
       \/ m = "coll_lo" /\ TimedOut(0) /\ rx' = Refused
       \/ m = "coll_hi" /\ TimedOut(1) /\ rx' = Refused
    /\ m' = "check"
    /\ UNCHANGED <<attempt, inflight, pos, prepared, tx, retry, outcome, genuine, worker, damage, misses, resets, disturbed>>

\* Mutant: a NACK passes, whose stream and sequence are copied from the request.
ValidNack(f) == f \in {Refused, Frame(pos, inflight), Stale(Frame(pos, inflight))}

\* Magic, checksum and result, then stream and sequence.
Valid(f) == f.stream = inflight /\ f.pos = pos[inflight]

\* Mutant: the run ends with the stream that was collected last.
NextStreamLast(p) ==
    IF prepared[1 - inflight] THEN {1 - inflight}
    ELSE IF Active(p, inflight) /\ Active(p, 1 - inflight) THEN {inflight} ELSE {}

\* The other stream if its request waits, else this one, else the other.
NextStream(p) ==
    LET other == 1 - inflight IN
    IF prepared[other] THEN {other}
    ELSE IF Active(p, inflight) THEN {inflight} ELSE {s \in {other} : Active(p, s)}

\* Mutants: the last attempt is one too early, or one too late.
LastAttemptLate == attempt = 3
LastAttemptEarly == attempt = 1

LastAttempt == attempt = 2

Retry ==
    /\ m = "check" /\ ~Valid(rx) /\ ~LastAttempt
    /\ m' = "redisp_hi"
    /\ UNCHANGED <<lane, worker, damage, misses, resets, disturbed>>

\* Mutant: the lane asks for one more reply before it gives up.
CollectFailsLate ==
    /\ m = "check" /\ ~Valid(rx) /\ LastAttempt
    /\ outcome' = "error" /\ m' = "idle"
    /\ \E got \in Frames : Transfer(Refused, got)
    /\ UNCHANGED <<attempt, inflight, pos, prepared, tx, retry, rx, genuine, misses, resets, disturbed>>

CollectFails ==
    /\ m = "check" /\ ~Valid(rx) /\ LastAttempt
    /\ Fail
    /\ UNCHANGED <<worker, damage, misses, resets, disturbed>>

Collected ==
    /\ m = "check" /\ Valid(rx)
    /\ genuine' = (genuine /\ rx.good)
    /\ pos' = [pos EXCEPT ![inflight] = @ + 1]
    /\ \/ /\ NextStream(pos') = {}
          /\ m' = "idle" /\ outcome' = "ok"
          /\ UNCHANGED <<inflight, prepared, tx>>
       \/ \E s \in NextStream(pos') :
          /\ m' = "disp_hi" /\ outcome' = outcome
          /\ inflight' = s
          /\ prepared' = [prepared EXCEPT ![s] = TRUE]
          /\ tx' = IF prepared[s] THEN tx ELSE Frame(pos', s)
    /\ UNCHANGED <<attempt, retry, rx, worker, damage, misses, resets, disturbed>>

RedispatchTransfer ==
    /\ m = "redisp_hi"
    /\ m' = "redisp_lo"
    /\ \E got \in Frames : Transfer(retry, got)
    /\ UNCHANGED <<lane, misses, resets, disturbed>>

RedispatchEnd ==
    /\ m = "redisp_lo" /\ ready = 0
    /\ m' = "coll_hi"
    /\ attempt' = attempt + 1 /\ rx' = Refused
    /\ UNCHANGED <<inflight, pos, prepared, tx, retry, outcome, genuine, worker, damage, misses, resets, disturbed>>

\* dispatch or redispatch returns false.
DispatchFails ==
    /\ \/ m \in {"disp_hi", "redisp_hi"} /\ TimedOut(1)
       \/ m \in {"disp_lo", "redisp_lo"} /\ TimedOut(0)
    /\ Fail
    /\ UNCHANGED <<worker, damage, misses, resets, disturbed>>

\* transfer() reports an error of the SPI driver: nothing was clocked.
TransferFails ==
    /\ ready = 1 /\ misses < MaxMisses
    /\ misses' = misses + 1
    /\ \/ m = "coll_hi" /\ m' = "check" /\ rx' = Refused
          /\ UNCHANGED <<attempt, inflight, pos, prepared, tx, retry, outcome, genuine>>
       \/ m \in {"disp_hi", "redisp_hi"} /\ Fail
    /\ UNCHANGED <<worker, damage, resets, disturbed>>

MasterReset ==
    /\ m # "boot" /\ resets < MaxResets
    /\ resets' = resets + 1
    /\ m' = "boot" /\ outcome' = "none"
    /\ UNCHANGED <<attempt, inflight, pos, prepared, tx, retry, rx, genuine, worker, damage, misses, disturbed>>

\* setup() takes seconds: the worker has by then finished what it did.
MasterBoots ==
    /\ m = "boot" /\ w \in Blocked
    /\ m' = "idle"
    /\ UNCHANGED <<lane, worker, damage, misses, resets, disturbed>>

-----------------------------------------------------------------------------
\* The worker: worker_loop.

\* A low phase of READY ends before the polling master has seen it.
Unseen ==
    LET waits == m \in {"disp_lo", "coll_lo", "redisp_lo"} IN
    /\ waits => misses < MaxMisses
    /\ misses' = IF waits THEN misses + 1 ELSE misses

\* After the delay of 50 us, or after booting, the next receive is queued.
Arm ==
    /\ w \in {"boot", "gap"}
    /\ Unseen
    /\ w' = "rx" /\ ready' = 1 /\ wrx' = Refused
    /\ UNCHANGED <<m, lane, wtx, cache, damage, resets, disturbed>>

Received ==
    /\ w = "rx_done"
    /\ w' = "compute" /\ ready' = 0
    /\ UNCHANGED <<m, lane, wrx, wtx, cache, damage, misses, resets, disturbed>>

\* forward_partial writes its key/value entry and reads those before it; a
\* request that fails its tests is answered with a NACK.
Forward ==
    /\ w = "compute"
    /\ IF wrx.stream \in Streams
         THEN /\ cache' = [cache EXCEPT ![wrx.stream] = IF wrx.good THEN @ \cup {wrx.pos} ELSE @ \ {wrx.pos}]
              /\ wtx' = [wrx EXCEPT !.good = (0..wrx.pos) \subseteq cache'[wrx.stream]]
         ELSE wtx' = Refused /\ UNCHANGED cache
    /\ UNCHANGED <<m, lane, wrx, damage, resets, disturbed>>

Compute == Forward /\ Unseen /\ w' = "tx" /\ ready' = 1

\* The reply could not be queued: on to the next receive, READY still low.
ReplyNotQueued ==
    /\ Forward
    /\ misses < MaxMisses
    /\ misses' = misses + 1
    /\ w' = "gap" /\ UNCHANGED ready

Replied ==
    /\ w = "tx_done"
    /\ w' = "gap" /\ ready' = 0
    /\ UNCHANGED <<m, lane, wrx, wtx, cache, damage, misses, resets, disturbed>>

\* init_worker_spi drives READY low; until then the pin floats.
BootReady ==
    /\ w = "boot" /\ ready = 1
    /\ ready' = 0
    /\ UNCHANGED <<m, lane, w, wrx, wtx, cache, damage, misses, resets, disturbed>>

WorkerReset ==
    /\ resets < MaxResets
    /\ resets' = resets + 1
    /\ w' = "boot" /\ ready' \in {0, 1}
    /\ wrx' = Refused /\ wtx' = Refused
    /\ cache' = [s \in Streams |-> {}]
    /\ disturbed' = TRUE
    /\ UNCHANGED <<m, lane, damage, misses>>

LaneStep ==
    \/ DispatchTransfer \/ DispatchEnd \/ Overlap \/ CollectTransfer \/ CollectEnd
    \/ Retry \/ CollectFails \/ Collected \/ RedispatchTransfer \/ RedispatchEnd \/ DispatchFails

WorkerStep == Arm \/ Received \/ Compute \/ ReplyNotQueued \/ Replied

Next ==
    \/ Run \/ LaneStep \/ TransferFails \/ MasterReset \/ MasterBoots
    \/ WorkerStep \/ BootReady \/ WorkerReset

(***************************************************************************)
(* Both boards run their loops, waits time out, and the host asks for runs *)
(* again and again.                                                        *)
(***************************************************************************)
Fairness ==
    /\ WF_vars(Run) /\ WF_vars(LaneStep) /\ WF_vars(MasterBoots) /\ WF_vars(WorkerStep)

Spec == Init /\ [][Next]_vars
FairSpec == Spec /\ Fairness

-----------------------------------------------------------------------------
\* Properties.

(***************************************************************************)
(* "Each lane preserves its in-flight request separately from the next     *)
(* prepared request": whenever collect asks again, the copy it sends is    *)
(* the step it waits for, although tx_frame holds the other stream's by    *)
(* then.                                                                   *)
(***************************************************************************)
RetryIsInFlight ==
    m \in {"coll_hi", "coll_lo", "check", "redisp_hi", "redisp_lo"} => retry = Frame(pos, inflight)

(***************************************************************************)
(* A result that collect() accepts was computed for this run's request,    *)
(* over this run's key/value entries of every earlier position, whatever   *)
(* was damaged, repeated, missed or left over; only a worker that restarts *)
(* in the middle of a run defeats the tests.                               *)
(***************************************************************************)
AcceptedIsGenuine == genuine \/ disturbed

\* A lane that ends well has taken every step of both streams.
ResultIsComplete == outcome = "ok" => \A s \in Streams : pos[s] = Steps[s]

(***************************************************************************)
(* "automatic checksum recovery" (README.md of the package): as long as at *)
(* most two transfers are damaged, requests or replies, and nothing else   *)
(* happens, no run fails.                                                  *)
(***************************************************************************)
DamageIsHealed == damage <= 2 /\ misses = 0 /\ resets = 0 => outcome # "error"

(***************************************************************************)
(* Runs that failed because of damage alone leave the worker waiting for a *)
(* request, so that a later run succeeds.  (One that failed because of a   *)
(* missed pulse, or a reset of the master between a request and its reply, *)
(* does not: the worker answers every transfer out of phase with a NACK,   *)
(* each run ends one transfer out of phase again, and the worker must be   *)
(* reset by hand.)                                                         *)
(***************************************************************************)
RunsSucceed == []<>(outcome = "ok")

(***************************************************************************)
(* Whatever was damaged, missed or reset, and however far out of phase the *)
(* worker is, no run of the lane waits for ever: its task comes to its end *)
(* and notifies the controller, with an error if need be.                  *)
(***************************************************************************)
RunsReturn == m # "idle" ~> m = "idle"
=============================================================================
