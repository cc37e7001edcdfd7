------------------------------ MODULE QuarkPair ------------------------------
(***************************************************************************)
(* The two-board interleaved pipeline of quark_pair_pipeline.ino.  The     *)
(* master runs layers 0-1 of two independent token streams, the worker     *)
(* layers 2-3; one SPI link carries a request and then a reply, and the    *)
(* worker's READY line tells the master when a slave transaction is        *)
(* queued.  The master polls for level 1 before it clocks a transfer and   *)
(* for level 0 after it, and gives up after a timeout.                     *)
(*                                                                         *)
(* Modelled: every poll as a step of its own, READY pulses that end before *)
(* the master looks, timeouts, aborted runs, resets of either board, and   *)
(* the worker's key/value caches, which survive an aborted run.            *)
(***************************************************************************)
EXTENDS Naturals

CONSTANTS
    Steps,      \* total_steps of each stream (13 + 24 - 1 for both)
    MaxGlitches,\* bound: READY pulses the master misses, driver calls that fail
    MaxResets   \* bound: resets of the boards

Streams == {0, 1}

ASSUME StepsAssumption ==
    /\ Steps \in [Streams -> Nat]
    /\ \A s \in Streams : Steps[s] >= 1
    /\ MaxGlitches \in Nat
    /\ MaxResets \in Nat

VARIABLES
    m,          \* where the master stands in run_pipeline
    inflight,   \* the stream whose request was dispatched last
    pos,        \* StreamState.pos
    prepared,   \* StreamState.prepared
    tx,         \* *tx_frame
    rx,         \* *rx_frame
    outcome,    \* how the last RUN ended
    w,          \* where the worker stands in worker_loop
    wrx,        \* *worker_rx
    wtx,        \* *worker_tx
    ready,      \* the level of the READY line
    cache,      \* per stream, the positions whose worker key/value entries
                \* were computed in the current run since the worker started
    glitches, resets,
    disturbed,  \* the worker was reset since the current run began
    genuine     \* every result accepted in the current run was computed from
                \* this run's request and this run's whole prefix

master == <<m, inflight, pos, prepared, tx, rx, outcome, genuine>>
worker == <<w, wrx, wtx, ready, cache>>
bounds == <<glitches, resets, disturbed>>
vars == <<master, worker, bounds>>

(***************************************************************************)
(* A frame is reduced to the fields that are compared: stream and position *)
(* (sequence is position + 1).  good records what the numbers in it are    *)
(* worth: they belong to the current run and, in a reply, were computed    *)
(* over a complete prefix.  NoFrame is anything that fails the magic test. *)
(***************************************************************************)
NoFrame == [stream |-> 2, pos |-> 0, good |-> FALSE]

Positions == 0..(IF Steps[0] > Steps[1] THEN Steps[0] ELSE Steps[1])

Frames == [stream: 0..2, pos: Positions, good: BOOLEAN]

TypeOK ==
    /\ m \in {"boot", "idle", "disp_hi", "disp_lo", "overlap", "coll_hi", "coll_lo"}
    /\ inflight \in Streams
    /\ pos \in [Streams -> Positions]
    /\ prepared \in [Streams -> BOOLEAN]
    /\ tx \in Frames /\ rx \in Frames
    /\ outcome \in {"none", "ok", "error"}
    /\ w \in {"boot", "arm", "rx", "rx_done", "compute", "tx", "tx_done", "gap"}
    /\ wrx \in Frames /\ wtx \in Frames
    /\ ready \in {0, 1}
    /\ cache \in [Streams -> SUBSET Positions]
    /\ glitches \in 0..MaxGlitches
    /\ resets \in 0..MaxResets
    /\ disturbed \in BOOLEAN /\ genuine \in BOOLEAN

Init ==
    /\ m = "idle" /\ inflight = 0
    /\ pos = [s \in Streams |-> 0]
    /\ prepared = [s \in Streams |-> FALSE]
    /\ tx = NoFrame /\ rx = NoFrame
    /\ outcome = "none"
    /\ w = "boot" /\ wrx = NoFrame /\ wtx = NoFrame
    /\ ready = 0
    /\ cache = [s \in Streams |-> {}]
    /\ glitches = 0 /\ resets = 0
    /\ disturbed = FALSE /\ genuine = TRUE

-----------------------------------------------------------------------------
\* The link: one transfer clocked by the master, if it saw READY high.

Stale(f) == [f EXCEPT !.good = FALSE]

(***************************************************************************)
(* The master shifts out f.  A worker with a queued receive gets f; one    *)
(* with a queued reply sends that; without a queued transaction the clocks *)
(* are lost.  got is what the master's receive buffer holds afterwards.    *)
(***************************************************************************)
Transfer(f, got) ==
    /\ ready = 1
    /\ CASE w = "rx" -> /\ w' = "rx_done" /\ wrx' = f /\ got = NoFrame
         [] w = "tx" -> /\ w' = "tx_done" /\ wrx' = wrx /\ got = wtx
         [] OTHER    -> /\ w' = w /\ wrx' = wrx /\ got = NoFrame
    /\ UNCHANGED <<wtx, ready, cache>>

\* The worker waits for the master, or is still booting.  Every other worker
\* step takes micro- or milliseconds, the master's timeouts are 2 s and 5 s.
Blocked == {"rx", "tx", "boot"}

\* wait_ready(level) ran into its timeout.
TimedOut(level) == ready # level /\ w \in Blocked

-----------------------------------------------------------------------------
\* The master.

\* Mutant: one step too many.
ActiveInclusive(p, s) == p[s] <= Steps[s]

Active(p, s) == p[s] < Steps[s]

Frame(p, s) == [stream |-> s, pos |-> p[s], good |-> TRUE]

\* RUN: fresh stream states, prepare(streams[0]), then dispatch.
Run ==
    /\ m = "idle"
    /\ m' = "disp_hi"
    /\ inflight' = 0
    /\ pos' = [s \in Streams |-> 0]
    /\ prepared' = [s \in Streams |-> s = 0]
    /\ tx' = Frame(pos', 0)
    /\ outcome' = "none"
    /\ genuine' = TRUE
    /\ disturbed' = FALSE
    \* What is left of an earlier run is of no worth to this one.
    /\ cache' = [s \in Streams |-> {}]
    /\ wrx' = Stale(wrx) /\ wtx' = Stale(wtx) /\ rx' = Stale(rx)
    /\ UNCHANGED <<w, ready, glitches, resets>>

\* run_pipeline returns early; the stream states are gone with its frame.
Abort ==
    /\ m' = "idle"
    /\ outcome' = "error"
    /\ UNCHANGED <<inflight, pos, prepared, tx, rx, genuine>>

DispatchTransfer ==
    /\ m = "disp_hi"
    /\ \E got \in Frames : Transfer(tx, got)
    /\ m' = "disp_lo"
    /\ UNCHANGED <<inflight, pos, prepared, tx, rx, outcome, genuine, bounds>>

\* Mutant: dispatch() does not reset `prepared`.
DispatchEndKeeps ==
    /\ m = "disp_lo" /\ ready = 0
    /\ m' = "overlap"
    /\ UNCHANGED <<inflight, pos, prepared, tx, rx, outcome, genuine, worker, bounds>>

\* dispatch() saw READY fall.
DispatchEnd ==
    /\ m = "disp_lo" /\ ready = 0
    /\ m' = "overlap"
    /\ prepared' = [prepared EXCEPT ![inflight] = FALSE]
    /\ UNCHANGED <<inflight, pos, tx, rx, outcome, genuine, worker, bounds>>

\* prepare(streams[other]) while the worker computes.
Overlap ==
    /\ m = "overlap"
    /\ LET other == 1 - inflight IN
         IF Active(pos, other) /\ ~prepared[other]
           THEN /\ prepared' = [prepared EXCEPT ![other] = TRUE]
                /\ tx' = Frame(pos, other)
           ELSE UNCHANGED <<prepared, tx>>
    /\ m' = "coll_hi"
    /\ rx' = NoFrame
    /\ UNCHANGED <<inflight, pos, outcome, genuine, worker, bounds>>

CollectTransfer ==
    /\ m = "coll_hi"
    /\ \E got \in Frames : Transfer(NoFrame, got) /\ rx' = got
    /\ m' = "coll_lo"
    /\ UNCHANGED <<inflight, pos, prepared, tx, outcome, genuine, bounds>>

\* Mutant: collect() compares the stream only, and a frame that was cleared
\* and not received has the number of stream 0.
AcceptsStreamOnly(f) == f.stream = inflight \/ (f = NoFrame /\ inflight = 0)

\* The checks of collect(): magic, stream and sequence.
Accepts(f) == f.stream = inflight /\ f.pos = pos[inflight]

\* Mutant: the run ends with the stream that was collected last.
ScheduleEndsEarly(p) ==
    LET other == 1 - inflight IN
    IF Active(p, inflight) /\ prepared[other]
      THEN /\ inflight' = other
           /\ m' = "disp_hi"
           /\ UNCHANGED <<prepared, tx, outcome>>
      ELSE /\ m' = "idle"
           /\ outcome' = "ok"
           /\ UNCHANGED <<inflight, prepared, tx>>

\* The stream whose frame goes out next, and whether it is prepared now.
Schedule(p) ==
    LET other == 1 - inflight IN
    \/ /\ prepared[other]
       /\ inflight' = other
       /\ m' = "disp_hi"
       /\ UNCHANGED <<prepared, tx, outcome>>
    \/ /\ ~prepared[other]
       /\ \E s \in Streams :
            /\ IF Active(p, inflight) THEN s = inflight ELSE s = other
            /\ Active(p, s)
            /\ inflight' = s
            /\ prepared' = [prepared EXCEPT ![s] = TRUE]
            /\ tx' = Frame(p, s)
       /\ m' = "disp_hi"
       /\ outcome' = outcome
    \/ /\ ~prepared[other]
       /\ ~Active(p, inflight) /\ ~Active(p, other)
       /\ m' = "idle"
       /\ outcome' = "ok"
       /\ UNCHANGED <<inflight, prepared, tx>>

CollectEnd ==
    /\ m = "coll_lo" /\ ready = 0
    /\ IF Accepts(rx)
         THEN /\ pos' = [pos EXCEPT ![inflight] = @ + 1]
              /\ genuine' = (genuine /\ rx.good)
              /\ Schedule(pos')
              /\ rx' = rx
         ELSE Abort
    /\ UNCHANGED <<worker, bounds>>

\* Mutant: only the wait for READY high gives up, the other polls for ever.
TimeoutHighOnly ==
    \/ m \in {"disp_hi", "coll_hi"} /\ TimedOut(1) /\ Abort /\ UNCHANGED <<worker, bounds>>
    \/ m \in {"disp_lo", "coll_lo"} /\ TimedOut(0) /\ UNCHANGED vars

Timeout ==
    /\ \/ m \in {"disp_hi", "coll_hi"} /\ TimedOut(1)
       \/ m \in {"disp_lo", "coll_lo"} /\ TimedOut(0)
    /\ Abort
    /\ UNCHANGED <<worker, bounds>>

\* transfer() reports an error of the SPI driver: nothing was clocked.
TransferFails ==
    /\ m \in {"disp_hi", "coll_hi"} /\ ready = 1
    /\ glitches < MaxGlitches
    /\ glitches' = glitches + 1
    /\ Abort
    /\ UNCHANGED <<worker, resets, disturbed>>

MasterReset ==
    /\ m # "boot"
    /\ resets < MaxResets
    /\ resets' = resets + 1
    /\ m' = "boot"
    /\ outcome' = "none"
    /\ UNCHANGED <<inflight, pos, prepared, tx, rx, genuine, worker, glitches, disturbed>>

\* setup() of the master takes seconds (a delay of 1.5 s and the model), so
\* the worker has by then finished what it was doing.
MasterBoots ==
    /\ m = "boot"
    /\ w \in Blocked
    /\ m' = "idle"
    /\ UNCHANGED <<inflight, pos, prepared, tx, rx, outcome, genuine, worker, bounds>>

-----------------------------------------------------------------------------
\* The worker.

\* A READY low phase ends before the polling master has seen it.
Misses == m \in {"disp_lo", "coll_lo"}

Unseen ==
    /\ Misses => glitches < MaxGlitches
    /\ glitches' = IF Misses THEN glitches + 1 ELSE glitches

\* The receive is queued and transaction_ready raises READY.
Arm ==
    /\ w \in {"arm", "boot"}
    /\ w' = "rx" /\ ready' = 1
    /\ wrx' = NoFrame
    /\ UNCHANGED <<wtx, cache, master, bounds>>

\* An unusable request is dropped without a reply and without the delay.
Received ==
    /\ w = "rx_done"
    /\ ready' = 0
    /\ w' = IF wrx.stream \in Streams THEN "compute" ELSE "arm"
    /\ UNCHANGED <<wrx, wtx, cache, master, bounds>>

\* forward_partial writes its key/value entry and reads those before it.
Forward ==
    /\ w = "compute"
    /\ LET s == wrx.stream
           c == IF wrx.good THEN cache[s] \cup {wrx.pos} ELSE cache[s] \ {wrx.pos}
       IN /\ cache' = [cache EXCEPT ![s] = c]
          /\ wtx' = [wrx EXCEPT !.good = (0..wrx.pos) \subseteq c]
    /\ UNCHANGED <<wrx, master, resets, disturbed>>

Compute ==
    /\ Forward
    /\ Unseen
    /\ w' = "tx" /\ ready' = 1

\* The reply could not be queued: back to the next receive, READY still low.
ReplyNotQueued ==
    /\ Forward
    /\ glitches < MaxGlitches
    /\ glitches' = glitches + 1
    /\ w' = "arm" /\ ready' = ready

Replied ==
    /\ w = "tx_done"
    /\ w' = "gap" /\ ready' = 0
    /\ UNCHANGED <<wrx, wtx, cache, master, bounds>>

\* After the 50 us delay the next receive is queued.
GapEnds ==
    /\ w = "gap"
    /\ Unseen
    /\ w' = "rx" /\ ready' = 1
    /\ wrx' = NoFrame
    /\ UNCHANGED <<wtx, cache, master, resets, disturbed>>

WorkerReset ==
    /\ resets < MaxResets
    /\ resets' = resets + 1
    /\ w' = "boot"
    /\ ready' \in {0, 1}     \* the pin floats until init_worker_spi drives it
    /\ wrx' = NoFrame /\ wtx' = NoFrame
    /\ cache' = [s \in Streams |-> {}]
    /\ disturbed' = TRUE
    /\ UNCHANGED <<master, glitches>>

\* init_worker_spi drives READY low.
BootReady ==
    /\ w = "boot" /\ ready = 1
    /\ ready' = 0
    /\ UNCHANGED <<w, wrx, wtx, cache, master, bounds>>

WorkerStep == Arm \/ Received \/ Compute \/ ReplyNotQueued \/ Replied \/ GapEnds

MasterStep ==
    DispatchTransfer \/ DispatchEnd \/ Overlap \/ CollectTransfer \/ CollectEnd

Next ==
    \/ Run \/ MasterStep \/ Timeout \/ TransferFails \/ MasterReset \/ MasterBoots
    \/ WorkerStep \/ BootReady \/ WorkerReset

(***************************************************************************)
(* Both boards run their loops, a wait that cannot end times out, and the  *)
(* host keeps asking for runs.                                             *)
(***************************************************************************)
Fairness ==
    /\ WF_vars(Run) /\ WF_vars(MasterBoots) /\ WF_vars(MasterStep) /\ WF_vars(Timeout)
    /\ WF_vars(WorkerStep)

Spec == Init /\ [][Next]_vars

FairSpec == Spec /\ Fairness

-----------------------------------------------------------------------------
\* Properties.

(***************************************************************************)
(* Both streams share the one tx_frame.  A frame that waits for dispatch   *)
(* is never overwritten by the other stream, and is still the right step   *)
(* of its own stream when it goes out.                                     *)
(***************************************************************************)
PreparedFrameIntact ==
    m \notin {"idle", "boot"} =>
        /\ \A s \in Streams : prepared[s] => tx = Frame(pos, s)
        /\ m = "disp_hi" => prepared[inflight]

(***************************************************************************)
(* A result that collect() accepts was computed by the worker for the      *)
(* request of this run, over this run's key/value entries for every        *)
(* earlier position, no matter which runs were aborted before; only a      *)
(* worker that restarts in the middle of the run defeats the checks.       *)
(***************************************************************************)
AcceptedIsGenuine == genuine \/ disturbed

\* A run that reports its result has taken every step of both streams.
ResultIsComplete ==
    outcome = "ok" => \A s \in Streams : pos[s] = Steps[s]

(***************************************************************************)
(* Missed pulses, timeouts and resets of either board can leave the worker *)
(* expecting the other kind of transfer; once they stop, runs succeed      *)
(* again without a reset ("Worker reset/rejoin", README.md).               *)
(***************************************************************************)
RunsRecover == []<>(outcome = "ok")
=============================================================================
