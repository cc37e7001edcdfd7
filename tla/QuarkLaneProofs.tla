--------------------------- MODULE QuarkLaneProofs ---------------------------
(***************************************************************************)
(* One lane of the trio, for streams of every length and any number of     *)
(* damaged transfers, missed pulses and resets of either board; then the   *)
(* controller of its two lanes, for every number of runs and of timeouts.  *)
(***************************************************************************)
EXTENDS MCLanes, FiniteSetTheorems, TLAPS

-----------------------------------------------------------------------------
\* What the lane's task knows at each point of a run: tx_frame holds the step
\* that is prepared, retry_frame the one in flight, and never both the same
\* stream's.

Dispatching == m \in {"disp_hi", "disp_lo", "overlap"}
Collecting == m \in {"coll_hi", "coll_lo", "check", "redisp_hi", "redisp_lo"}

LaneInv ==
    /\ inflight \in Streams
    /\ pos \in [Streams -> Nat]
    /\ prepared \in [Streams -> BOOLEAN]
    /\ Dispatching \/ Collecting => Active(pos, inflight)
    /\ Dispatching => ~prepared[1 - inflight]
    /\ \A s \in Streams : pos[s] <= Steps[s]
    /\ m = "disp_hi" => tx = Frame(pos, inflight)
    /\ m \in {"disp_lo", "overlap"} \/ Collecting => retry = Frame(pos, inflight)
    /\ m = "overlap" \/ Collecting => ~prepared[inflight]
    /\ Collecting /\ prepared[1 - inflight] =>
          tx = Frame(pos, 1 - inflight) /\ Active(pos, 1 - inflight)
    /\ outcome = "ok" => m = "idle" /\ \A s \in Streams : pos[s] = Steps[s]

\* The other of two streams.
LEMMA Others == \A s \in Streams : 1 - s \in Streams /\ 1 - s # s /\ \A r \in Streams : r = s \/ r = 1 - s
BY DEF Streams

\* A step that leaves the task where it is, or among the points of collect.
LEMMA LaneUnchanged ==
    ASSUME LaneInv, UNCHANGED <<inflight, pos, prepared, tx, retry, outcome>>,
           m' = m \/ (Collecting /\ Collecting')
    PROVE  LaneInv'
BY DEF LaneInv, Dispatching, Collecting, Active, Frame

LEMMA RunKeeps ==
    ASSUME LaneInv, Run
    PROVE  LaneInv'
<1>1. /\ m' = "disp_hi" /\ inflight' = 0 /\ outcome' = "none"
      /\ pos' = [s \in Streams |-> 0] /\ prepared' = [s \in Streams |-> s = 0]
      /\ tx' = Frame(pos', 0)
    BY DEF Run
<1>2. 0 \in Streams /\ 1 \in Streams /\ 1 - 0 = 1
    BY DEF Streams
<1>3. Active(pos', 0) /\ \A s \in Streams : pos'[s] <= Steps[s]
    BY <1>1, <1>2, LaneAssumption DEF Active
<1>4. prepared' \in [Streams -> BOOLEAN]
    BY <1>1, Zenon
<1>5. ~prepared'[1]
  <2>1. prepared'[1] = (1 = 0)
      BY <1>1, <1>2, Zenon
  <2>2. ~(1 = 0)
      OBVIOUS
  <2> QED BY <2>1, <2>2
<1> QED BY <1>1, <1>2, <1>3, <1>4, <1>5 DEF LaneInv, Dispatching, Collecting

\* A step ends in the state of a run that has failed or was reset.
LEMMA FailKeeps ==
    ASSUME LaneInv, m' \in {"idle", "boot"}, outcome' \in {"error", "none"},
           UNCHANGED <<inflight, pos, prepared, tx, retry>>
    PROVE  LaneInv'
BY DEF LaneInv, Dispatching, Collecting, Active, Frame

LEMMA DispatchKeeps ==
    ASSUME LaneInv, DispatchTransfer \/ DispatchEnd
    PROVE  LaneInv'
<1>1. CASE DispatchTransfer
    BY <1>1 DEF DispatchTransfer, LaneInv, Dispatching, Collecting, Active, Frame
<1>2. CASE DispatchEnd
  <2>1. /\ m' = "overlap" /\ m = "disp_lo"
        /\ prepared' = [prepared EXCEPT ![inflight] = FALSE]
        /\ UNCHANGED <<inflight, pos, tx, retry, outcome>>
      BY <1>2 DEF DispatchEnd
  <2>2. /\ prepared' \in [Streams -> BOOLEAN]
        /\ ~prepared'[inflight] /\ ~prepared'[1 - inflight]
      BY <2>1, Others DEF LaneInv, Dispatching
  <2> QED BY <2>1, <2>2 DEF LaneInv, Dispatching, Collecting, Active, Frame
<1> QED BY <1>1, <1>2

LEMMA OverlapKeeps ==
    ASSUME LaneInv, Overlap
    PROVE  LaneInv'
<1>1. /\ m = "overlap" /\ m' = "coll_hi"
      /\ UNCHANGED <<inflight, pos, retry, outcome>>
    BY DEF Overlap
<1>2. /\ Active(pos, inflight) /\ retry = Frame(pos, inflight)
      /\ ~prepared[inflight] /\ ~prepared[1 - inflight]
      /\ inflight \in Streams /\ 1 - inflight \in Streams /\ 1 - inflight # inflight
    BY <1>1, Others DEF LaneInv, Dispatching
<1>3. CASE Active(pos, 1 - inflight)
  <2>1. /\ prepared' = [prepared EXCEPT ![1 - inflight] = TRUE]
        /\ tx' = Frame(pos, 1 - inflight)
      BY <1>2, <1>3 DEF Overlap
  <2>2. prepared' \in [Streams -> BOOLEAN] /\ ~prepared'[inflight]
      BY <2>1, <1>2 DEF LaneInv
  <2> QED BY <1>1, <1>2, <1>3, <2>1, <2>2 DEF LaneInv, Dispatching, Collecting, Active, Frame
<1>4. CASE ~Active(pos, 1 - inflight)
  <2>1. UNCHANGED prepared
      BY <1>4 DEF Overlap
  <2> QED BY <1>1, <1>2, <2>1 DEF LaneInv, Dispatching, Collecting, Active, Frame
<1> QED BY <1>3, <1>4

LEMMA CollectedKeeps ==
    ASSUME LaneInv, Collected
    PROVE  LaneInv'
<1>1. m = "check" /\ pos' = [pos EXCEPT ![inflight] = @ + 1]
    BY DEF Collected
<1> DEFINE other == 1 - inflight
<1>2. /\ inflight \in Streams /\ other \in Streams /\ other # inflight
      /\ \A s \in Streams : s = inflight \/ s = other
      /\ Active(pos, inflight) /\ ~prepared[inflight]
    BY <1>1, Others DEF LaneInv, Collecting
<1>3. /\ pos' \in [Streams -> Nat]
      /\ pos'[other] = pos[other] /\ pos'[inflight] = pos[inflight] + 1
      /\ \A s \in Streams : pos'[s] <= Steps[s]
  <2>1. pos \in [Streams -> Nat] /\ \A s \in Streams : pos[s] <= Steps[s] /\ Steps[s] \in Nat
      BY LaneAssumption DEF LaneInv
  <2>2. pos[inflight] + 1 <= Steps[inflight] /\ pos[inflight] + 1 \in Nat
      BY <2>1, <1>2 DEF Active
  <2>3. /\ pos' \in [Streams -> Nat]
        /\ pos'[other] = pos[other] /\ pos'[inflight] = pos[inflight] + 1
      BY <2>1, <2>2, <1>1, <1>2
  <2>4. ASSUME NEW s \in Streams
        PROVE  pos'[s] <= Steps[s]
    <3>1. CASE s = inflight
        BY <3>1, <2>2, <2>3
    <3>2. CASE s = other
        BY <3>2, <2>1, <2>3
    <3> QED BY <3>1, <3>2, <1>2
  <2> QED BY <2>3, <2>4
<1>4. CASE NextStream(pos') = {} /\ m' = "idle" /\ outcome' = "ok" /\ UNCHANGED <<inflight, prepared, tx>>
  <2>1. ~Active(pos', inflight) /\ ~Active(pos', other)
      BY <1>4 DEF NextStream
  <2>2. \A s \in Streams : pos'[s] = Steps[s]
      BY <2>1, <1>2, <1>3, LaneAssumption DEF Active
  <2> QED BY <1>2, <1>3, <1>4, <2>2 DEF LaneInv, Dispatching, Collecting
<1>5. ASSUME NEW s \in NextStream(pos'),
             m' = "disp_hi", outcome' = outcome, inflight' = s,
             prepared' = [prepared EXCEPT ![s] = TRUE],
             tx' = IF prepared[s] THEN tx ELSE Frame(pos', s)
      PROVE  LaneInv'
  <2>1. CASE prepared[other]
    <3>1. s = other
        BY <1>5, <2>1 DEF NextStream
    <3>2. Active(pos', s) /\ tx' = Frame(pos', s)
        BY <3>1, <2>1, <1>1, <1>3, <1>5 DEF LaneInv, Collecting, Active, Frame
    <3>3. 1 - s = inflight
        BY <3>1, <1>2 DEF Streams
    <3> QED BY <3>1, <3>2, <3>3, <1>2, <1>3, <1>5, <1>1 DEF LaneInv, Dispatching, Collecting
  <2>2. CASE ~prepared[other]
    <3>1. s \in Streams /\ Active(pos', s)
        BY <1>2, <1>5, <2>2 DEF NextStream
    <3>2. ~prepared[s] /\ ~prepared[1 - s] /\ 1 - s \in Streams /\ 1 - s # s
        BY <3>1, <2>2, <1>2, Others
    <3>3. prepared' \in [Streams -> BOOLEAN] /\ ~prepared'[1 - s]
        BY <3>1, <3>2, <1>5 DEF LaneInv
    <3> QED BY <3>1, <3>2, <3>3, <1>1, <1>3, <1>5 DEF LaneInv, Dispatching, Collecting
  <2> QED BY <2>1, <2>2
<1> QED BY <1>4, <1>5 DEF Collected

LEMMA LaneInvKept ==
    ASSUME LaneInv, [Next]_vars
    PROVE  LaneInv'
<1>1. CASE Run
    BY <1>1, RunKeeps
<1>2. CASE DispatchTransfer \/ DispatchEnd
    BY <1>2, DispatchKeeps
<1>3. CASE Overlap
    BY <1>3, OverlapKeeps
<1>4. CASE CollectTransfer \/ CollectEnd \/ Retry \/ RedispatchTransfer \/ RedispatchEnd
    BY <1>4, LaneUnchanged
       DEF CollectTransfer, CollectEnd, Retry, RedispatchTransfer, RedispatchEnd, lane, Collecting
<1>5. CASE Collected
    BY <1>5, CollectedKeeps
<1>6. CASE CollectFails \/ DispatchFails \/ MasterReset
    BY <1>6, FailKeeps DEF CollectFails, DispatchFails, Fail, MasterReset
<1>7. CASE MasterBoots
    BY <1>7 DEF MasterBoots, lane, LaneInv, Dispatching, Collecting, Active, Frame
<1>8. CASE WorkerStep \/ BootReady \/ WorkerReset \/ UNCHANGED vars
    BY <1>8, LaneUnchanged DEF WorkerStep, Arm, Received, Forward, Compute, ReplyNotQueued, Replied,
           BootReady, WorkerReset, vars, lane
<1>9. CASE TransferFails
    BY <1>9, LaneUnchanged, FailKeeps DEF TransferFails, Fail, Collecting
<1> QED BY <1>1, <1>2, <1>3, <1>4, <1>5, <1>6, <1>7, <1>8, <1>9 DEF Next, LaneStep

LEMMA LaneInvStarts ==
    ASSUME Init
    PROVE  LaneInv
<1>1. /\ m = "idle" /\ inflight = 0 /\ outcome = "none"
      /\ pos = [s \in Streams |-> 0] /\ prepared = [s \in Streams |-> FALSE]
    BY DEF Init
<1> QED BY <1>1, LaneAssumption DEF LaneInv, Dispatching, Collecting, Streams

LEMMA LaneInvariant == Spec => []LaneInv
<1>1. Init => LaneInv
    BY LaneInvStarts
<1>2. LaneInv /\ [Next]_vars => LaneInv'
    BY LaneInvKept
<1> QED BY <1>1, <1>2, PTL DEF Spec

(***************************************************************************)
(* The copy that collect() sends again is that of the step it waits for.   *)
(***************************************************************************)
THEOREM RetryResendsInFlight == Spec => []RetryIsInFlight
<1>1. LaneInv => RetryIsInFlight
    BY DEF LaneInv, RetryIsInFlight, Collecting
<1> QED BY <1>1, LaneInvariant, PTL

(***************************************************************************)
(* A lane that ends well has taken every step of both streams, for streams *)
(* of every two lengths.                                                   *)
(***************************************************************************)
THEOREM OkIsComplete == Spec => []ResultIsComplete
<1>1. LaneInv => ResultIsComplete
    BY DEF LaneInv, ResultIsComplete
<1> QED BY <1>1, LaneInvariant, PTL

-----------------------------------------------------------------------------
\* The types, and the level of READY: it is high while the worker waits for
\* the master, and a transfer that it has not yet acknowledged leaves the
\* master where it waits for that.

LinkInv ==
    /\ w \in {"rx_done", "tx_done"} => ready = 1 /\ m \in {"disp_lo", "coll_lo", "redisp_lo", "boot"}
    /\ w \in {"rx", "tx"} => ready = 1
    /\ w \in {"compute", "gap"} => ready = 0
    /\ m \in {"redisp_hi", "redisp_lo"} => attempt < 2

LEMMA PositionsHold ==
    /\ 0 \in Positions
    /\ \A s \in Streams : \A k \in Nat : k <= Steps[s] => k \in Positions
<1>1. Steps[0] \in Nat /\ Steps[1] \in Nat
    BY LaneAssumption DEF Streams
<1> QED BY <1>1 DEF Positions, Streams

LEMMA FrameTypes ==
    /\ Refused \in Frames
    /\ \A p \in [Streams -> Positions], s \in Streams : Frame(p, s) \in Frames
    /\ \A f \in Frames : Stale(f) \in Frames
<1>1. Refused \in Frames
    BY PositionsHold DEF Frames, Refused
<1>2. ASSUME NEW p \in [Streams -> Positions], NEW s \in Streams
      PROVE  Frame(p, s) \in Frames
  <2>1. s \in 0..2 /\ p[s] \in Positions
      BY DEF Streams
  <2> QED BY <2>1 DEF Frames, Frame
<1>3. ASSUME NEW f \in Frames
      PROVE  Stale(f) \in Frames
    BY DEF Frames, Stale
<1> QED BY <1>1, <1>2, <1>3

LEMMA TransferTypes ==
    ASSUME TypeOK, NEW sent \in Frames, NEW got, Transfer(sent, got)
    PROVE  /\ w' \in {"boot", "rx", "rx_done", "compute", "tx", "tx_done", "gap"}
           /\ wrx' \in Frames /\ wtx' \in Frames /\ damage' \in 0..MaxDamage /\ got \in Frames
           /\ ready' = ready /\ cache' = cache
<1>1. \A f : Arrives(f, sent) \/ Arrives(f, wtx) => f \in Frames /\ damage' \in 0..MaxDamage
    BY FrameTypes, LaneAssumption DEF Arrives, TypeOK
<1> QED BY <1>1, FrameTypes DEF Transfer, TypeOK

LEMMA RunTypes ==
    ASSUME TypeOK, Run
    PROVE  TypeOK'
<1>1. /\ pos' = [s \in Streams |-> 0] /\ prepared' = [s \in Streams |-> s = 0]
      /\ cache' = [s \in Streams |-> {}] /\ tx' = Frame(pos', 0)
      /\ retry' = Stale(retry) /\ rx' = Stale(rx) /\ wrx' = Stale(wrx) /\ wtx' = Stale(wtx)
    BY DEF Run
<1>2. pos' \in [Streams -> Positions] /\ cache' \in [Streams -> SUBSET Positions]
    BY <1>1, PositionsHold
<1>3. prepared' \in [Streams -> BOOLEAN]
    BY <1>1, Zenon
<1>4. tx' \in Frames /\ retry' \in Frames /\ rx' \in Frames /\ wrx' \in Frames /\ wtx' \in Frames
    BY <1>1, <1>2, FrameTypes DEF TypeOK, Streams
<1>5. {tx', retry', rx', wrx', wtx'} \subseteq Frames
    BY <1>4
<1>6. /\ m' = "disp_hi" /\ attempt' = 0 /\ inflight' = 0 /\ 0 \in Streams /\ outcome' = "none"
      /\ genuine' = TRUE /\ disturbed' = FALSE /\ UNCHANGED <<w, ready, damage, misses, resets>>
    BY DEF Run, Streams
<1>7. /\ w \in {"boot", "rx", "rx_done", "compute", "tx", "tx_done", "gap"} /\ ready \in {0, 1}
      /\ damage \in 0..MaxDamage /\ misses \in 0..MaxMisses /\ resets \in 0..MaxResets
    BY DEF TypeOK
<1>8. disturbed' \in BOOLEAN /\ genuine' \in BOOLEAN
    BY <1>6, Zenon
<1> QED BY <1>2, <1>3, <1>5, <1>6, <1>7, <1>8 DEF TypeOK

LEMMA TransferStepTypes ==
    ASSUME TypeOK, DispatchTransfer \/ RedispatchTransfer \/ CollectTransfer
    PROVE  TypeOK'
<1>1. CASE DispatchTransfer
  <2>1. PICK got \in Frames : Transfer(tx, got)
      BY <1>1 DEF DispatchTransfer
  <2>2. tx \in Frames
      BY DEF TypeOK
  <2> QED BY <1>1, <2>1, <2>2, TransferTypes DEF DispatchTransfer, TypeOK
<1>2. CASE RedispatchTransfer
  <2>1. PICK got \in Frames : Transfer(retry, got)
      BY <1>2 DEF RedispatchTransfer
  <2>2. retry \in Frames
      BY DEF TypeOK
  <2> QED BY <1>2, <2>1, <2>2, TransferTypes DEF RedispatchTransfer, TypeOK, lane
<1>3. CASE CollectTransfer
  <2>1. PICK got \in Frames : Transfer(Refused, got) /\ rx' = got
      BY <1>3 DEF CollectTransfer
  <2> QED BY <1>3, <2>1, FrameTypes, TransferTypes DEF CollectTransfer, TypeOK
<1> QED BY <1>1, <1>2, <1>3

LEMMA LaneStepTypes ==
    ASSUME TypeOK, LaneInv, LaneInv', LinkInv, LaneStep
    PROVE  TypeOK'
<1>1. inflight \in Streams /\ inflight' \in Streams /\ prepared' \in [Streams -> BOOLEAN]
    BY DEF LaneInv
<1>2. pos' \in [Streams -> Positions]
    BY PositionsHold DEF LaneInv
<1>3. CASE DispatchTransfer \/ RedispatchTransfer \/ CollectTransfer
    BY <1>3, TransferStepTypes
<1>4. CASE DispatchEnd \/ CollectEnd \/ Retry \/ RedispatchEnd \/ CollectFails \/ DispatchFails
    BY <1>1, <1>2, <1>4, FrameTypes DEF DispatchEnd, CollectEnd, Retry, RedispatchEnd, CollectFails,
           DispatchFails, Fail, worker, lane, TypeOK, LinkInv
<1>5. CASE Overlap
  <2>1. tx' \in Frames
    <3>1. 1 - inflight \in Streams
        BY <1>1, Others
    <3>2. pos \in [Streams -> Positions] /\ tx \in Frames
        BY DEF TypeOK
    <3>3. Frame(pos, 1 - inflight) \in Frames
        BY <3>1, <3>2, FrameTypes
    <3> QED BY <1>5, <3>2, <3>3 DEF Overlap
  <2> QED BY <1>1, <1>2, <1>5, <2>1, FrameTypes DEF Overlap, worker, TypeOK
<1>6. CASE Collected
  <2>1. tx' \in Frames
    <3>1. \A s \in NextStream(pos') : s \in Streams
        BY <1>1, Others DEF NextStream
    <3>2. \A s \in Streams : Frame(pos', s) \in Frames
        BY <1>2, FrameTypes
    <3>3. tx \in Frames
        BY DEF TypeOK
    <3>4. tx' = tx \/ \E s \in NextStream(pos') : tx' = IF prepared[s] THEN tx ELSE Frame(pos', s)
        BY <1>6 DEF Collected
    <3> QED BY <3>1, <3>2, <3>3, <3>4
  <2>2. genuine' \in BOOLEAN /\ outcome' \in {"none", "ok", "error"} /\ m' \in {"idle", "disp_hi"}
      BY <1>6 DEF Collected, TypeOK
  <2> QED BY <1>1, <1>2, <1>6, <2>1, <2>2 DEF Collected, worker, TypeOK
<1> QED BY <1>3, <1>4, <1>5, <1>6 DEF LaneStep

LEMMA OtherStepTypes ==
    ASSUME TypeOK, TransferFails \/ MasterReset \/ MasterBoots \/ WorkerStep \/ BootReady \/ WorkerReset
    PROVE  TypeOK'
<1>1. CASE MasterReset \/ MasterBoots \/ BootReady
    BY <1>1, LaneAssumption DEF MasterReset, MasterBoots, BootReady, worker, lane, TypeOK
<1>2. CASE Arm \/ Received \/ Replied
    BY <1>2, FrameTypes, LaneAssumption DEF Arm, Received, Replied, Unseen, lane, TypeOK
<1>3. CASE WorkerReset
    BY <1>3, FrameTypes, LaneAssumption DEF WorkerReset, lane, TypeOK
<1>4. CASE Compute \/ ReplyNotQueued
  <2>1. misses' \in 0..MaxMisses /\ w' \in {"tx", "gap"} /\ ready' \in {0, 1} /\ Forward
      BY <1>4, LaneAssumption DEF Compute, ReplyNotQueued, Unseen, TypeOK
  <2>2. wrx \in Frames /\ cache \in [Streams -> SUBSET Positions]
      BY DEF TypeOK
  <2>3. cache' \in [Streams -> SUBSET Positions] /\ wtx' \in Frames
    <3>1. CASE wrx.stream \in Streams
      <4>1. cache' = [cache EXCEPT ![wrx.stream] = IF wrx.good THEN @ \cup {wrx.pos} ELSE @ \ {wrx.pos}]
          BY <2>1, <3>1 DEF Forward
      <4>2. PICK b \in BOOLEAN : wtx' = [wrx EXCEPT !.good = b]
          BY <2>1, <3>1 DEF Forward
      <4>3. wrx.pos \in Positions
          BY <2>2 DEF Frames
      <4> QED BY <2>2, <4>1, <4>2, <4>3 DEF Frames
    <3>2. CASE wrx.stream \notin Streams
        BY <2>1, <2>2, <3>2, FrameTypes DEF Forward
    <3> QED BY <3>1, <3>2
  <2> QED BY <2>1, <2>3 DEF Forward, lane, TypeOK
<1>5. CASE TransferFails
    BY <1>5, FrameTypes, LaneAssumption DEF TransferFails, Fail, worker, TypeOK
<1> QED BY <1>1, <1>2, <1>3, <1>4, <1>5 DEF WorkerStep

LEMMA LinkStep ==
    ASSUME TypeOK, LinkInv, [Next]_vars
    PROVE  LinkInv'
<1> USE DEF LinkInv
<1>1. CASE Run
    BY <1>1 DEF Run
<1>2. CASE DispatchTransfer \/ RedispatchTransfer \/ CollectTransfer
    BY <1>2 DEF DispatchTransfer, RedispatchTransfer, CollectTransfer, Transfer, lane
<1>3. CASE DispatchEnd \/ CollectEnd \/ RedispatchEnd \/ Overlap
    BY <1>3 DEF DispatchEnd, CollectEnd, RedispatchEnd, Overlap, TimedOut, Blocked, worker
<1>4. CASE Retry \/ CollectFails \/ Collected \/ DispatchFails
    BY <1>4 DEF Retry, CollectFails, Collected, DispatchFails, Fail, LastAttempt, TimedOut, Blocked,
           worker, lane, TypeOK
<1>5. CASE MasterReset \/ MasterBoots
    BY <1>5 DEF MasterReset, MasterBoots, Blocked, worker, lane
<1>6. CASE WorkerStep \/ BootReady \/ WorkerReset
    BY <1>6 DEF WorkerStep, Arm, Received, Forward, Compute, ReplyNotQueued, Replied, BootReady,
           WorkerReset, lane
<1>7. CASE UNCHANGED vars
    BY <1>7 DEF vars, lane, worker
<1>8. CASE TransferFails
    BY <1>8 DEF TransferFails, Fail, worker
<1> QED BY <1>1, <1>2, <1>3, <1>4, <1>5, <1>6, <1>7, <1>8 DEF Next, LaneStep

-----------------------------------------------------------------------------
\* What the frames are worth in a run whose worker was not reset: a request
\* that arrives is the run's, a reply was computed over everything before it,
\* and what is left over from an earlier run goes to the first dispatch, which
\* throws away what it reads.

Begins == m \in {"idle", "boot", "disp_hi"}

Current(f) == f.stream = 2 \/ (f.stream \in Streams /\ f.good /\ f.pos <= pos[f.stream])

Computed(f) ==
    f.stream = 2 \/ (f.stream \in Streams /\ f.good /\ \A k \in 0..f.pos : k \in cache[f.stream])

GenuineInv ==
    /\ genuine
    /\ \A s \in Streams : \A k \in 0..(pos[s] - 1) : k \in cache[s]
    /\ w \in {"rx_done", "compute"} =>
          Current(wrx) \/ (w = "compute" /\ Begins /\ \A s \in Streams : pos[s] = 0)
    /\ w = "tx" /\ ~Begins => Computed(wtx)
    /\ Collecting => Computed(rx)

GenuineFacts == disturbed \/ GenuineInv

LEMMA RunGenuine ==
    ASSUME TypeOK, LinkInv, Run
    PROVE  GenuineInv'
<1>1. /\ m = "idle" /\ m' = "disp_hi" /\ genuine' = TRUE /\ pos' = [s \in Streams |-> 0] /\ UNCHANGED w
    BY DEF Run
<1>2. \A s \in Streams : pos'[s] = 0
    BY <1>1
<1>3. w' # "rx_done"
    BY <1>1 DEF LinkInv
<1> QED BY <1>1, <1>2, <1>3 DEF GenuineInv, Begins, Collecting

LEMMA TransferGenuine ==
    ASSUME TypeOK, LinkInv, GenuineInv, NEW sent \in Frames, Current(sent), NEW got, Transfer(sent, got)
    PROVE  /\ w' \in {"rx_done", "compute"} => Current(wrx') \/ w' = "compute"
           /\ w' # "tx" /\ w' # "compute"
           /\ ~Begins => Computed(got)
<1>1. \A f : Arrives(f, sent) => Current(f)
    BY DEF Arrives, Current, Refused
<1>2. \A f : Computed(wtx) /\ Arrives(f, wtx) => Computed(f)
    BY DEF Arrives, Computed, Refused
<1>3. Computed(Refused)
    BY DEF Computed, Refused
<1> QED BY <1>1, <1>2, <1>3 DEF Transfer, GenuineInv, LinkInv

LEMMA TransferStepGenuine ==
    ASSUME TypeOK, LaneInv, LinkInv, GenuineInv, DispatchTransfer \/ RedispatchTransfer \/ CollectTransfer
    PROVE  GenuineInv'
<1>1. pos[inflight] \in Nat /\ inflight \in Streams
    BY DEF LaneInv
<1>2. Current(Frame(pos, inflight)) /\ Current(Refused)
    BY <1>1 DEF Current, Frame, Refused
<1>3. \E sent \in Frames, got \in Frames :
         Current(sent) /\ Transfer(sent, got) /\ (CollectTransfer => rx' = got)
  <2>1. CASE DispatchTransfer
    <3>1. tx = Frame(pos, inflight) /\ tx \in Frames /\ ~CollectTransfer
        BY <2>1 DEF DispatchTransfer, LaneInv, TypeOK, CollectTransfer
    <3> QED BY <1>2, <2>1, <3>1 DEF DispatchTransfer
  <2>2. CASE RedispatchTransfer
    <3>1. retry = Frame(pos, inflight) /\ retry \in Frames /\ ~CollectTransfer
        BY <2>2 DEF RedispatchTransfer, LaneInv, TypeOK, CollectTransfer, Collecting
    <3> QED BY <1>2, <2>2, <3>1 DEF RedispatchTransfer
  <2>3. CASE CollectTransfer
      BY <1>2, <2>3, FrameTypes DEF CollectTransfer
  <2> QED BY <2>1, <2>2, <2>3
<1>4. PICK sent \in Frames, got \in Frames :
         Current(sent) /\ Transfer(sent, got) /\ (CollectTransfer => rx' = got)
    BY <1>3
<1>5. /\ w' \in {"rx_done", "compute"} => Current(wrx') \/ w' = "compute"
      /\ w' # "tx" /\ w' # "compute" /\ (~Begins => Computed(got))
    BY <1>4, TransferGenuine
<1>6. UNCHANGED <<pos, genuine, cache>>
    BY <1>4 DEF DispatchTransfer, RedispatchTransfer, CollectTransfer, lane, Transfer
<1>7. Current(wrx') => Current(wrx)'
    BY <1>6 DEF Current
<1>8. Collecting' => Computed(rx')
  <2>1. CASE CollectTransfer
    <3>1. ~Begins /\ rx' = got
        BY <1>4, <2>1 DEF CollectTransfer, Begins
    <3> QED BY <1>5, <3>1
  <2>2. CASE RedispatchTransfer
    <3>1. Collecting /\ rx' = rx
        BY <2>2 DEF RedispatchTransfer, lane, Collecting
    <3> QED BY <3>1 DEF GenuineInv
  <2>3. CASE DispatchTransfer
      BY <2>3 DEF DispatchTransfer, Collecting
  <2> QED BY <2>1, <2>2, <2>3
<1>9. Computed(rx') => Computed(rx)'
    BY <1>6 DEF Computed
<1> QED BY <1>5, <1>6, <1>7, <1>8, <1>9 DEF GenuineInv

\* A step that touches neither the worker nor what has been accepted.
LEMMA LaneOnlyGenuine ==
    ASSUME GenuineInv, UNCHANGED <<pos, genuine, w, wrx, wtx, cache>>, Begins => Begins',
           Collecting' => rx' = Refused \/ (rx' = rx /\ Collecting)
    PROVE  GenuineInv'
<1>1. Computed(Refused)
    BY DEF Computed, Refused
<1>2. Collecting' => Computed(rx')
    BY <1>1 DEF GenuineInv
<1> QED
    BY <1>2 DEF GenuineInv, Current, Computed

LEMMA CollectedGenuine ==
    ASSUME TypeOK, LaneInv, GenuineInv, Collected
    PROVE  GenuineInv'
<1>1. /\ m = "check" /\ Valid(rx) /\ pos' = [pos EXCEPT ![inflight] = @ + 1] /\ genuine' = (genuine /\ rx.good)
      /\ UNCHANGED <<w, wrx, wtx, ready, cache>> /\ m' \in {"idle", "disp_hi"}
    BY DEF Collected, worker
<1>2. Computed(rx) /\ inflight \in Streams /\ pos \in [Streams -> Nat] /\ 2 \notin Streams
    BY <1>1 DEF GenuineInv, LaneInv, Collecting, Streams
<1>3. rx.good /\ \A k \in 0..pos[inflight] : k \in cache[inflight]
    BY <1>1, <1>2 DEF Computed, Valid
<1>4. \A s \in Streams : pos'[s] \in Nat /\ pos'[s] >= pos[s] /\ (s # inflight => pos'[s] = pos[s])
    BY <1>1, <1>2
<1>5. \A s \in Streams : \A k \in 0..(pos'[s] - 1) : k \in cache'[s]
  <2>1. ASSUME NEW s \in Streams, NEW k \in 0..(pos'[s] - 1)
        PROVE  k \in cache[s]
    <3>1. CASE s = inflight
        BY <1>1, <1>2, <1>3, <2>1, <3>1
    <3>2. CASE s # inflight
        BY <1>2, <1>4, <2>1, <3>2 DEF GenuineInv
    <3> QED BY <3>1, <3>2
  <2> QED BY <1>1, <2>1
<1>6. w' \in {"rx_done", "compute"} => Current(wrx)'
  <2>1. w \in {"rx_done", "compute"} => Current(wrx)
      BY <1>1 DEF GenuineInv, Begins
  <2>2. wrx.pos \in Nat
      BY PositionsHold, LaneAssumption DEF TypeOK, Frames, Positions, Streams
  <2>3. Current(wrx) => Current(wrx)'
    <3> SUFFICES ASSUME wrx.stream \in Streams, wrx.good, wrx.pos <= pos[wrx.stream]
                 PROVE  wrx.pos <= pos'[wrx.stream]
        BY <1>1 DEF Current
    <3>1. pos'[wrx.stream] \in Nat /\ pos'[wrx.stream] >= pos[wrx.stream] /\ pos[wrx.stream] \in Nat
        BY <1>2, <1>4
    <3> QED BY <2>2, <3>1
  <2> QED BY <1>1, <2>1, <2>3
<1> QED BY <1>1, <1>3, <1>5, <1>6 DEF GenuineInv, Begins, Collecting

LEMMA ComputeGenuine ==
    ASSUME TypeOK, LaneInv, LinkInv, GenuineInv, Compute \/ ReplyNotQueued
    PROVE  GenuineInv'
<1>0. Forward
    BY DEF Compute, ReplyNotQueued
<1>1. /\ w = "compute" /\ w' \in {"tx", "gap"} /\ UNCHANGED <<m, pos, genuine, rx, wrx>>
      /\ wrx \in Frames /\ cache \in [Streams -> SUBSET Positions] /\ pos \in [Streams -> Nat]
    BY <1>0 DEF Forward, Compute, ReplyNotQueued, lane, TypeOK, LaneInv
<1>2. CASE wrx.stream \notin Streams
  <2>1. wtx' = Refused /\ cache' = cache
      BY <1>0, <1>2 DEF Forward
  <2>2. Computed(wtx)' /\ (Computed(rx) => Computed(rx)')
      BY <1>1, <2>1 DEF Computed, Refused
  <2> QED BY <1>1, <2>1, <2>2 DEF GenuineInv, Begins, Collecting
<1>3. CASE wrx.stream \in Streams /\ wrx.good /\ wrx.pos <= pos[wrx.stream]
  <2> DEFINE s == wrx.stream
             p == wrx.pos
  <2>1. /\ s \in Streams /\ cache' = [cache EXCEPT ![s] = cache[s] \cup {p}]
        /\ wtx' = [wrx EXCEPT !.good = (0..p) \subseteq cache'[s]]
      BY <1>0, <1>3 DEF Forward
  <2>2. p \in Nat /\ p <= pos[s] /\ pos[s] \in Nat
      BY <1>1, <1>3, LaneAssumption DEF Frames, Positions, Streams
  <2>3. \A r \in Streams : \A k : k \in cache[r] => k \in cache'[r]
      BY <1>1, <2>1
  <2>4. \A k \in 0..p : k \in cache'[s]
    <3>1. p \in cache'[s]
        BY <1>1, <2>1
    <3>2. \A k \in 0..(pos[s] - 1) : k \in cache[s]
        BY <2>1 DEF GenuineInv
    <3>3. \A k \in 0..p : k = p \/ k \in 0..(pos[s] - 1)
        BY <2>2
    <3> QED BY <2>1, <2>3, <3>1, <3>2, <3>3
  <2>5. wtx'.stream = s /\ wtx'.pos = p /\ wtx'.good
    <3> DEFINE b == (0..p) \subseteq cache'[s]
    <3>1. b = TRUE
        BY <2>4
    <3>2. wtx' = [wrx EXCEPT !.good = b]
        BY <2>1
    <3> HIDE DEF b
    <3> QED BY <1>1, <3>1, <3>2 DEF Frames
  <2>6. Computed(wtx)'
      BY <2>1, <2>4, <2>5 DEF Computed
  <2>7. Computed(rx) => Computed(rx)'
      BY <1>1, <2>3 DEF Computed
  <2> QED BY <1>1, <2>3, <2>6, <2>7 DEF GenuineInv, Begins, Collecting
<1>4. CASE wrx.stream \in Streams /\ Begins /\ \A s \in Streams : pos[s] = 0
    BY <1>1, <1>4 DEF GenuineInv, Begins, Collecting
<1>5. Current(wrx) \/ (Begins /\ \A s \in Streams : pos[s] = 0)
    BY <1>1 DEF GenuineInv
<1>6. 2 \notin Streams
    BY DEF Streams
<1> QED BY <1>2, <1>3, <1>4, <1>5, <1>6 DEF Current

LEMMA GenuineStep ==
    ASSUME TypeOK, LaneInv, LinkInv, GenuineFacts, [Next]_vars
    PROVE  GenuineFacts'
<1>1. CASE Run
    BY <1>1, RunGenuine DEF GenuineFacts
<1>2. CASE WorkerReset
    BY <1>2 DEF WorkerReset, GenuineFacts
<1>3. CASE ~Run /\ ~WorkerReset
  <2>1. disturbed' = disturbed
      BY <1>3 DEF Next, LaneStep, DispatchTransfer, DispatchEnd, Overlap, CollectTransfer, CollectEnd, Retry,
             CollectFails, Collected, RedispatchTransfer, RedispatchEnd, DispatchFails, TransferFails,
             MasterReset, MasterBoots, WorkerStep, Arm, Received, Forward, Compute, ReplyNotQueued, Replied,
             BootReady, vars
  <2> SUFFICES ASSUME GenuineInv PROVE GenuineInv'
      BY <2>1 DEF GenuineFacts
  <2>2. CASE DispatchTransfer \/ RedispatchTransfer \/ CollectTransfer
      BY <2>2, TransferStepGenuine
  <2>3. CASE DispatchEnd \/ Overlap \/ CollectEnd \/ Retry \/ CollectFails \/ RedispatchEnd \/ DispatchFails
             \/ TransferFails \/ MasterReset \/ MasterBoots \/ UNCHANGED vars
      BY <2>3, LaneOnlyGenuine DEF DispatchEnd, Overlap, CollectEnd, Retry, CollectFails, RedispatchEnd,
             DispatchFails, TransferFails, Fail, MasterReset, MasterBoots, worker, lane, vars, Begins,
             Collecting
  <2>4. CASE Collected
      BY <2>4, CollectedGenuine
  <2>5. CASE Compute \/ ReplyNotQueued
      BY <2>5, ComputeGenuine
  <2>6. CASE Arm \/ Received \/ Replied \/ BootReady
      BY <2>6 DEF Arm, Received, Replied, BootReady, lane, GenuineInv, Current, Computed, Begins, Collecting
  <2> QED BY <1>3, <2>2, <2>3, <2>4, <2>5, <2>6 DEF Next, LaneStep, WorkerStep
<1> QED BY <1>1, <1>2, <1>3

-----------------------------------------------------------------------------
\* While nothing is missed or reset, lane and worker take turns, and every
\* attempt but the last has cost a damaged transfer.

Turns ==
    /\ outcome = "error" => damage > 2
    /\ m # "boot" /\ w # "boot"
    /\ m \in {"idle", "disp_hi", "redisp_hi", "check"} => w \in {"gap", "rx"}
    /\ m \in {"disp_lo", "redisp_lo"} => w \in {"rx_done", "compute"}
    /\ m \in {"overlap", "coll_hi"} => w \in {"compute", "tx"}
    /\ m = "coll_lo" => w \in {"tx_done", "gap"}
    /\ Collecting => attempt <= damage
    /\ m \in {"disp_lo", "overlap"} => damage > 0 \/ Valid(IF w = "tx" THEN wtx ELSE wrx)
    /\ m = "coll_hi" => damage > attempt \/ Valid(IF w = "tx" THEN wtx ELSE wrx)
    /\ m \in {"coll_lo", "check"} => damage > attempt \/ Valid(rx)
    /\ m \in {"redisp_hi", "redisp_lo"} => damage > attempt
    /\ m = "redisp_lo" => damage > attempt + 1 \/ Valid(wrx)

Lockstep == misses = 0 /\ resets = 0 => Turns

LEMMA LaneTurns ==
    ASSUME TypeOK, LaneInv, LinkInv, Turns,
           Run \/ DispatchEnd \/ Overlap \/ CollectEnd \/ Retry \/ CollectFails \/ Collected \/ RedispatchEnd
             \/ DispatchFails \/ MasterBoots \/ UNCHANGED vars
    PROVE  Turns'
<1>1. damage \in Nat /\ attempt \in 0..2 /\ inflight \in Streams /\ pos \in [Streams -> Nat]
    BY LaneAssumption DEF TypeOK, LaneInv
<1> USE DEF Turns, LinkInv, Collecting
<1>2. CASE Run
    BY <1>2 DEF Run
<1>3. CASE DispatchEnd
    BY <1>3 DEF DispatchEnd, worker, Valid
<1>4. CASE Overlap
    BY <1>1, <1>4 DEF Overlap, worker, Valid
<1>5. CASE CollectEnd
  <2>1. m = "coll_lo" /\ ready = 0 /\ rx' = rx /\ w = "gap"
      BY <1>5 DEF CollectEnd, TimedOut, Blocked
  <2> QED BY <1>5, <2>1 DEF CollectEnd, worker, Valid
<1>6. CASE Retry
    BY <1>6 DEF Retry, worker, lane
<1>7. CASE CollectFails
    BY <1>7 DEF CollectFails, Fail, LastAttempt, worker
<1>8. CASE Collected
    BY <1>8 DEF Collected, worker
<1>9. CASE RedispatchEnd
    BY <1>1, <1>9 DEF RedispatchEnd, worker, Valid
<1>10. CASE DispatchFails
    BY <1>10 DEF DispatchFails, TimedOut, Blocked
<1>11. CASE MasterBoots
    BY <1>11 DEF MasterBoots
<1>12. CASE UNCHANGED vars
    BY <1>12 DEF vars, lane, worker, Valid
<1> QED BY <1>2, <1>3, <1>4, <1>5, <1>6, <1>7, <1>8, <1>9, <1>10, <1>11, <1>12

LEMMA TransferTurns ==
    ASSUME TypeOK, LaneInv, LinkInv, Turns, DispatchTransfer \/ RedispatchTransfer \/ CollectTransfer
    PROVE  Turns'
<1>1. damage \in Nat /\ attempt \in 0..2 /\ inflight \in Streams /\ pos \in [Streams -> Nat]
    BY LaneAssumption DEF TypeOK, LaneInv
<1>2. Valid(Frame(pos, inflight))
    BY DEF Valid, Frame
<1>3. ASSUME NEW sent, NEW got, Transfer(sent, got)
      PROVE  /\ w \notin {"compute", "gap"}
             /\ w = "rx" => w' = "rx_done" /\ ((wrx' = sent /\ damage' = damage) \/ damage' = damage + 1)
             /\ w = "tx" => w' = "tx_done" /\ ((got = wtx /\ damage' = damage) \/ damage' = damage + 1)
    BY <1>3 DEF Transfer, Arrives, LinkInv
<1>4. CASE DispatchTransfer
  <2>1. PICK got \in Frames : Transfer(tx, got)
      BY <1>4 DEF DispatchTransfer
  <2>2. m = "disp_hi" /\ tx = Frame(pos, inflight) /\ w = "rx"
      BY <1>4, <1>3, <2>1 DEF DispatchTransfer, LaneInv, Turns
  <2>3. w' = "rx_done" /\ ((Valid(wrx') /\ damage' = damage) \/ damage' = damage + 1)
      BY <1>2, <1>3, <2>1, <2>2
  <2> QED BY <1>1, <1>4, <2>2, <2>3 DEF DispatchTransfer, Turns, Collecting, Valid
<1>5. CASE RedispatchTransfer
  <2>1. PICK got \in Frames : Transfer(retry, got)
      BY <1>5 DEF RedispatchTransfer
  <2>2. m = "redisp_hi" /\ retry = Frame(pos, inflight) /\ w = "rx" /\ damage > attempt
      BY <1>5, <1>3, <2>1 DEF RedispatchTransfer, LaneInv, Turns, Collecting
  <2>3. w' = "rx_done" /\ ((Valid(wrx') /\ damage' = damage) \/ damage' = damage + 1)
      BY <1>2, <1>3, <2>1, <2>2
  <2> QED BY <1>1, <1>5, <2>2, <2>3 DEF RedispatchTransfer, lane, Turns, Collecting, Valid
<1>6. CASE CollectTransfer
  <2>1. PICK got \in Frames : Transfer(Refused, got) /\ rx' = got
      BY <1>6 DEF CollectTransfer
  <2>2. m = "coll_hi" /\ w = "tx" /\ attempt <= damage /\ (damage > attempt \/ Valid(wtx))
      BY <1>6, <1>3, <2>1 DEF CollectTransfer, Turns, Collecting
  <2>3. w' = "tx_done" /\ ((rx' = wtx /\ damage' = damage) \/ damage' = damage + 1)
      BY <1>3, <2>1, <2>2
  <2> QED BY <1>1, <1>6, <2>2, <2>3 DEF CollectTransfer, Turns, Collecting, Valid
<1> QED BY <1>4, <1>5, <1>6

LEMMA WorkerTurns ==
    ASSUME TypeOK, LaneInv, LinkInv, Turns, misses = 0, misses' = 0, WorkerStep \/ BootReady
    PROVE  Turns'
<1>1. Unseen => m \notin {"disp_lo", "coll_lo", "redisp_lo"}
    BY DEF Unseen
<1>2. CASE Arm
    BY <1>1, <1>2 DEF Arm, lane, Turns, Collecting, Valid
<1>3. CASE Received
    BY <1>3 DEF Received, lane, Turns, Collecting, Valid
<1>4. CASE Compute
  <2>1. w = "compute" /\ m \in {"overlap", "coll_hi"} /\ w' = "tx" /\ Forward
      BY <1>1, <1>4 DEF Forward, Compute, Turns, TypeOK
  <2>2. Valid(wrx) => Valid(wtx')
    <3> SUFFICES ASSUME Valid(wrx) PROVE Valid(wtx')
        OBVIOUS
    <3>1. wrx.stream \in Streams /\ wrx \in Frames
        BY DEF Valid, LaneInv, TypeOK
    <3>2. PICK b \in BOOLEAN : wtx' = [wrx EXCEPT !.good = b]
        BY <2>1, <3>1 DEF Forward
    <3> QED BY <3>1, <3>2 DEF Valid, Frames
  <2> QED BY <1>4, <2>1, <2>2 DEF Forward, Compute, lane, Turns, Collecting, Valid
<1>5. CASE Replied
    BY <1>5 DEF Replied, lane, Turns, Collecting, Valid
<1>6. CASE BootReady
    BY <1>6 DEF BootReady, Turns
<1>7. ~ReplyNotQueued
    BY DEF ReplyNotQueued
<1> QED BY <1>2, <1>3, <1>4, <1>5, <1>6, <1>7 DEF WorkerStep

LEMMA LockstepStep ==
    ASSUME TypeOK, LaneInv, LinkInv, Lockstep, [Next]_vars
    PROVE  Lockstep'
<1>1. misses \in Nat /\ resets \in Nat
    BY LaneAssumption DEF TypeOK
<1> SUFFICES ASSUME misses' = 0, resets' = 0 PROVE Turns'
    BY DEF Lockstep
<1>2. ~WorkerReset /\ ~MasterReset /\ ~TransferFails
    BY <1>1 DEF WorkerReset, MasterReset, TransferFails
<1>3. misses = 0 /\ resets = 0
    BY <1>1, <1>2 DEF Next, LaneStep, Run, DispatchTransfer, DispatchEnd, Overlap, CollectTransfer, CollectEnd,
           Retry, CollectFails, Collected, RedispatchTransfer, RedispatchEnd, DispatchFails, MasterBoots,
           WorkerStep, Arm, Received, Forward, Compute, ReplyNotQueued, Replied, BootReady, vars, Unseen
<1>4. Turns
    BY <1>3 DEF Lockstep
<1>5. CASE DispatchTransfer \/ RedispatchTransfer \/ CollectTransfer
    BY <1>4, <1>5, TransferTurns
<1>6. CASE WorkerStep \/ BootReady
    BY <1>3, <1>4, <1>6, WorkerTurns
<1>7. CASE Run \/ DispatchEnd \/ Overlap \/ CollectEnd \/ Retry \/ CollectFails \/ Collected \/ RedispatchEnd
             \/ DispatchFails \/ MasterBoots \/ UNCHANGED vars
    BY <1>4, <1>7, LaneTurns
<1> QED BY <1>2, <1>5, <1>6, <1>7 DEF Next, LaneStep

-----------------------------------------------------------------------------
\* The invariant of the whole lane.

LaneAll == LaneInv /\ TypeOK /\ LinkInv /\ GenuineFacts /\ Lockstep

LEMMA LaneStarts ==
    ASSUME Init
    PROVE  TypeOK /\ LinkInv /\ GenuineFacts /\ Lockstep
<1>1. TypeOK
  <2>1. /\ pos = [s \in Streams |-> 0] /\ prepared = [s \in Streams |-> FALSE] /\ cache = [s \in Streams |-> {}]
        /\ tx = Refused /\ retry = Refused /\ rx = Refused /\ wrx = Refused /\ wtx = Refused
      BY DEF Init
  <2>2. pos \in [Streams -> Positions] /\ cache \in [Streams -> SUBSET Positions]
      BY <2>1, PositionsHold
  <2>3. prepared \in [Streams -> BOOLEAN] /\ {tx, retry, rx, wrx, wtx} \subseteq Frames
      BY <2>1, FrameTypes
  <2>4. damage \in 0..MaxDamage /\ misses \in 0..MaxMisses /\ resets \in 0..MaxResets
      BY LaneAssumption DEF Init
  <2>5. disturbed \in BOOLEAN /\ genuine \in BOOLEAN
      BY Zenon DEF Init
  <2>6. /\ m = "idle" /\ attempt = 0 /\ inflight = 0 /\ 0 \in Streams /\ outcome = "none"
        /\ w = "rx" /\ ready = 1
      BY DEF Init, Streams
  <2> QED BY <2>2, <2>3, <2>4, <2>5, <2>6 DEF TypeOK
<1>2. LinkInv
    BY DEF Init, LinkInv
<1>3. GenuineFacts
  <2>1. \A s \in Streams : pos[s] = 0
      BY DEF Init
  <2> QED BY <2>1 DEF Init, GenuineFacts, GenuineInv, Collecting
<1>4. Lockstep
    BY DEF Init, Lockstep, Turns, Collecting
<1> QED BY <1>1, <1>2, <1>3, <1>4

LEMMA LaneAllKept ==
    ASSUME LaneAll, [Next]_vars
    PROVE  LaneAll'
<1>1. TypeOK /\ LaneInv /\ LaneInv' /\ LinkInv /\ GenuineFacts /\ Lockstep
    BY LaneInvKept DEF LaneAll
<1>2. TypeOK'
  <2>1. CASE Run
      BY <1>1, <2>1, RunTypes
  <2>2. CASE LaneStep
      BY <1>1, <2>2, LaneStepTypes
  <2>3. CASE TransferFails \/ MasterReset \/ MasterBoots \/ WorkerStep \/ BootReady \/ WorkerReset
      BY <1>1, <2>3, OtherStepTypes
  <2>4. CASE UNCHANGED vars
      BY <1>1, <2>4 DEF TypeOK, vars, lane, worker
  <2> QED BY <2>1, <2>2, <2>3, <2>4 DEF Next
<1>3. LinkInv' /\ GenuineFacts' /\ Lockstep'
    BY <1>1, LinkStep, GenuineStep, LockstepStep
<1> QED BY <1>1, <1>2, <1>3 DEF LaneAll

LEMMA LaneAllInvariant == Spec => []LaneAll
<1>1. Init /\ LaneInv => LaneAll
    BY LaneStarts DEF LaneAll
<1>2. LaneAll /\ [Next]_vars => LaneAll'
    BY LaneAllKept
<1> QED BY <1>1, <1>2, LaneInvariant, PTL DEF Spec

(***************************************************************************)
(* The state of both boards keeps its types, for streams of every length   *)
(* and any number of damaged transfers, missed pulses and resets.          *)
(***************************************************************************)
THEOREM LaneTypes == Spec => []TypeOK
<1>1. LaneAll => TypeOK
    BY DEF LaneAll
<1> QED BY <1>1, LaneAllInvariant, PTL

(***************************************************************************)
(* Every accepted result was computed from this run's request over this    *)
(* run's whole prefix, unless the worker was reset meanwhile.              *)
(***************************************************************************)
THEOREM AcceptedGenuine == Spec => []AcceptedIsGenuine
<1>1. LaneAll => AcceptedIsGenuine
    BY DEF LaneAll, GenuineFacts, GenuineInv, AcceptedIsGenuine
<1> QED BY <1>1, LaneAllInvariant, PTL

(***************************************************************************)
(* Two damaged transfers, at whatever moments, fail no run of the lane     *)
(* while no pulse is missed and no board restarts.                         *)
(***************************************************************************)
THEOREM DamageHeals == Spec => []DamageIsHealed
<1>1. LaneAll => DamageIsHealed
  <2>1. ASSUME LaneAll, damage <= 2, misses = 0, resets = 0
        PROVE  outcome # "error"
    <3>1. damage \in Nat /\ Turns
        BY <2>1, LaneAssumption DEF LaneAll, Lockstep, TypeOK
    <3> QED BY <2>1, <3>1 DEF Turns
  <2> QED BY <2>1 DEF DamageIsHealed
<1> QED BY <1>1, LaneAllInvariant, PTL


-----------------------------------------------------------------------------
\* The controller of the two lanes.

LEMMA TrioNames == \A S : Trio!Cardinality(S) = Cardinality(S)
BY DEF Trio!Cardinality, Cardinality

\* The tasks that may still notify the controller.
Alive(t) == task[t] \in {"created", "overlap", "collect"}
Living(l) == IF Alive(<<run, l>>) THEN 1 ELSE 0

Ended == {t \in Trio!Tasks : task[t] = "ended"}

\* The controller's account: a notification for each task of this run that
\* has ended, and none of any other.
Account ==
    /\ \A t \in Trio!Tasks : Alive(t) => t[1] = run
    /\ timeouts = 0 /\ run > 0 =>
         /\ left = count + Living(1) + Living(2)
         /\ pc = "idle" => left = 0
    /\ timeouts # 0 => pc = "idle" /\ printed = "error"

\* What the tasks of this run have written to the frame.
Written ==
    /\ pc = "wait" => printed = "none" /\ \A l \in Trio!Lanes :
         /\ ok[l] /\ ~Alive(<<run, l>>) => done[l] = MaxSteps
         /\ task[<<run, l>>] = "created" => ~ok[l]
    /\ Trio!ResultIsComplete

\* The copy of the request of each task that collects.
Own == \A t \in Trio!Tasks : task[t] \in {"overlap", "collect"} => tretry[t[2]] = <<t, tflight[t]>>

\* No run was given up before this one.
Undisturbed == timeouts = 0 \/ run = 1

TrioInv ==
    /\ Trio!TypeOK
    /\ count <= Cardinality(Ended)
    /\ \A t \in Trio!Tasks : task[t] # "none" => t[1] <= run
    /\ run = 0 => timeouts = 0 /\ pc = "idle" /\ count = 0
    /\ Undisturbed => Account /\ Written /\ Own /\ resent

\* What a step of the task t leaves alone, and where it may take t.
TaskMoves(t, p) ==
    /\ Alive(t) /\ task' = [task EXCEPT ![t] = p] /\ p \in {"overlap", "collect", "ended"}
    /\ count' = IF p = "ended" THEN count + 1 ELSE count
    /\ UNCHANGED <<pc, run, left, printed, timeouts>>
    /\ \/ UNCHANGED <<ok, done>>
       \/ /\ pc = "wait"
          /\ \E okay \in BOOLEAN, steps \in 0..MaxSteps :
                ok' = [ok EXCEPT ![t[2]] = okay] /\ done' = [done EXCEPT ![t[2]] = steps]

LEMMA TaskFacts ==
    ASSUME Trio!TrioAssumption, TrioInv, NEW t \in Trio!Tasks
    PROVE  /\ t[1] \in 1..MaxRuns /\ t[2] \in Trio!Lanes /\ t = <<t[1], t[2]>>
           /\ t[2] = 1 \/ t[2] = 2
           /\ Alive(t) => t[1] <= run /\ task[t] # "ended" /\ task[t] # "none"
           /\ run \in Nat /\ count \in Nat /\ left \in Nat
<1>1. t[1] \in 1..MaxRuns /\ t[2] \in Trio!Lanes /\ t = <<t[1], t[2]>>
    BY DEF Trio!Tasks, Trio!Runs
<1>2. t[2] = 1 \/ t[2] = 2
    BY <1>1 DEF Trio!Lanes
<1>3. Alive(t) => t[1] <= run /\ task[t] # "ended" /\ task[t] # "none"
    BY DEF TrioInv, Alive
<1>4. run \in 0..MaxRuns /\ count \in 0..(2 * MaxRuns) /\ left \in 0..2
    BY DEF TrioInv, Trio!TypeOK
<1> QED BY <1>1, <1>2, <1>3, <1>4

\* Every step of a task is one of these.
LEMMA TaskStepMoves ==
    ASSUME Trio!TrioAssumption, TrioInv, NEW t \in Trio!Tasks, Trio!TaskStep(t)
    PROVE  /\ \E p \in {"overlap", "collect", "ended"} : TaskMoves(t, p)
           /\ tflight' \in [Trio!Tasks -> Trio!Streams] /\ tattempt' \in [Trio!Tasks -> 0..2]
           /\ ttx' \in [Trio!Lanes -> Trio!Requests] /\ tretry' \in [Trio!Lanes -> Trio!Requests]
           /\ resent' \in BOOLEAN
<1>1. /\ t[2] \in Trio!Lanes /\ MaxSteps \in Nat
      /\ task \in [Trio!Tasks -> {"none", "created", "overlap", "collect", "ended"}]
      /\ ok \in [Trio!Lanes -> BOOLEAN] /\ done \in [Trio!Lanes -> 0..MaxSteps]
      /\ tflight \in [Trio!Tasks -> Trio!Streams] /\ tattempt \in [Trio!Tasks -> 0..2]
      /\ ttx \in [Trio!Lanes -> Trio!Requests] /\ tretry \in [Trio!Lanes -> Trio!Requests]
      /\ resent \in BOOLEAN
    BY TaskFacts DEF TrioInv, Trio!TypeOK, Trio!TrioAssumption
<1>2. ok[t[2]] \in BOOLEAN /\ done[t[2]] \in 0..MaxSteps /\ Trio!Taken(t) \in 0..MaxSteps
    BY <1>1 DEF Trio!Taken
<1>3. ASSUME NEW okay \in BOOLEAN, NEW steps \in 0..MaxSteps, Trio!FrameWrites(t, okay, steps)
      PROVE  \/ UNCHANGED <<ok, done>>
             \/ /\ pc = "wait"
                /\ \E o \in BOOLEAN, k \in 0..MaxSteps :
                      ok' = [ok EXCEPT ![t[2]] = o] /\ done' = [done EXCEPT ![t[2]] = k]
    BY <1>3 DEF Trio!FrameWrites
<1>4. ASSUME NEW s \in Trio!Streams
      PROVE  <<t, s>> \in Trio!Requests
    BY DEF Trio!Requests
<1>5. 0 \in Trio!Streams /\ 1 - tflight[t] \in Trio!Streams
  <2>1. tflight[t] \in {0, 1}
      BY <1>1 DEF Trio!Streams
  <2> QED BY <2>1 DEF Trio!Streams
<1>12. ASSUME NEW okay, NEW steps, Trio!Ends(t, okay, steps)
       PROVE  /\ Trio!FrameWrites(t, okay, steps)
              /\ task' = [task EXCEPT ![t] = "ended"] /\ count' = count + 1
              /\ tflight' \in [Trio!Tasks -> Trio!Streams] /\ tattempt' \in [Trio!Tasks -> 0..2]
  <2>1. /\ Trio!FrameWrites(t, okay, steps)
        /\ task' = [task EXCEPT ![t] = "ended"] /\ count' = count + 1
        /\ tflight' = [tflight EXCEPT ![t] = 0] /\ tattempt' = [tattempt EXCEPT ![t] = 0]
      BY <1>12 DEF Trio!Ends
  <2> QED BY <1>1, <1>5, <2>1
<1>6. CASE Trio!TaskFails(t)
  <2>1. /\ task[t] \in {"created", "overlap", "collect"} /\ Trio!Ends(t, FALSE, done[t[2]])
        /\ UNCHANGED <<pc, run, left, printed, ttx, tretry, resent, timeouts>>
      BY <1>6 DEF Trio!TaskFails
  <2>2. /\ Trio!FrameWrites(t, FALSE, done[t[2]])
        /\ task' = [task EXCEPT ![t] = "ended"] /\ count' = count + 1
        /\ tflight' \in [Trio!Tasks -> Trio!Streams] /\ tattempt' \in [Trio!Tasks -> 0..2]
      BY <1>12, <2>1
  <2> QED BY <1>1, <1>2, <1>3, <2>1, <2>2 DEF TaskMoves, Alive
<1>7. CASE Trio!TaskStops(t)
  <2>1. /\ task[t] = "overlap" /\ Trio!Ends(t, ok[t[2]], done[t[2]])
        /\ UNCHANGED <<pc, run, left, printed, ttx, tretry, resent, timeouts>>
      BY <1>7 DEF Trio!TaskStops
  <2>2. /\ Trio!FrameWrites(t, ok[t[2]], done[t[2]])
        /\ task' = [task EXCEPT ![t] = "ended"] /\ count' = count + 1
        /\ tflight' \in [Trio!Tasks -> Trio!Streams] /\ tattempt' \in [Trio!Tasks -> 0..2]
      BY <1>12, <2>1
  <2> QED BY <1>1, <1>2, <1>3, <2>1, <2>2 DEF TaskMoves, Alive
<1>8. CASE Trio!TaskBegins(t)
    BY <1>1, <1>2, <1>3, <1>4, <1>5, <1>8 DEF Trio!TaskBegins, Trio!Dispatches, TaskMoves, Alive
<1>9. CASE Trio!Overlap(t)
  <2>1. /\ task[t] = "overlap" /\ task' = [task EXCEPT ![t] = "collect"]
        /\ tattempt' = [tattempt EXCEPT ![t] = 0]
        /\ ttx' = [ttx EXCEPT ![t[2]] = <<t, 1 - tflight[t]>>] \/ ttx' = ttx
        /\ UNCHANGED <<pc, run, left, count, printed, ok, done, tflight, tretry, resent, timeouts>>
      BY <1>9 DEF Trio!Overlap
  <2>2. TaskMoves(t, "collect")
      BY <2>1 DEF TaskMoves, Alive
  <2>3. ttx' \in [Trio!Lanes -> Trio!Requests]
      BY <1>1, <1>4, <1>5, <2>1
  <2>4. tattempt' \in [Trio!Tasks -> 0..2]
      BY <1>1, <2>1
  <2> QED BY <1>1, <2>1, <2>2, <2>3, <2>4
<1>10. CASE Trio!Redispatch(t)
  <2>1. /\ task[t] = "collect" /\ tattempt[t] < 2 /\ tattempt' = [tattempt EXCEPT ![t] = @ + 1]
        /\ resent' = (resent /\ tretry[t[2]] = <<t, tflight[t]>>)
        /\ UNCHANGED <<pc, run, left, count, printed, ok, done, task, tflight, ttx, tretry, timeouts>>
      BY <1>10 DEF Trio!Redispatch, Trio!AttemptsLeft, Trio!ResendOf
  <2>2. task' = [task EXCEPT ![t] = "collect"]
      BY <1>1, <2>1
  <2>3. TaskMoves(t, "collect")
      BY <2>1, <2>2 DEF TaskMoves, Alive
  <2>4. tattempt' \in [Trio!Tasks -> 0..2]
      BY <1>1, <2>1
  <2> QED BY <1>1, <2>1, <2>3, <2>4
<1>11. CASE Trio!Collected(t)
  <2>1. task[t] = "collect" /\ UNCHANGED <<pc, run, left, printed, resent, timeouts>>
      BY <1>11 DEF Trio!Collected
  <2>2. CASE /\ Trio!FrameWrites(t, ok[t[2]], Trio!Taken(t))
             /\ \E s \in Trio!Streams : Trio!Dispatches(t, s)
             /\ UNCHANGED <<count, tattempt>>
      BY <1>1, <1>2, <1>3, <1>4, <2>1, <2>2 DEF Trio!Dispatches, TaskMoves, Alive
  <2>3. CASE Trio!Ends(t, ok[t[2]], Trio!Taken(t)) /\ UNCHANGED <<ttx, tretry>>
    <3>1. /\ Trio!FrameWrites(t, ok[t[2]], Trio!Taken(t))
          /\ task' = [task EXCEPT ![t] = "ended"] /\ count' = count + 1
          /\ tflight' \in [Trio!Tasks -> Trio!Streams] /\ tattempt' \in [Trio!Tasks -> 0..2]
        BY <1>12, <2>3
    <3> QED BY <1>1, <1>2, <1>3, <2>1, <2>3, <3>1 DEF TaskMoves, Alive
  <2> QED BY <1>11, <2>2, <2>3 DEF Trio!Collected
<1> QED BY <1>6, <1>7, <1>8, <1>9, <1>10, <1>11 DEF Trio!TaskStep

\* No more tasks end than there are.
LEMMA TasksAtMost ==
    ASSUME Trio!TrioAssumption, NEW S \in SUBSET Trio!Tasks
    PROVE  IsFiniteSet(S) /\ Cardinality(S) \in Nat /\ Cardinality(S) <= 2 * MaxRuns
<1>1. MaxRuns \in Nat
    BY DEF Trio!TrioAssumption
<1>2. IsFiniteSet(1..MaxRuns) /\ Cardinality(1..MaxRuns) = MaxRuns
  <2>1. \A n \in Nat : IsFiniteSet(1..n) /\ Cardinality(1..n) = n
      BY FS_Interval
  <2> QED BY <1>1, <2>1
<1>3. IsFiniteSet({1, 2}) /\ Cardinality({1, 2}) = 2
  <2>1. IsFiniteSet({1}) /\ Cardinality({1}) = 1
      BY FS_Singleton
  <2>2. {1, 2} = {1} \cup {2} /\ 2 \notin {1}
      OBVIOUS
  <2>3. IsFiniteSet({1} \cup {2}) /\ Cardinality({1} \cup {2}) = Cardinality({1}) + 1
      BY <2>1, <2>2, FS_AddElement
  <2> QED BY <2>1, <2>2, <2>3
<1>4. IsFiniteSet(Trio!Tasks) /\ Cardinality(Trio!Tasks) = MaxRuns * 2
  <2> DEFINE R == 1..MaxRuns
             L == {1, 2}
  <2>1. IsFiniteSet(R) /\ IsFiniteSet(L) /\ Cardinality(R) = MaxRuns /\ Cardinality(L) = 2
      BY <1>2, <1>3
  <2>2. Trio!Tasks = R \X L
      BY DEF Trio!Tasks, Trio!Runs, Trio!Lanes
  <2> HIDE DEF R, L
  <2>3. IsFiniteSet(R \X L) /\ Cardinality(R \X L) = Cardinality(R) * Cardinality(L)
      BY <2>1, FS_Product
  <2> QED BY <2>1, <2>2, <2>3
<1>5. IsFiniteSet(S) /\ Cardinality(S) <= Cardinality(Trio!Tasks)
    BY <1>4, FS_Subset
<1>6. Cardinality(S) \in Nat
    BY <1>5, FS_CardinalityType
<1>7. MaxRuns * 2 = 2 * MaxRuns
    BY <1>1
<1> QED BY <1>4, <1>5, <1>6, <1>7

\* A notification is given by a task that ends, once.
LEMMA EndedCounts ==
    ASSUME Trio!TrioAssumption, TrioInv, NEW t \in Trio!Tasks, NEW p, TaskMoves(t, p)
    PROVE  /\ count' \in 0..(2 * MaxRuns) /\ count' <= Cardinality(Ended')
           /\ task' \in [Trio!Tasks -> {"none", "created", "overlap", "collect", "ended"}]
<1>1. /\ task \in [Trio!Tasks -> {"none", "created", "overlap", "collect", "ended"}]
      /\ count \in Nat /\ count <= Cardinality(Ended) /\ task[t] # "ended"
      /\ task' = [task EXCEPT ![t] = p] /\ p \in {"overlap", "collect", "ended"}
    BY TaskFacts DEF TrioInv, Trio!TypeOK, TaskMoves
<1>2. task' \in [Trio!Tasks -> {"none", "created", "overlap", "collect", "ended"}]
    BY <1>1
<1>3. IsFiniteSet(Ended) /\ Cardinality(Ended) \in Nat
  <2>1. Ended \in SUBSET Trio!Tasks
      BY DEF Ended
  <2> QED BY <2>1, TasksAtMost
<1>4. CASE p = "ended"
  <2>1. Ended' = Ended \cup {t} /\ t \notin Ended
      BY <1>1, <1>4 DEF Ended
  <2>2. Cardinality(Ended') = Cardinality(Ended) + 1
      BY <1>3, <2>1, FS_AddElement
  <2>3. count' = count + 1
      BY <1>4 DEF TaskMoves
  <2>4. count' <= Cardinality(Ended')
      BY <1>1, <1>3, <2>2, <2>3
  <2>5. Cardinality(Ended') <= 2 * MaxRuns /\ Cardinality(Ended') \in Nat
    <3>1. Ended' \in SUBSET Trio!Tasks
        BY DEF Ended
    <3> QED BY <3>1, TasksAtMost
  <2> QED BY <1>1, <1>2, <2>3, <2>4, <2>5 DEF Trio!TrioAssumption
<1>5. CASE p # "ended"
  <2>1. Ended' = Ended
      BY <1>1, <1>5 DEF Ended
  <2>2. count' = count
      BY <1>5 DEF TaskMoves
  <2> QED BY <1>1, <1>2, <2>1, <2>2 DEF TrioInv, Trio!TypeOK
<1> QED BY <1>4, <1>5

\* A task of the run that is on: its end is one notification and one task less.
LEMMA TaskKeepsAccount ==
    ASSUME Trio!TrioAssumption, TrioInv, Undisturbed, NEW t \in Trio!Tasks, NEW p, TaskMoves(t, p),
           pc = "wait" /\ p = "ended" /\ ok'[t[2]] => done'[t[2]] = MaxSteps
    PROVE  Account' /\ Written'
<1> DEFINE l == t[2]
<1>1. Account /\ Written /\ Trio!TypeOK
    BY DEF TrioInv
<1>2. /\ t[1] \in 1..MaxRuns /\ t = <<t[1], l>> /\ l \in {1, 2} /\ run \in Nat /\ count \in Nat /\ left \in Nat
      /\ task[t] # "ended"
    BY TaskFacts DEF TaskMoves
<1>3. Alive(t) /\ t[1] = run /\ run > 0 /\ t = <<run, l>>
  <2>1. Alive(t) /\ t[1] = run
      BY <1>1 DEF Account, TaskMoves
  <2> QED BY <1>2, <2>1
<1>4. /\ task \in [Trio!Tasks -> {"none", "created", "overlap", "collect", "ended"}]
      /\ task' = [task EXCEPT ![t] = p] /\ p \in {"overlap", "collect", "ended"}
      /\ UNCHANGED <<pc, run, left, printed, timeouts>>
    BY <1>1 DEF TaskMoves, Trio!TypeOK
<1>5. \A r \in Trio!Tasks : Alive(r)' => Alive(r)
    BY <1>3, <1>4 DEF Alive
<1>6. /\ \A k \in {1, 2} : <<run, k>> \in Trio!Tasks
      /\ \A k \in {1, 2} \ {l} : task'[<<run, k>>] = task[<<run, k>>]
    BY <1>2, <1>3, <1>4 DEF Trio!Tasks, Trio!Runs, Trio!Lanes
<1>7. CASE timeouts # 0
    BY <1>1, <1>4, <1>5, <1>7 DEF Account, Written, Trio!ResultIsComplete
<1>8. CASE timeouts = 0
  <2>1. left = count + Living(1) + Living(2) /\ (pc = "idle" => left = 0)
      BY <1>1, <1>3, <1>8 DEF Account
  <2>2. Living(1) \in {0, 1} /\ Living(2) \in {0, 1} /\ Living(l) = 1
      BY <1>3 DEF Living
  <2>3. pc = "wait"
    <3>1. pc \in {"idle", "wait"}
        BY <1>1 DEF Trio!TypeOK
    <3> QED BY <1>2, <2>1, <2>2, <3>1
  <2>4. /\ \A k \in {1, 2} \ {l} : Living(k)' = Living(k)
        /\ Living(l)' = IF p = "ended" THEN 0 ELSE 1
    <3>1. \A k \in {1, 2} \ {l} : Living(k)' = Living(k)
        BY <1>4, <1>6 DEF Living, Alive
    <3>2. task'[<<run, l>>] = p
        BY <1>3, <1>4
    <3>3. Living(l)' = IF p = "ended" THEN 0 ELSE 1
        BY <1>4, <3>2 DEF Living, Alive
    <3> QED BY <3>1, <3>3
  <2>5. left' = count' + Living(1)' + Living(2)'
    <3>1. count' = IF p = "ended" THEN count + 1 ELSE count
        BY DEF TaskMoves
    <3>2. left' = left
        BY <1>4
    <3> DEFINE a == Living(1)
               b == Living(2)
               c == Living(1)'
               d == Living(2)'
    <3>3. /\ a \in {0, 1} /\ b \in {0, 1} /\ left = count + a + b
          /\ \/ l = 1 /\ a = 1 /\ d = b /\ c = IF p = "ended" THEN 0 ELSE 1
             \/ l = 2 /\ b = 1 /\ c = a /\ d = IF p = "ended" THEN 0 ELSE 1
        BY <1>2, <2>1, <2>2, <2>4
    <3> HIDE DEF a, b, c, d
    <3>4. left' = count' + c + d
        BY <1>2, <3>1, <3>2, <3>3
    <3> QED BY <3>4 DEF c, d
  <2>6. Account'
      BY <1>1, <1>4, <1>5, <1>8, <2>3, <2>5 DEF Account
  <2>7. /\ ok \in [Trio!Lanes -> BOOLEAN] /\ done \in [Trio!Lanes -> 0..MaxSteps]
        /\ \A k \in {1, 2} \ {l} : ok'[k] = ok[k] /\ done'[k] = done[k]
    <3>1. ok \in [Trio!Lanes -> BOOLEAN] /\ done \in [Trio!Lanes -> 0..MaxSteps]
        BY <1>1 DEF Trio!TypeOK
    <3> QED BY <3>1, <1>2 DEF TaskMoves, Trio!Lanes
  <2>8. ASSUME NEW k \in Trio!Lanes
        PROVE  /\ ok'[k] /\ ~Alive(<<run, k>>)' => done'[k] = MaxSteps
               /\ task'[<<run, k>>] = "created" => ~ok'[k]
    <3>1. k \in {1, 2}
        BY DEF Trio!Lanes
    <3>2. CASE k = l
      <4>1. task'[<<run, k>>] = p /\ (~Alive(<<run, k>>)' => p = "ended")
          BY <1>3, <1>4, <3>2 DEF Alive
      <4> QED BY <1>4, <2>3, <3>2, <4>1
    <3>3. CASE k # l
      <4>1. (Alive(<<run, k>>)' <=> Alive(<<run, k>>)) /\ task'[<<run, k>>] = task[<<run, k>>]
          BY <1>4, <1>6, <3>1, <3>3 DEF Alive
      <4> QED BY <1>1, <2>3, <2>7, <3>1, <3>3, <4>1 DEF Written
    <3> QED BY <3>2, <3>3
  <2>9. Written'
      BY <1>1, <1>4, <2>3, <2>8 DEF Written, Trio!ResultIsComplete
  <2> QED BY <2>6, <2>9
<1> QED BY <1>7, <1>8

\* The end of a task that ended well is that of its streams.
LEMMA EndsComplete ==
    ASSUME Trio!TrioAssumption, TrioInv, NEW t \in Trio!Tasks, Trio!TaskStep(t), NEW p, TaskMoves(t, p),
           pc = "wait", p = "ended", ok'[t[2]]
    PROVE  done'[t[2]] = MaxSteps
<1>1. /\ t[2] \in Trio!Lanes /\ task[t] # "ended" /\ task' = [task EXCEPT ![t] = p]
      /\ task \in [Trio!Tasks -> {"none", "created", "overlap", "collect", "ended"}]
      /\ ok \in [Trio!Lanes -> BOOLEAN] /\ done \in [Trio!Lanes -> 0..MaxSteps]
    BY TaskFacts DEF TrioInv, Trio!TypeOK, TaskMoves
<1>2. task'[t] = "ended"
    BY <1>1
<1>3. ~(Trio!TaskBegins(t) \/ Trio!Overlap(t) \/ Trio!Redispatch(t))
    BY <1>1, <1>2 DEF Trio!TaskBegins, Trio!Dispatches, Trio!Overlap, Trio!Redispatch
<1>4. ~Trio!TaskFails(t)
    BY <1>1 DEF Trio!TaskFails, Trio!Ends, Trio!FrameWrites
<1>5. ~Trio!TaskStops(t)
    BY <1>1 DEF Trio!TaskStops, Trio!InFrame, Trio!Ends, Trio!FrameWrites
<1>6. Trio!Collected(t)
    BY <1>3, <1>4, <1>5 DEF Trio!TaskStep
<1>7. Trio!Taken(t) = MaxSteps /\ Trio!FrameWrites(t, ok[t[2]], Trio!Taken(t))
    BY <1>1, <1>2, <1>6 DEF Trio!Collected, Trio!InFrame, Trio!Dispatches, Trio!Ends
<1> QED BY <1>1, <1>7 DEF Trio!FrameWrites

\* The copies of the requests: no other living task is of the same lane.
LEMMA TaskKeepsOwn ==
    ASSUME Trio!TrioAssumption, TrioInv, Undisturbed, NEW t \in Trio!Tasks, Trio!TaskStep(t)
    PROVE  Own' /\ resent'
<1>1. /\ Own /\ resent /\ Account
      /\ task \in [Trio!Tasks -> {"none", "created", "overlap", "collect", "ended"}]
      /\ tflight \in [Trio!Tasks -> Trio!Streams] /\ tretry \in [Trio!Lanes -> Trio!Requests]
    BY DEF TrioInv, Trio!TypeOK
<1>2. Alive(t) /\ t[1] = run /\ t[2] \in Trio!Lanes /\ t = <<t[1], t[2]>>
  <2>1. Alive(t)
      BY TaskStepMoves DEF TaskMoves
  <2> QED BY <1>1, <2>1, TaskFacts DEF Account
<1>3. \A r \in Trio!Tasks : Alive(r) /\ r # t => r[2] # t[2] /\ r[2] \in Trio!Lanes
    BY <1>1, <1>2, TaskFacts DEF Account
<1>4. ASSUME NEW s, Trio!Dispatches(t, s)
      PROVE  Own'
  <2>1. /\ task' = [task EXCEPT ![t] = "overlap"] /\ tflight' = [tflight EXCEPT ![t] = s]
        /\ tretry' = [tretry EXCEPT ![t[2]] = <<t, s>>]
      BY <1>4 DEF Trio!Dispatches
  <2>2. tretry'[t[2]] = <<t, tflight'[t]>>
      BY <1>1, <1>2, <2>1
  <2>3. ASSUME NEW r \in Trio!Tasks, r # t, task'[r] \in {"overlap", "collect"}
        PROVE  tretry'[r[2]] = <<r, tflight'[r]>>
    <3>1. task[r] \in {"overlap", "collect"} /\ tflight'[r] = tflight[r]
        BY <1>1, <2>1, <2>3
    <3>2. r[2] # t[2] /\ r[2] \in Trio!Lanes
        BY <1>3, <2>3, <3>1 DEF Alive
    <3>3. tretry'[r[2]] = tretry[r[2]]
        BY <1>1, <2>1, <3>2
    <3> QED BY <1>1, <3>1, <3>3 DEF Own
  <2> QED BY <2>2, <2>3 DEF Own
<1>5. ASSUME UNCHANGED tretry,
             \A r \in Trio!Tasks : task'[r] \in {"overlap", "collect"} =>
                 task[r] \in {"overlap", "collect"} /\ tflight'[r] = tflight[r]
      PROVE  Own'
    BY <1>1, <1>5 DEF Own
<1>11. ASSUME NEW okay, NEW steps, Trio!Ends(t, okay, steps), UNCHANGED tretry
       PROVE  Own'
  <2>1. task' = [task EXCEPT ![t] = "ended"] /\ tflight' = [tflight EXCEPT ![t] = 0]
      BY <1>11 DEF Trio!Ends
  <2>2. \A r \in Trio!Tasks : task'[r] \in {"overlap", "collect"} =>
            task[r] \in {"overlap", "collect"} /\ tflight'[r] = tflight[r]
      BY <1>1, <2>1
  <2> QED BY <1>5, <1>11, <2>2
<1>6. CASE Trio!TaskFails(t) \/ Trio!TaskStops(t)
  <2>1. /\ \E okay, steps : Trio!Ends(t, okay, steps)
        /\ UNCHANGED <<tretry, resent>>
      BY <1>6 DEF Trio!TaskFails, Trio!TaskStops
  <2> QED BY <1>1, <1>11, <2>1
<1>7. CASE Trio!TaskBegins(t)
    BY <1>1, <1>4, <1>7 DEF Trio!TaskBegins
<1>8. CASE Trio!Overlap(t)
  <2>1. task[t] = "overlap" /\ task' = [task EXCEPT ![t] = "collect"] /\ UNCHANGED <<tflight, tretry, resent>>
      BY <1>8 DEF Trio!Overlap
  <2> QED BY <1>1, <1>5, <2>1
<1>9. CASE Trio!Redispatch(t)
  <2>1. /\ task[t] = "collect" /\ UNCHANGED <<task, tflight, tretry>>
        /\ resent' = (resent /\ tretry[t[2]] = <<t, tflight[t]>>)
      BY <1>9 DEF Trio!Redispatch, Trio!ResendOf
  <2>2. tretry[t[2]] = <<t, tflight[t]>>
      BY <1>1, <2>1 DEF Own
  <2> QED BY <1>1, <1>5, <2>1, <2>2
<1>10. CASE Trio!Collected(t)
  <2>1. resent' = resent
      BY <1>10 DEF Trio!Collected
  <2>2. CASE Trio!Ends(t, ok[t[2]], Trio!Taken(t)) /\ UNCHANGED <<ttx, tretry>>
      BY <1>1, <1>11, <2>1, <2>2
  <2> QED BY <1>1, <1>4, <1>10, <2>1, <2>2 DEF Trio!Collected
<1> QED BY <1>6, <1>7, <1>8, <1>9, <1>10 DEF Trio!TaskStep

LEMMA LanesCount ==
    ASSUME NEW S \in SUBSET Trio!Lanes
    PROVE  Cardinality(S) = (IF 1 \in S THEN 1 ELSE 0) + (IF 2 \in S THEN 1 ELSE 0)
<1>1. Cardinality({}) = 0 /\ IsFiniteSet({1}) /\ Cardinality({1}) = 1 /\ Cardinality({2}) = 1
    BY FS_EmptySet, FS_Singleton
<1>2. Cardinality({1} \cup {2}) = 2
  <2>1. 2 \notin {1}
      OBVIOUS
  <2>2. Cardinality({1} \cup {2}) = Cardinality({1}) + 1
      BY <1>1, <2>1, FS_AddElement
  <2> QED BY <1>1, <2>2
<1>3. S = {} \/ S = {1} \/ S = {2} \/ S = {1} \cup {2}
    BY DEF Trio!Lanes
<1>4. CASE S = {}
    BY <1>1, <1>4
<1>5. CASE S = {1}
    BY <1>1, <1>5
<1>6. CASE S = {2}
    BY <1>1, <1>6
<1>7. CASE S = {1} \cup {2}
    BY <1>2, <1>7
<1> QED BY <1>3, <1>4, <1>5, <1>6, <1>7

\* A run begins when nothing of the runs before it is left, if none was given up.
LEMMA RunKeepsTrio ==
    ASSUME Trio!TrioAssumption, TrioInv, Trio!Run
    PROVE  TrioInv'
<1>1. /\ pc = "idle" /\ run < MaxRuns /\ pc' = "wait" /\ run' = run + 1 /\ printed' = "none"
      /\ ok' = [k \in Trio!Lanes |-> FALSE] /\ done' = [k \in Trio!Lanes |-> 0]
      /\ UNCHANGED <<count, tflight, tattempt, ttx, tretry, resent, timeouts>>
    BY DEF Trio!Run
<1>2. PICK created \in SUBSET Trio!Lanes :
         /\ left' = Cardinality(created)
         /\ task' = [t \in Trio!Tasks |-> IF t[1] = run' /\ t[2] \in created THEN "created" ELSE task[t]]
    BY TrioNames DEF Trio!Run
<1>3. /\ Trio!TypeOK /\ run \in Nat /\ count \in Nat /\ left \in Nat /\ MaxSteps \in Nat
      /\ task \in [Trio!Tasks -> {"none", "created", "overlap", "collect", "ended"}]
      /\ \A t \in Trio!Tasks : task[t] # "none" => t[1] <= run
    BY DEF TrioInv, Trio!TypeOK, Trio!TrioAssumption
<1>4. \A t \in Trio!Tasks : t[1] = run' => task[t] = "none"
    BY <1>1, <1>3
<1>5. left' = (IF 1 \in created THEN 1 ELSE 0) + (IF 2 \in created THEN 1 ELSE 0)
    BY <1>2, LanesCount
<1>6. \A k \in {1, 2} : <<run', k>> \in Trio!Tasks
  <2>1. run' \in 1..MaxRuns
    <3>1. MaxRuns \in Nat
        BY DEF Trio!TrioAssumption
    <3> QED BY <1>1, <1>3, <3>1
  <2> QED BY <2>1 DEF Trio!Tasks, Trio!Runs, Trio!Lanes
<1>7. \A k \in {1, 2} : task'[<<run', k>>] = IF k \in created THEN "created" ELSE "none"
    BY <1>2, <1>4, <1>6
<1>8. Trio!TypeOK'
  <2>1. left' \in 0..2
      BY <1>5
  <2>2. run' \in 0..MaxRuns
      BY <1>1, <1>3 DEF Trio!TrioAssumption
  <2>3. task' \in [Trio!Tasks -> {"none", "created", "overlap", "collect", "ended"}]
      BY <1>2, <1>3
  <2>4. ok' \in [Trio!Lanes -> BOOLEAN] /\ done' \in [Trio!Lanes -> 0..MaxSteps]
      BY <1>1, <1>3
  <2> QED BY <1>1, <1>3, <2>1, <2>2, <2>3, <2>4 DEF Trio!TypeOK
<1>9. count' <= Cardinality(Ended')
  <2>1. Ended' = Ended
      BY <1>2, <1>4 DEF Ended
  <2> QED BY <1>1, <2>1 DEF TrioInv
<1>10. \A t \in Trio!Tasks : task'[t] # "none" => t[1] <= run'
  <2>1. \A t \in Trio!Tasks : t[1] \in Int
      BY DEF Trio!Tasks, Trio!Runs
  <2> QED BY <1>1, <1>2, <1>3, <2>1
<1>11. run' # 0
    BY <1>1, <1>3
<1>12. ASSUME Undisturbed'
       PROVE  Account' /\ Written' /\ Own' /\ resent'
  <2>1. timeouts = 0 /\ Undisturbed
      BY <1>1, <1>3, <1>12 DEF Undisturbed, TrioInv
  <2>2. Account /\ Own /\ resent
      BY <2>1 DEF TrioInv
  <2>3. count = 0 /\ \A t \in Trio!Tasks : ~Alive(t)
    <3>1. CASE run = 0
      <4>1. \A t \in Trio!Tasks : t[1] \in Int /\ t[1] >= 1
          BY DEF Trio!Tasks, Trio!Runs
      <4> QED BY <1>3, <3>1, <4>1 DEF TrioInv, Alive
    <3>2. CASE run # 0
      <4>1. left = 0 /\ left = count + Living(1) + Living(2)
          BY <1>1, <1>3, <2>1, <2>2, <3>2 DEF Account
      <4>2. Living(1) \in {0, 1} /\ Living(2) \in {0, 1}
          BY DEF Living
      <4>3. count = 0 /\ Living(1) = 0 /\ Living(2) = 0
          BY <1>3, <4>1, <4>2
      <4>4. ~Alive(<<run, 1>>) /\ ~Alive(<<run, 2>>)
          BY <4>3 DEF Living
      <4>5. \A t \in Trio!Tasks : t = <<t[1], t[2]>> /\ (t[2] = 1 \/ t[2] = 2)
          BY DEF Trio!Tasks, Trio!Lanes
      <4> QED BY <2>2, <4>3, <4>4, <4>5 DEF Account
    <3> QED BY <3>1, <3>2
  <2>4. \A t \in Trio!Tasks : task'[t] \in {"created", "overlap", "collect"} =>
          t[1] = run' /\ task'[t] = "created"
      BY <1>2, <2>3 DEF Alive
  <2>5. Living(1)' = (IF 1 \in created THEN 1 ELSE 0) /\ Living(2)' = (IF 2 \in created THEN 1 ELSE 0)
      BY <1>7 DEF Living, Alive
  <2>6. left' = count' + Living(1)' + Living(2)'
    <3>1. count' = 0 /\ Living(1)' \in {0, 1} /\ Living(2)' \in {0, 1} /\ left' = Living(1)' + Living(2)'
        BY <1>1, <1>5, <2>3, <2>5
    <3> QED BY <3>1
  <2>7. Account'
      BY <1>1, <2>1, <2>4, <2>6 DEF Account, Alive
  <2>8. Written'
      BY <1>1 DEF Written, Trio!ResultIsComplete, Trio!Lanes
  <2>9. Own'
      BY <2>4 DEF Own
  <2> QED BY <1>1, <2>2, <2>7, <2>8, <2>9
<1> QED BY <1>8, <1>9, <1>10, <1>11, <1>12 DEF TrioInv

LEMMA ControllerKeepsTrio ==
    ASSUME Trio!TrioAssumption, TrioInv, Trio!Notified \/ Trio!Reports \/ Trio!GivesUp
    PROVE  TrioInv'
<1>1. /\ pc = "wait" /\ UNCHANGED <<run, ok, done, task, tflight, tattempt, ttx, tretry, resent>>
      /\ Trio!TypeOK /\ run > 0 /\ run \in Nat
    BY DEF Trio!Notified, Trio!Reports, Trio!GivesUp, TrioInv, Trio!TypeOK
<1>2. Ended' = Ended /\ (Own' <=> Own) /\ Living(1)' = Living(1) /\ Living(2)' = Living(2)
      /\ \A t \in Trio!Tasks : Alive(t)' <=> Alive(t)
    BY <1>1 DEF Ended, Own, Living, Alive
<1>3. count \in Nat /\ left \in Nat /\ timeouts \in Nat
      /\ Cardinality(Ended) \in Nat /\ count <= Cardinality(Ended)
  <2>1. Ended \in SUBSET Trio!Tasks
      BY DEF Ended
  <2> QED BY <1>1, <2>1, TasksAtMost DEF TrioInv, Trio!TypeOK, Trio!TrioAssumption
<1>4. CASE Trio!Notified
  <2>1. left > 0 /\ count > 0 /\ left' = left - 1 /\ count' = count - 1 /\ UNCHANGED <<pc, printed, timeouts>>
      BY <1>4 DEF Trio!Notified
  <2>2. Trio!TypeOK'
      BY <1>1, <1>3, <2>1 DEF Trio!TypeOK, Trio!TrioAssumption
  <2>3. count' <= Cardinality(Ended')
      BY <1>2, <1>3, <2>1
  <2>4. ASSUME Undisturbed'
        PROVE  Account' /\ Written' /\ Own' /\ resent'
    <3>1. Undisturbed /\ Account /\ Written /\ Own /\ resent
        BY <1>1, <2>1, <2>4 DEF Undisturbed, TrioInv
    <3>2. Living(1) \in {0, 1} /\ Living(2) \in {0, 1}
        BY DEF Living
    <3>3. timeouts = 0 => left' = count' + Living(1)' + Living(2)'
        BY <1>1, <1>2, <1>3, <2>1, <3>1, <3>2 DEF Account
    <3>4. Account'
        BY <1>1, <1>2, <2>1, <3>1, <3>3 DEF Account
    <3>5. Written'
        BY <1>1, <2>1, <3>1 DEF Written, Alive, Trio!ResultIsComplete
    <3> QED BY <1>1, <1>2, <3>1, <3>4, <3>5
  <2> QED BY <1>1, <2>1, <2>2, <2>3, <2>4 DEF TrioInv
<1>5. CASE Trio!Reports
  <2>1. /\ left = 0 /\ pc' = "idle" /\ UNCHANGED <<left, count, timeouts>>
        /\ printed' = IF \A k \in Trio!Lanes : ok[k] THEN "result" ELSE "error"
      BY <1>5 DEF Trio!Reports
  <2>2. Trio!TypeOK'
      BY <1>1, <2>1 DEF Trio!TypeOK
  <2>4. ASSUME Undisturbed'
        PROVE  Account' /\ Written' /\ Own' /\ resent'
    <3>1. Undisturbed /\ Account /\ Written /\ Own /\ resent
        BY <1>1, <2>1, <2>4 DEF Undisturbed, TrioInv
    <3>2. timeouts = 0
        BY <1>1, <3>1 DEF Account
    <3>3. Account'
        BY <1>1, <1>2, <2>1, <3>1, <3>2 DEF Account
    <3>4. ~Alive(<<run, 1>>) /\ ~Alive(<<run, 2>>)
      <4>1. Living(1) \in {0, 1} /\ Living(2) \in {0, 1} /\ left = count + Living(1) + Living(2)
          BY <1>1, <3>1, <3>2 DEF Living, Account
      <4>2. Living(1) = 0 /\ Living(2) = 0
          BY <1>3, <2>1, <4>1
      <4> QED BY <4>2 DEF Living
    <3>5. printed' = "result" => \A k \in Trio!Lanes : ok[k] /\ done[k] = MaxSteps
      <4> SUFFICES ASSUME printed' = "result", NEW k \in Trio!Lanes PROVE ok[k] /\ done[k] = MaxSteps
          OBVIOUS
      <4>1. ok[k] /\ ~Alive(<<run, k>>)
          BY <2>1, <3>4 DEF Trio!Lanes
      <4> QED BY <1>1, <3>1, <4>1 DEF Written
    <3>6. Written'
        BY <1>1, <2>1, <3>5 DEF Written, Trio!ResultIsComplete
    <3> QED BY <1>1, <1>2, <3>1, <3>3, <3>6
  <2> QED BY <1>1, <1>2, <1>3, <2>1, <2>2, <2>4 DEF TrioInv
<1>6. CASE Trio!GivesUp
  <2>1. timeouts < MaxTimeouts /\ timeouts' = timeouts + 1 /\ pc' = "idle" /\ printed' = "error"
        /\ UNCHANGED <<left, count>>
      BY <1>6 DEF Trio!GivesUp
  <2>2. Trio!TypeOK'
    <3>1. timeouts' \in 0..MaxTimeouts
        BY <1>1, <2>1 DEF Trio!TypeOK, Trio!TrioAssumption
    <3> QED BY <1>1, <2>1, <3>1 DEF Trio!TypeOK
  <2>4. ASSUME Undisturbed'
        PROVE  Account' /\ Written' /\ Own' /\ resent'
    <3>1. timeouts' # 0 /\ run = 1
        BY <1>1, <1>3, <2>1, <2>4 DEF Undisturbed
    <3>2. Account /\ Own /\ resent
        BY <3>1 DEF Undisturbed, TrioInv
    <3>3. Account'
        BY <1>1, <1>2, <2>1, <3>1, <3>2 DEF Account
    <3>4. Written'
        BY <2>1 DEF Written, Trio!ResultIsComplete
    <3> QED BY <1>1, <1>2, <3>2, <3>3, <3>4
  <2> QED BY <1>1, <1>2, <1>3, <2>1, <2>2, <2>4 DEF TrioInv
<1> QED BY <1>4, <1>5, <1>6

LEMMA TaskKeepsTrio ==
    ASSUME Trio!TrioAssumption, TrioInv, NEW t \in Trio!Tasks, Trio!TaskStep(t)
    PROVE  TrioInv'
<1>1. PICK p \in {"overlap", "collect", "ended"} : TaskMoves(t, p)
    BY TaskStepMoves
<1>2. /\ UNCHANGED <<pc, run, left, printed, timeouts>> /\ task' = [task EXCEPT ![t] = p] /\ Alive(t)
      /\ Trio!TypeOK
    BY <1>1 DEF TaskMoves, TrioInv
<1>3. /\ count' \in 0..(2 * MaxRuns) /\ count' <= Cardinality(Ended')
      /\ task' \in [Trio!Tasks -> {"none", "created", "overlap", "collect", "ended"}]
    BY <1>1, EndedCounts
<1>4. ok' \in [Trio!Lanes -> BOOLEAN] /\ done' \in [Trio!Lanes -> 0..MaxSteps]
  <2>1. ok \in [Trio!Lanes -> BOOLEAN] /\ done \in [Trio!Lanes -> 0..MaxSteps]
      BY <1>2 DEF Trio!TypeOK
  <2> QED BY <1>1, <2>1 DEF TaskMoves
<1>5. Trio!TypeOK'
    BY <1>2, <1>3, <1>4, TaskStepMoves DEF Trio!TypeOK
<1>6. \A r \in Trio!Tasks : task'[r] # "none" => r[1] <= run'
  <2>1. t[1] <= run /\ task \in [Trio!Tasks -> {"none", "created", "overlap", "collect", "ended"}]
      BY <1>2, TaskFacts DEF Trio!TypeOK
  <2> QED BY <1>2, <2>1 DEF TrioInv
<1>7. run' = 0 => timeouts' = 0 /\ pc' = "idle" /\ count' = 0
  <2>1. t[1] <= run /\ t[1] \in 1..MaxRuns
      BY <1>2, TaskFacts
  <2> QED BY <1>2, <2>1
<1>8. ASSUME Undisturbed'
      PROVE  Account' /\ Written' /\ Own' /\ resent'
  <2>1. Undisturbed
      BY <1>2, <1>8 DEF Undisturbed
  <2>2. pc = "wait" /\ p = "ended" /\ ok'[t[2]] => done'[t[2]] = MaxSteps
      BY <1>1, EndsComplete
  <2> QED BY <1>1, <2>1, <2>2, TaskKeepsAccount, TaskKeepsOwn
<1> QED BY <1>3, <1>5, <1>6, <1>7, <1>8 DEF TrioInv

LEMMA TrioStarts ==
    ASSUME Trio!TrioAssumption, Trio!Init
    PROVE  TrioInv
<1>1. /\ pc = "idle" /\ run = 0 /\ left = 0 /\ count = 0 /\ printed = "none" /\ resent = TRUE /\ timeouts = 0
      /\ ok = [k \in Trio!Lanes |-> FALSE] /\ done = [k \in Trio!Lanes |-> 0]
      /\ task = [t \in Trio!Tasks |-> "none"] /\ tflight = [t \in Trio!Tasks |-> 0]
      /\ tattempt = [t \in Trio!Tasks |-> 0]
      /\ ttx = [k \in Trio!Lanes |-> Trio!NoRequest] /\ tretry = [k \in Trio!Lanes |-> Trio!NoRequest]
    BY DEF Trio!Init
<1>2. MaxSteps \in Nat /\ MaxRuns \in Nat /\ MaxRuns > 0 /\ MaxTimeouts \in Nat
    BY DEF Trio!TrioAssumption
<1>3. Trio!NoRequest \in Trio!Requests
    BY <1>2 DEF Trio!NoRequest, Trio!Requests, Trio!Tasks, Trio!Runs, Trio!Lanes, Trio!Streams
<1>4. Trio!TypeOK
    BY <1>1, <1>2, <1>3 DEF Trio!TypeOK, Trio!Streams
<1>5. Ended = {} /\ Cardinality(Ended) = 0
  <2>1. Ended = {}
      BY <1>1 DEF Ended
  <2> QED BY <2>1, FS_EmptySet
<1>6. \A t \in Trio!Tasks : task[t] = "none"
    BY <1>1
<1>7. Account /\ Written /\ Own
    BY <1>1, <1>6 DEF Account, Alive, Written, Own, Trio!ResultIsComplete
<1> QED BY <1>1, <1>4, <1>5, <1>6, <1>7 DEF TrioInv

LEMMA ControllerCompletes == Trio!TrioAssumption => (Trio!Spec => []Trio!TrioIsComplete)
<1> SUFFICES ASSUME Trio!TrioAssumption PROVE Trio!Spec => []Trio!TrioIsComplete
    OBVIOUS
<1>1. Trio!Init => TrioInv
    BY TrioStarts
<1>2. TrioInv /\ [Trio!Next]_(Trio!vars) => TrioInv'
  <2>1. ASSUME TrioInv, UNCHANGED Trio!vars PROVE TrioInv'
    <3>1. UNCHANGED <<pc, run, left, count, printed, ok, done, task, tflight, tattempt, ttx, tretry,
                   resent, timeouts>>
        BY <2>1 DEF Trio!vars
    <3>2. (Trio!TypeOK)' /\ Ended' = Ended /\ (Undisturbed' <=> Undisturbed)
        BY <2>1, <3>1 DEF TrioInv, Trio!TypeOK, Ended, Undisturbed
    <3>3. (Account /\ Written /\ Own) => (Account' /\ Written' /\ Own')
        BY <3>1 DEF Account, Written, Own, Alive, Living, Trio!ResultIsComplete
    <3> QED BY <2>1, <3>1, <3>2, <3>3 DEF TrioInv
  <2> QED BY <2>1, RunKeepsTrio, ControllerKeepsTrio, TaskKeepsTrio DEF Trio!Next, Trio!Controller
<1>3. TrioInv => Trio!TrioIsComplete
    BY DEF TrioInv, Undisturbed, Written, Trio!TrioIsComplete, Trio!RetryResendsOwn
<1> QED BY <1>1, <1>2, <1>3, PTL DEF Trio!Spec

-----------------------------------------------------------------------------
\* The parts together: a step of a part is a step of its component, that of a
\* lane without misses and resets one of a lane with them.

LEMMA DamageSteps == ASSUME TypeOK, Damage!Next PROVE Next
<1>1. misses \in Nat /\ resets \in Nat /\ misses <= MaxMisses /\ resets <= MaxResets
    BY LaneAssumption DEF TypeOK
<1>2. Damage!Unseen => Unseen
    BY <1>1 DEF Damage!Unseen, Unseen
<1>3. ~Damage!MasterReset /\ ~Damage!WorkerReset /\ ~Damage!TransferFails /\ ~Damage!ReplyNotQueued
    BY <1>1 DEF Damage!MasterReset, Damage!WorkerReset, Damage!TransferFails, Damage!ReplyNotQueued
<1>4. /\ Damage!Run => Run
      /\ Damage!MasterBoots => MasterBoots
      /\ Damage!BootReady => BootReady
  <2>1. Damage!Run => Run
      BY Zenon DEF Damage!Run, Run, Damage!Frame, Frame, Damage!Stale, Stale, Damage!Streams, Streams
  <2>2. Damage!MasterBoots => MasterBoots
      BY Zenon DEF Damage!MasterBoots, MasterBoots, Damage!Blocked, Blocked, Damage!lane,
             lane, Damage!worker, worker
  <2>3. Damage!BootReady => BootReady
      BY Zenon DEF Damage!BootReady, BootReady, Damage!lane, lane
  <2> QED BY <2>1, <2>2, <2>3
<1>5. Damage!WorkerStep => WorkerStep
  <2>1. Damage!Arm => Arm
      BY <1>2, Zenon DEF Damage!Arm, Arm, Damage!Refused, Refused, Damage!lane, lane
  <2>2. Damage!Received => Received
      BY Zenon DEF Damage!Received, Received, Damage!lane, lane
  <2>3. Damage!Compute => Compute
      BY <1>2, Zenon DEF Damage!Compute, Compute, Damage!Forward, Forward, Damage!Refused, Refused,
             Damage!lane, lane, Damage!Streams, Streams
  <2>4. Damage!Replied => Replied
      BY Zenon DEF Damage!Replied, Replied, Damage!lane, lane
  <2> QED BY <1>3, <2>1, <2>2, <2>3, <2>4 DEF Damage!WorkerStep, WorkerStep
<1>6. Damage!LaneStep => LaneStep
  <2>1. /\ Damage!Refused = Refused /\ Damage!Frames = Frames /\ Damage!Streams = Streams
        /\ \A p, s : Damage!Frame(p, s) = Frame(p, s) /\ Damage!Active(p, s) = Active(p, s)
        /\ Damage!Fail = Fail
        /\ \A level : Damage!TimedOut(level) = TimedOut(level)
        /\ \A f : Damage!Valid(f) = Valid(f)
        /\ Damage!LastAttempt = LastAttempt
    <3>1. Damage!Frames = Frames /\ Damage!Refused = Refused /\ Damage!Streams = Streams
        BY Zenon DEF Damage!Refused, Refused, Damage!Frames, Frames, Damage!Positions, Positions,
               Damage!Streams, Streams
    <3>2. /\ \A p, s : Damage!Frame(p, s) = Frame(p, s)
          /\ \A p, s : Damage!Active(p, s) = Active(p, s)
        BY Zenon DEF Damage!Frame, Frame, Damage!Active, Active
    <3>3. /\ Damage!Fail = Fail
          /\ \A level : Damage!TimedOut(level) = TimedOut(level)
          /\ \A f : Damage!Valid(f) = Valid(f)
          /\ Damage!LastAttempt = LastAttempt
        BY Zenon DEF Damage!Fail, Fail, Damage!TimedOut, TimedOut, Damage!Blocked, Blocked,
               Damage!Valid, Valid, Damage!LastAttempt, LastAttempt
    <3> QED BY <3>1, <3>2, <3>3
  <2>2. \A sent, got : Damage!Transfer(sent, got) => Transfer(sent, got)
      BY <2>1, Zenon DEF Damage!Transfer, Transfer, Damage!Arrives, Arrives
  <2>3. \A p : Damage!NextStream(p) = NextStream(p)
      BY <2>1, Zenon DEF Damage!NextStream, NextStream
  <2>4. Damage!lane = lane /\ Damage!worker = worker /\ (UNCHANGED Damage!lane <=> UNCHANGED lane)
        /\ (UNCHANGED Damage!worker <=> UNCHANGED worker)
      BY Zenon DEF Damage!lane, lane, Damage!worker, worker
  <2>5. Damage!DispatchTransfer \/ Damage!CollectTransfer \/ Damage!RedispatchTransfer
            => DispatchTransfer \/ CollectTransfer \/ RedispatchTransfer
      BY <2>1, <2>2, <2>4, Zenon DEF Damage!DispatchTransfer, DispatchTransfer, Damage!CollectTransfer,
             CollectTransfer, Damage!RedispatchTransfer, RedispatchTransfer
  <2>6. Damage!DispatchEnd \/ Damage!CollectEnd \/ Damage!Retry \/ Damage!RedispatchEnd
            => DispatchEnd \/ CollectEnd \/ Retry \/ RedispatchEnd
      BY <2>1, <2>4, Zenon DEF Damage!DispatchEnd, DispatchEnd, Damage!CollectEnd, CollectEnd, Damage!Retry,
             Retry, Damage!RedispatchEnd, RedispatchEnd
  <2>7. Damage!CollectFails \/ Damage!DispatchFails => CollectFails \/ DispatchFails
      BY <2>1, <2>4, Zenon DEF Damage!CollectFails, CollectFails, Damage!DispatchFails, DispatchFails
  <2>8. Damage!Overlap => Overlap
      BY <2>1, <2>4, Zenon DEF Damage!Overlap, Overlap
  <2>9. Damage!Collected => Collected
      BY <2>1, <2>3, <2>4, Zenon DEF Damage!Collected, Collected
  <2> QED BY <2>5, <2>6, <2>7, <2>8, <2>9, Zenon DEF Damage!LaneStep, LaneStep
<1> QED BY <1>3, <1>4, <1>5, <1>6, Zenon DEF Damage!Next, Next

LEMMA LanesSteps ==
    ASSUME TypeOK, [LanesNext]_allVars
    PROVE  [Next]_vars /\ [Trio!Next]_(Trio!vars)
<1>1. Trio!vars = trioVars /\ Trio!vars' = trioVars'
    BY DEF Trio!vars, trioVars
<1>2. CASE part = "lane" /\ Next /\ UNCHANGED <<part, trioVars>>
    BY <1>1, <1>2
<1>3. CASE part = "damage" /\ Damage!Next /\ UNCHANGED <<part, trioVars>>
    BY <1>1, <1>3, DamageSteps
<1>4. CASE part \in {"trio", "late"} /\ Trio!Next /\ UNCHANGED <<part, vars>>
    BY <1>4
<1>5. CASE UNCHANGED allVars
    BY <1>1, <1>5 DEF allVars
<1> QED BY <1>2, <1>3, <1>4, <1>5, Zenon DEF LanesNext, TrioStops

LEMMA LanesParts == LanesSpec => Spec /\ Trio!Spec
<1>1. LanesInit => Init /\ Trio!Init
    BY DEF LanesInit
<1>2. Init => LaneAll
  <2> SUFFICES ASSUME Init PROVE LaneAll
      OBVIOUS
  <2> QED BY LaneStarts, LaneInvStarts DEF LaneAll
<1>3. LaneAll /\ [LanesNext]_allVars => LaneAll' /\ [Next]_vars /\ [Trio!Next]_(Trio!vars)
    BY LanesSteps, LaneAllKept DEF LaneAll
<1> QED BY <1>1, <1>2, <1>3, PTL DEF LanesSpec, Spec, Trio!Spec

(***************************************************************************)
(* For streams of any length, any number of runs and any number of         *)
(* timeouts: as long as no run was given up, what is printed as a result   *)
(* is of two lanes that have taken every step, and each task sends again   *)
(* its own request; also in a first run that is given up.                  *)
(***************************************************************************)
THEOREM TrioCompletes == LanesSpec => []TrioIsComplete
<1>1. Trio!Spec => []Trio!TrioIsComplete
    BY ControllerCompletes, LanesAssumption DEF LanesAssumption
<1>2. TypeOK /\ Trio!TrioIsComplete => TrioIsComplete
    BY DEF TrioIsComplete
<1> QED BY <1>1, <1>2, LanesParts, LaneTypes, PTL
=============================================================================
