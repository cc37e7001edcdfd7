--------------------------- MODULE QuarkPairProofs ---------------------------
(***************************************************************************)
(* Safety of the pair pipeline for streams of every length and any number  *)
(* of missed pulses, driver errors and resets: the shared frame, complete  *)
(* results, and the origin of every accepted result.                       *)
(***************************************************************************)
EXTENDS QuarkPair, TLAPS

InRun == m \notin {"idle", "boot"}

(***************************************************************************)
(* The master.  The stream in flight has a step to take; its frame is      *)
(* prepared until dispatch() ends and not again before collect() ends, so  *)
(* the one frame is free for the other stream in between.                  *)
(***************************************************************************)
MasterInv ==
    /\ \A s \in Streams : pos[s] <= Steps[s]
    /\ InRun => Active(pos, inflight) /\ outcome = "none"
    /\ InRun => \A s \in Streams : prepared[s] => tx = Frame(pos, s) /\ Active(pos, s)
    /\ m \in {"disp_hi", "disp_lo"} => prepared[inflight]
    /\ m \in {"overlap", "coll_hi", "coll_lo"} => ~prepared[inflight]
    /\ ResultIsComplete

\* The READY line, and when a finished transfer is still unacknowledged.
LineInv ==
    /\ w \in {"compute", "gap", "arm"} => ready = 0
    /\ w \in {"rx_done", "tx_done"} => ready = 1 /\ m \in {"disp_lo", "coll_lo", "boot"}

Started == \E s \in Streams : pos[s] # 0

Request == Frame(pos, inflight)

\* The worker holds the answer to the step in flight.
Answered(f) == f = Request /\ pos[inflight] \in cache[inflight]

(***************************************************************************)
(* Where the worker can stand, and what its buffers hold, at each point of *)
(* a run during which it was not reset.  A reply left over from an aborted *)
(* run exists only before the first dispatch, which drains it.             *)
(***************************************************************************)
LinkInv ==
    /\ \A s \in Streams : \A k \in Positions : k < pos[s] => k \in cache[s]
    /\ m = "disp_hi" /\ w \in {"compute", "tx"} => ~Started
    /\ m \in {"disp_lo", "overlap", "coll_hi"} =>
          /\ w \in {"rx_done", "compute"} => wrx = Request
          /\ w = "tx" => Answered(wtx)
    /\ m = "coll_lo" =>
          /\ rx = NoFrame \/ Answered(rx)
          /\ w \notin {"compute", "tx"}
          /\ w = "rx_done" => wrx = NoFrame

PairInv ==
    /\ MasterInv
    /\ LineInv
    /\ InRun /\ ~disturbed => LinkInv
    /\ AcceptedIsGenuine

-----------------------------------------------------------------------------
\* Positions reach from 0 to the end of the longer stream.
LEMMA PositionsRange ==
    /\ Positions \subseteq Nat
    /\ \A s \in Streams : Steps[s] \in Nat
    /\ \A s \in Streams : \A k \in Nat : k <= Steps[s] => k \in Positions
    /\ \A q \in Positions : \A k \in Nat : k <= q => k \in Positions
<1>1. Steps[0] \in Nat /\ Steps[1] \in Nat
    BY StepsAssumption DEF Streams
<1> QED BY <1>1 DEF Positions, Streams

LEMMA FrameType ==
    ASSUME NEW p \in [Streams -> Positions], NEW s \in Streams
    PROVE  Frame(p, s) \in Frames
<1>1. p[s] \in Positions /\ s \in 0..2
    BY DEF Streams
<1> QED BY <1>1 DEF Frame, Frames

LEMMA NoFrameType == NoFrame \in Frames
<1>1. 0 \in Positions
    BY PositionsRange, StepsAssumption DEF Streams
<1> QED BY <1>1 DEF NoFrame, Frames

LEMMA StaleType == ASSUME NEW f \in Frames PROVE Stale(f) \in Frames
BY DEF Stale, Frames

\* The other stream.
LEMMA OtherStream == ASSUME NEW s \in Streams PROVE 1 - s \in Streams /\ 1 - s # s
BY DEF Streams

\* A transfer moves the worker only to the end of what it had queued.
LEMMA TransferWorker ==
    ASSUME TypeOK, NEW f \in Frames, NEW got \in Frames, Transfer(f, got)
    PROVE  /\ ready = 1 /\ ready' = 1 /\ wtx' = wtx /\ cache' = cache
           /\ \/ w = "rx" /\ w' = "rx_done" /\ wrx' = f /\ got = NoFrame
              \/ w = "tx" /\ w' = "tx_done" /\ wrx' = wrx /\ got = wtx
              \/ w \notin {"rx", "tx"} /\ w' = w /\ wrx' = wrx /\ got = NoFrame
<1>1. CASE w = "rx"
    BY <1>1 DEF Transfer
<1>2. CASE w = "tx"
    BY <1>2 DEF Transfer
<1>3. CASE w \notin {"rx", "tx"}
    BY <1>3 DEF Transfer
<1> QED BY <1>1, <1>2, <1>3

\* What collect() does with an answer it accepts.
LEMMA ScheduleResult ==
    ASSUME NEW p \in [Streams -> Positions], TypeOK, Schedule(p)
    PROVE  /\ inflight' \in Streams
           /\ prepared' \in [Streams -> BOOLEAN]
           /\ tx' \in Frames
           /\ m' \in {"disp_hi", "idle"}
           /\ outcome' \in {outcome, "ok"}
<1>1. inflight \in Streams /\ tx \in Frames /\ prepared \in [Streams -> BOOLEAN]
    BY DEF TypeOK
<1>2. 1 - inflight \in Streams
    BY <1>1, OtherStream
<1>3. \A s \in Streams : Frame(p, s) \in Frames
    BY FrameType
<1> QED BY <1>1, <1>2, <1>3 DEF Schedule

-----------------------------------------------------------------------------
\* The steps, in the order in which the proofs below treat them.
LEMMA StepCases ==
    ASSUME [Next]_vars
    PROVE  \/ Run \/ DispatchTransfer \/ DispatchEnd \/ Overlap \/ CollectTransfer
           \/ CollectEnd \/ Timeout \/ TransferFails \/ MasterReset \/ MasterBoots
           \/ Arm \/ Received \/ Compute \/ ReplyNotQueued \/ Replied \/ GapEnds
           \/ BootReady \/ WorkerReset \/ UNCHANGED vars
BY DEF Next, MasterStep, WorkerStep

\* Types are kept; that no position leaves its range needs MasterInv.
LEMMA TypeStep ==
    ASSUME TypeOK, MasterInv, [Next]_vars
    PROVE  TypeOK'
<1> USE DEF TypeOK
<1>0. 0 \in Positions /\ 0 \in Streams
    BY PositionsRange, StepsAssumption DEF Streams
<1>g. ASSUME glitches < MaxGlitches, glitches' = glitches + 1
      PROVE  glitches' \in 0..MaxGlitches
  <2>1. glitches \in 0..MaxGlitches
      OBVIOUS
  <2>2. MaxGlitches \in Nat
      BY StepsAssumption
  <2> HIDE DEF TypeOK
  <2> QED BY <2>1, <2>2, <1>g
<1>r. ASSUME resets < MaxResets, resets' = resets + 1
      PROVE  resets' \in 0..MaxResets
  <2>1. resets \in 0..MaxResets
      OBVIOUS
  <2>2. MaxResets \in Nat
      BY StepsAssumption
  <2> HIDE DEF TypeOK
  <2> QED BY <2>1, <2>2, <1>r
<1>1. CASE Run
  <2>1. pos' \in [Streams -> Positions]
      BY <1>1, <1>0 DEF Run
  <2>2. tx' \in Frames
      BY <1>1, <1>0, <2>1, FrameType DEF Run
  <2> QED BY <1>1, <1>0, <2>1, <2>2, StaleType DEF Run
<1>2. CASE DispatchTransfer
  <2>1. PICK got \in Frames : Transfer(tx, got)
      BY <1>2 DEF DispatchTransfer
  <2>2. w' \in {"rx_done", "tx_done", w} /\ wrx' \in Frames /\ ready' = 1
        /\ wtx' = wtx /\ cache' = cache
      BY <2>1, TransferWorker
  <2> QED BY <1>2, <2>2 DEF DispatchTransfer, bounds
<1>3. CASE DispatchEnd
    BY <1>3 DEF DispatchEnd, worker, bounds
<1>4. CASE Overlap
  <2>1. Frame(pos, 1 - inflight) \in Frames /\ 1 - inflight \in Streams
      BY OtherStream, FrameType
  <2> QED BY <1>4, <2>1, NoFrameType DEF Overlap, worker, bounds
<1>5. CASE CollectTransfer
  <2>1. PICK got \in Frames : Transfer(NoFrame, got) /\ rx' = got
      BY <1>5 DEF CollectTransfer
  <2>2. w' \in {"rx_done", "tx_done", w} /\ wrx' \in Frames /\ ready' = 1
        /\ wtx' = wtx /\ cache' = cache
      BY <2>1, NoFrameType, TransferWorker
  <2> QED BY <1>5, <2>1, <2>2 DEF CollectTransfer, bounds
<1>6. CASE CollectEnd
  <2>1. CASE Accepts(rx)
    <3>1. pos[inflight] + 1 \in Positions
      <4>1. pos[inflight] \in Nat /\ Steps[inflight] \in Nat
          BY PositionsRange
      <4>2. pos[inflight] < Steps[inflight]
          BY <1>6 DEF CollectEnd, MasterInv, InRun, Active
      <4>3. inflight \in Streams
          OBVIOUS
      <4> HIDE DEF TypeOK
      <4> QED BY <4>1, <4>2, <4>3, PositionsRange
    <3>2. pos' \in [Streams -> Positions]
        BY <1>6, <2>1, <3>1 DEF CollectEnd
    <3>3. Schedule(pos')
        BY <1>6, <2>1 DEF CollectEnd
    <3>4. /\ inflight' \in Streams /\ prepared' \in [Streams -> BOOLEAN] /\ tx' \in Frames
          /\ m' \in {"disp_hi", "idle"} /\ outcome' \in {outcome, "ok"}
        BY <3>2, <3>3, ScheduleResult
    <3> QED BY <1>6, <2>1, <3>2, <3>4 DEF CollectEnd, worker, bounds
  <2>2. CASE ~Accepts(rx)
      BY <1>6, <2>2 DEF CollectEnd, Abort, worker, bounds
  <2> QED BY <2>1, <2>2
<1>7. CASE Timeout
    BY <1>7 DEF Timeout, Abort, worker, bounds
<1>8. CASE TransferFails
    BY <1>8, <1>g DEF TransferFails, Abort, worker
<1>9. CASE MasterReset
    BY <1>9, <1>r DEF MasterReset, worker
<1>10. CASE MasterBoots
    BY <1>10 DEF MasterBoots, worker, bounds
<1>11. CASE Arm
    BY <1>11, NoFrameType DEF Arm, master, bounds
<1>12. CASE Received
    BY <1>12 DEF Received, master, bounds
<1>13. ASSUME Forward
       PROVE  cache' \in [Streams -> SUBSET Positions] /\ wtx' \in Frames
    BY <1>13 DEF Forward, Frames
<1>14. CASE Compute
    BY <1>14, <1>13, <1>g DEF Compute, Forward, Unseen, master
<1>15. CASE ReplyNotQueued
    BY <1>15, <1>13, <1>g DEF ReplyNotQueued, Forward, master
<1>16. CASE Replied
    BY <1>16 DEF Replied, master, bounds
<1>17. CASE GapEnds
    BY <1>17, <1>g, NoFrameType DEF GapEnds, Unseen, master
<1>18. CASE BootReady
    BY <1>18 DEF BootReady, master, bounds
<1>19. CASE WorkerReset
    BY <1>19, <1>r, NoFrameType DEF WorkerReset, master
<1>20. CASE UNCHANGED vars
    BY <1>20 DEF vars, master, worker, bounds
<1> QED
    BY <1>1, <1>2, <1>3, <1>4, <1>5, <1>6, <1>7, <1>8, <1>9, <1>10, <1>11, <1>12,
       <1>14, <1>15, <1>16, <1>17, <1>18, <1>19, <1>20, StepCases

-----------------------------------------------------------------------------
\* A frame belongs to one stream only, so two prepared streams would need two.
LEMMA FrameStream ==
    ASSUME NEW p, NEW q, NEW s, NEW z, Frame(p, s) = Frame(q, z)
    PROVE  s = z
<1>1. Frame(p, s).stream = s /\ Frame(q, z).stream = z
    BY DEF Frame
<1> QED BY <1>1

LEMMA MasterInvStep ==
    ASSUME TypeOK, MasterInv, [Next]_vars
    PROVE  MasterInv'
<1> USE DEF MasterInv, InRun, ResultIsComplete
<1>0. /\ inflight \in Streams /\ 1 - inflight \in Streams /\ 1 - inflight # inflight
      /\ pos \in [Streams -> Positions] /\ prepared \in [Streams -> BOOLEAN]
      /\ \A s \in Streams : s = inflight \/ s = 1 - inflight
    BY OtherStream DEF TypeOK, Streams
<1>1. CASE Run
  <2>1. \A s \in Streams : 0 <= Steps[s] /\ 0 < Steps[s]
      BY StepsAssumption
  <2>2. /\ pos' = [s \in Streams |-> 0] /\ inflight' = 0 /\ m' = "disp_hi"
        /\ prepared' = [s \in Streams |-> s = 0] /\ tx' = Frame(pos', 0)
        /\ outcome' = "none"
      BY <1>1 DEF Run
  <2>3. 0 \in Streams
      BY DEF Streams
  <2> QED BY <2>1, <2>2, <2>3 DEF Active
<1>2. CASE DispatchTransfer
    BY <1>2 DEF DispatchTransfer, Active, Frame
<1>3. CASE DispatchEnd
    BY <1>0, <1>3 DEF DispatchEnd, Active, Frame
<1>4. CASE Overlap
  <2>1. /\ m = "overlap" /\ m' = "coll_hi" /\ pos' = pos /\ inflight' = inflight
        /\ outcome' = outcome
      BY <1>4 DEF Overlap
  <2>2. CASE Active(pos, 1 - inflight) /\ ~prepared[1 - inflight]
    <3>1. /\ prepared' = [prepared EXCEPT ![1 - inflight] = TRUE]
          /\ tx' = Frame(pos, 1 - inflight)
        BY <1>4, <2>2 DEF Overlap
    <3> QED BY <1>0, <2>1, <2>2, <3>1 DEF Active, Frame
  <2>3. CASE ~(Active(pos, 1 - inflight) /\ ~prepared[1 - inflight])
    <3>1. prepared' = prepared /\ tx' = tx
        BY <1>4, <2>3 DEF Overlap
    <3> QED BY <2>1, <3>1 DEF Active, Frame
  <2> QED BY <2>2, <2>3
<1>5. CASE CollectTransfer
    BY <1>5 DEF CollectTransfer, Active, Frame
<1>6. CASE CollectEnd
  <2>1. CASE Accepts(rx)
    <3> DEFINE q == [pos EXCEPT ![inflight] = @ + 1]
    <3>1. /\ m = "coll_lo" /\ pos' = q /\ Schedule(q)
        BY <1>6, <2>1 DEF CollectEnd
    <3>2. \A s \in Streams : q[s] <= Steps[s]
      <4>1. \A s \in Streams : pos[s] \in Nat /\ Steps[s] \in Nat
          BY <1>0, PositionsRange
      <4>2. pos[inflight] < Steps[inflight]
          BY <3>1 DEF Active
      <4> QED BY <1>0, <4>1, <4>2
    <3>3. /\ ~prepared[inflight] /\ outcome = "none"
          /\ prepared[1 - inflight] => /\ tx = Frame(pos, 1 - inflight)
                                       /\ Active(pos, 1 - inflight)
        BY <1>0, <3>1
    <3>4. Frame(q, 1 - inflight) = Frame(pos, 1 - inflight)
          /\ (Active(q, 1 - inflight) <=> Active(pos, 1 - inflight))
        BY <1>0 DEF Frame, Active
    <3>q. q \in [Streams -> Nat]
      <4>1. \A s \in Streams : pos[s] \in Nat
          BY <1>0, PositionsRange
      <4> QED BY <1>0, <4>1
    <3> HIDE DEF q
    <3>5. CASE prepared[1 - inflight]
      <4>1. /\ inflight' = 1 - inflight /\ m' = "disp_hi" /\ prepared' = prepared
            /\ tx' = tx /\ outcome' = outcome
          BY <3>1, <3>5 DEF Schedule
      <4> QED BY <1>0, <3>1, <3>2, <3>3, <3>4, <3>5, <4>1 DEF Active, Frame
    <3>6. CASE ~prepared[1 - inflight] /\ (Active(q, inflight) \/ Active(q, 1 - inflight))
      <4>1. PICK s \in Streams :
              /\ Active(q, s) /\ inflight' = s /\ m' = "disp_hi"
              /\ prepared' = [prepared EXCEPT ![s] = TRUE]
              /\ tx' = Frame(q, s) /\ outcome' = outcome
          BY <3>1, <3>6 DEF Schedule
      <4>2. \A z \in Streams : prepared'[z] => z = s
          BY <1>0, <3>3, <3>6, <4>1
      <4> QED BY <1>0, <3>1, <3>2, <3>3, <4>1, <4>2 DEF Active, Frame
    <3>7. CASE ~prepared[1 - inflight] /\ ~Active(q, inflight) /\ ~Active(q, 1 - inflight)
      <4>1. m' = "idle"
          BY <3>1, <3>7 DEF Schedule
      <4>2. \A s \in Streams : q[s] = Steps[s]
        <5>1. \A s \in Streams : q[s] \in Nat /\ Steps[s] \in Nat
            BY <3>q, PositionsRange
        <5>2. \A s \in Streams : ~(q[s] < Steps[s])
            BY <1>0, <3>7 DEF Active
        <5> QED BY <3>2, <5>1, <5>2
      <4> QED BY <3>1, <3>2, <4>1, <4>2
    <3> QED BY <3>5, <3>6, <3>7
  <2>2. CASE ~Accepts(rx)
      BY <1>6, <2>2 DEF CollectEnd, Abort
  <2> QED BY <2>1, <2>2
<1>7. CASE Timeout \/ TransferFails
    BY <1>7 DEF Timeout, TransferFails, Abort
<1>8. CASE MasterReset \/ MasterBoots
    BY <1>8 DEF MasterReset, MasterBoots
<1>9. CASE \/ Arm \/ Received \/ Compute \/ ReplyNotQueued \/ Replied \/ GapEnds
           \/ BootReady \/ WorkerReset \/ UNCHANGED vars
  <2>1. UNCHANGED master
      BY <1>9 DEF Arm, Received, Compute, ReplyNotQueued, Forward, Replied, GapEnds,
         BootReady, WorkerReset, vars
  <2> QED BY <2>1 DEF master, Active, Frame
<1> QED
    BY <1>1, <1>2, <1>3, <1>4, <1>5, <1>6, <1>7, <1>8, <1>9, StepCases

LEMMA LineInvStep ==
    ASSUME TypeOK, LineInv, [Next]_vars
    PROVE  LineInv'
<1> USE DEF LineInv
<1>1. CASE DispatchTransfer
  <2>1. PICK got \in Frames : Transfer(tx, got)
      BY <1>1 DEF DispatchTransfer
  <2>2. tx \in Frames
      BY DEF TypeOK
  <2> QED BY <1>1, <2>1, <2>2, TransferWorker DEF DispatchTransfer
<1>2. CASE CollectTransfer
  <2>1. PICK got \in Frames : Transfer(NoFrame, got)
      BY <1>2 DEF CollectTransfer
  <2> QED BY <1>2, <2>1, NoFrameType, TransferWorker DEF CollectTransfer
<1>3. CASE Run
    BY <1>3 DEF Run
<1>4. CASE DispatchEnd \/ Overlap
    BY <1>4 DEF DispatchEnd, Overlap, worker
<1>5. CASE CollectEnd
    BY <1>5 DEF CollectEnd, worker
<1>6. CASE Timeout
    BY <1>6 DEF Timeout, TimedOut, Blocked, worker
<1>7. CASE TransferFails
    BY <1>7 DEF TransferFails, worker
<1>8. CASE MasterReset
    BY <1>8 DEF MasterReset, worker
<1>9. CASE MasterBoots
    BY <1>9 DEF MasterBoots, Blocked, worker
<1>10. CASE Arm \/ Received \/ Replied \/ GapEnds \/ BootReady \/ WorkerReset
    BY <1>10 DEF Arm, Received, Replied, GapEnds, BootReady, WorkerReset, master
<1>11. CASE Compute \/ ReplyNotQueued
    BY <1>11 DEF Compute, ReplyNotQueued, Forward, master
<1>12. CASE UNCHANGED vars
    BY <1>12 DEF vars, master, worker
<1> QED
    BY <1>1, <1>2, <1>3, <1>4, <1>5, <1>6, <1>7, <1>8, <1>9, <1>10, <1>11, <1>12,
       StepCases

-----------------------------------------------------------------------------
\* NoFrame belongs to no stream, so collect() never takes it for an answer.
LEMMA NoFrameRefused == ASSUME TypeOK PROVE ~Accepts(NoFrame)
BY DEF TypeOK, Accepts, NoFrame, Streams

\* The worker computes the step in flight over a complete prefix.
LEMMA ForwardAnswers ==
    ASSUME TypeOK, LinkInv, Forward, wrx = Request
    PROVE  /\ wtx' = Request
           /\ cache' = [cache EXCEPT ![inflight] = @ \cup {pos[inflight]}]
<1>1. /\ inflight \in Streams /\ pos[inflight] \in Positions /\ pos[inflight] \in Nat
      /\ cache \in [Streams -> SUBSET Positions]
    BY PositionsRange DEF TypeOK
<1>2. wrx = [stream |-> inflight, pos |-> pos[inflight], good |-> TRUE]
    BY DEF Request, Frame
<1> DEFINE c == cache[inflight] \cup {pos[inflight]}
<1>3. cache' = [cache EXCEPT ![inflight] = c] /\ wtx' = [wrx EXCEPT !.good = (0..pos[inflight]) \subseteq c]
    BY <1>2 DEF Forward
<1>4. (0..pos[inflight]) \subseteq c
  <2>1. SUFFICES ASSUME NEW k \in 0..pos[inflight]
                 PROVE  k \in c
      OBVIOUS
  <2>2. CASE k = pos[inflight]
      BY <2>2
  <2>3. CASE k # pos[inflight]
    <3>1. k \in Nat /\ k < pos[inflight]
        BY <1>1, <2>3
    <3>2. k \in Positions
        BY <1>1, <3>1, PositionsRange
    <3>3. k \in cache[inflight]
        BY <1>1, <3>1, <3>2 DEF LinkInv
    <3> QED BY <3>3
  <2> QED BY <2>2, <2>3
<1>5. ((0..pos[inflight]) \subseteq c) = TRUE
    BY <1>4
<1>6. [wrx EXCEPT !.good = TRUE] = wrx
  <2>1. wrx \in Frames /\ wrx.good = TRUE
      BY <1>2 DEF TypeOK
  <2>2. \A f \in Frames : f.good = TRUE => [f EXCEPT !.good = TRUE] = f
      BY DEF Frames
  <2> QED BY <2>1, <2>2
<1>7. wtx' = wrx
  <2>1. wtx' = [wrx EXCEPT !.good = (0..pos[inflight]) \subseteq c]
      BY <1>3
  <2> HIDE DEF c
  <2> QED BY <2>1, <1>5, <1>6
<1> QED BY <1>3, <1>7

LEMMA LinkInvStep ==
    ASSUME TypeOK, TypeOK', PairInv, [Next]_vars, InRun', ~disturbed'
    PROVE  LinkInv'
<1> USE DEF InRun
<1>0. /\ inflight \in Streams /\ pos \in [Streams -> Positions]
      /\ cache \in [Streams -> SUBSET Positions]
      /\ \A s \in Streams : pos[s] \in Nat
    BY PositionsRange DEF TypeOK
<1>1. CASE Run
  <2>1. /\ m' = "disp_hi" /\ pos' = [s \in Streams |-> 0]
      BY <1>1 DEF Run
  <2>2. ~(\E s \in Streams : pos'[s] # 0)
      BY <2>1
  <2>3. \A k \in Positions : ~(k < 0)
      BY PositionsRange
  <2> QED BY <2>1, <2>2, <2>3 DEF LinkInv, Started
<1>r. ASSUME ~Run, m # "idle", m # "boot" PROVE LinkInv /\ MasterInv /\ LineInv
  <2>1. ~disturbed
      BY <1>r, StepCases DEF DispatchTransfer, DispatchEnd, Overlap, CollectTransfer,
         CollectEnd, Timeout, TransferFails, MasterReset, MasterBoots, Arm, Received,
         Compute, ReplyNotQueued, Forward, Replied, GapEnds, BootReady, WorkerReset,
         vars, bounds
  <2> QED BY <1>r, <2>1 DEF PairInv
<1>2. CASE DispatchTransfer
  <2>1. PICK got \in Frames : Transfer(tx, got)
      BY <1>2 DEF DispatchTransfer
  <2>2. /\ m = "disp_hi" /\ m' = "disp_lo" /\ pos' = pos /\ inflight' = inflight
      BY <1>2 DEF DispatchTransfer
  <2>3. LinkInv /\ MasterInv /\ LineInv
      BY <1>r, <2>2 DEF Run
  <2>4. tx = Request /\ tx \in Frames
      BY <1>0, <2>2, <2>3 DEF MasterInv, Request, TypeOK
  <2>5. /\ ready = 1 /\ cache' = cache
        /\ \/ w' = "rx_done" /\ wrx' = tx
           \/ w' = "tx_done"
           \/ w' = w /\ w \notin {"rx", "tx"}
      BY <2>1, <2>4, TransferWorker
  <2>6. w' \in {"rx_done", "compute"} => wrx' = Request
      BY <2>2, <2>3, <2>4, <2>5 DEF LineInv
  <2> QED BY <2>2, <2>3, <2>5, <2>6 DEF LinkInv, Request, Frame
<1>3. CASE DispatchEnd \/ Overlap
  <2>1. /\ m \in {"disp_lo", "overlap"} /\ m' \in {"overlap", "coll_hi"}
        /\ pos' = pos /\ inflight' = inflight /\ UNCHANGED worker
      BY <1>3 DEF DispatchEnd, Overlap
  <2>2. LinkInv
      BY <1>r, <2>1 DEF Run
  <2> QED BY <2>1, <2>2 DEF LinkInv, Request, Frame, Answered, worker
<1>4. CASE CollectTransfer
  <2>1. PICK got \in Frames : Transfer(NoFrame, got) /\ rx' = got
      BY <1>4 DEF CollectTransfer
  <2>2. /\ m = "coll_hi" /\ m' = "coll_lo" /\ pos' = pos /\ inflight' = inflight
      BY <1>4 DEF CollectTransfer
  <2>3. LinkInv /\ LineInv
      BY <1>r, <2>2 DEF Run
  <2>4. /\ ready = 1 /\ cache' = cache
        /\ \/ w = "rx" /\ w' = "rx_done" /\ wrx' = NoFrame /\ got = NoFrame
           \/ w = "tx" /\ w' = "tx_done" /\ got = wtx
           \/ w \notin {"rx", "tx"} /\ w' = w /\ got = NoFrame
      BY <2>1, NoFrameType, TransferWorker
  <2>5. rx' = NoFrame \/ Answered(rx)'
      BY <2>1, <2>2, <2>3, <2>4 DEF LinkInv, Answered, Request, Frame
  <2>6. w' \notin {"compute", "tx"} /\ (w' = "rx_done" => wrx' = NoFrame)
      BY <2>2, <2>3, <2>4 DEF LineInv
  <2> QED BY <2>2, <2>3, <2>4, <2>5, <2>6 DEF LinkInv
<1>5. CASE CollectEnd
  <2>1. m = "coll_lo" /\ UNCHANGED worker
      BY <1>5 DEF CollectEnd
  <2>2. LinkInv
      BY <1>r, <2>1 DEF Run
  <2>3. Accepts(rx)
      BY <1>5 DEF CollectEnd, Abort
  <2>4. pos' = [pos EXCEPT ![inflight] = @ + 1] /\ Schedule(pos')
      BY <1>5, <2>3 DEF CollectEnd
  <2>5. m' = "disp_hi"
      BY <2>4, ScheduleResult DEF TypeOK
  <2>6. pos[inflight] \in cache[inflight]
      BY <2>1, <2>2, <2>3, NoFrameRefused DEF LinkInv, Answered
  <2>7. \A s \in Streams : \A k \in Positions : k < pos'[s] => k \in cache[s]
    <3>1. SUFFICES ASSUME NEW s \in Streams, NEW k \in Positions, k < pos'[s]
                   PROVE  k \in cache[s]
        OBVIOUS
    <3>2. k \in Nat
        BY PositionsRange
    <3>3. k < pos[s] \/ (s = inflight /\ k = pos[inflight])
        BY <1>0, <2>4, <3>1, <3>2
    <3> QED BY <2>2, <2>6, <3>3 DEF LinkInv
  <2>8. w \notin {"compute", "tx"}
      BY <2>1, <2>2 DEF LinkInv
  <2> QED BY <2>1, <2>5, <2>7, <2>8 DEF LinkInv, worker
<1>6. CASE Timeout \/ TransferFails \/ MasterReset \/ MasterBoots \/ WorkerReset
    BY <1>6 DEF Timeout, TransferFails, Abort, MasterReset, MasterBoots, WorkerReset
<1>7. CASE Arm \/ Replied \/ GapEnds \/ BootReady
  <2>1. /\ UNCHANGED master /\ cache' = cache
        /\ w' \in {"rx", "gap"} \/ (w' = w /\ wrx' = wrx /\ wtx' = wtx)
      BY <1>7 DEF Arm, Replied, GapEnds, BootReady
  <2>2. m # "idle" /\ m # "boot"
      BY <2>1 DEF master
  <2>3. LinkInv
      BY <1>7, <1>r, <2>2 DEF Run
  <2> QED BY <2>1, <2>3 DEF LinkInv, master, Started, Request, Frame, Answered
<1>8. CASE Received
  <2>1. /\ w = "rx_done" /\ UNCHANGED <<wrx, wtx, cache>> /\ UNCHANGED master
        /\ w' = IF wrx.stream \in Streams THEN "compute" ELSE "arm"
      BY <1>8 DEF Received
  <2>2. m # "idle" /\ m # "boot"
      BY <2>1 DEF master
  <2>3. LinkInv /\ LineInv
      BY <1>r, <2>2 DEF Run
  <2>4. m \in {"disp_lo", "coll_lo"}
      BY <2>1, <2>2, <2>3 DEF LineInv
  <2>5. m = "coll_lo" => w' = "arm"
      BY <2>1, <2>3 DEF LinkInv, NoFrame, Streams
  <2> QED BY <2>1, <2>3, <2>4, <2>5 DEF LinkInv, master, Request, Frame, Answered
<1>9. CASE Compute \/ ReplyNotQueued
  <2>1. /\ Forward /\ w = "compute" /\ w' \in {"tx", "arm"} /\ UNCHANGED master
        /\ wrx' = wrx
      BY <1>9 DEF Compute, ReplyNotQueued, Forward
  <2>2. m # "idle" /\ m # "boot"
      BY <2>1 DEF master
  <2>3. LinkInv
      BY <1>9, <1>r, <2>2 DEF Run
  <2>4. CASE m = "disp_hi"
    <3>1. \A s \in Streams : pos[s] = 0
        BY <2>1, <2>3, <2>4 DEF LinkInv, Started
    <3>2. \A k \in Positions : ~(k < 0)
        BY PositionsRange
    <3> QED BY <2>1, <2>4, <3>1, <3>2 DEF LinkInv, master, Started
  <2>5. CASE m # "disp_hi"
    <3>1. m \in {"disp_lo", "overlap", "coll_hi"}
        BY <2>1, <2>2, <2>3, <2>5 DEF LinkInv, TypeOK
    <3>2. wrx = Request
        BY <2>1, <2>3, <3>1 DEF LinkInv
    <3>3. /\ wtx' = Request
          /\ cache' = [cache EXCEPT ![inflight] = @ \cup {pos[inflight]}]
        BY <2>1, <2>3, <3>2, ForwardAnswers
    <3>4. Request' = Request /\ m' = m /\ pos' = pos /\ inflight' = inflight
        BY <2>1 DEF master, Request, Frame
    <3>5. \A s \in Streams : \A k \in Positions : k < pos[s] => k \in cache'[s]
        BY <1>0, <2>3, <3>3 DEF LinkInv
    <3>6. pos[inflight] \in cache'[inflight]
        BY <1>0, <3>3
    <3> QED BY <2>1, <3>1, <3>3, <3>4, <3>5, <3>6 DEF LinkInv, Answered
  <2> QED BY <2>4, <2>5
<1>10. CASE UNCHANGED vars
  <2>1. UNCHANGED master /\ UNCHANGED worker
      BY <1>10 DEF vars
  <2>2. m # "idle" /\ m # "boot"
      BY <2>1 DEF master
  <2>3. CASE Run
      BY <1>1, <2>3
  <2>4. CASE ~Run
    <3>1. LinkInv
        BY <1>r, <2>2, <2>4
    <3> QED BY <2>1, <3>1 DEF LinkInv, master, worker, Started, Request, Frame, Answered
  <2> QED BY <2>3, <2>4
<1> QED
    BY <1>1, <1>2, <1>3, <1>4, <1>5, <1>6, <1>7, <1>8, <1>9, <1>10, StepCases

\* A result is accepted only from the receive buffer LinkInv describes.
LEMMA GenuineStep ==
    ASSUME TypeOK, PairInv, [Next]_vars
    PROVE  AcceptedIsGenuine'
<1> USE DEF AcceptedIsGenuine
<1>1. CASE Run
    BY <1>1 DEF Run
<1>2. CASE CollectEnd
  <2>1. m = "coll_lo" /\ disturbed' = disturbed
      BY <1>2 DEF CollectEnd, bounds
  <2>2. CASE Accepts(rx) /\ ~disturbed
    <3>1. rx = Request
        BY <2>1, <2>2, NoFrameRefused DEF PairInv, InRun, LinkInv, Answered
    <3>2. rx.good
        BY <3>1 DEF Request, Frame
    <3> QED BY <1>2, <2>2, <3>2 DEF CollectEnd, PairInv
  <2>3. CASE ~Accepts(rx)
      BY <1>2, <2>1, <2>3 DEF CollectEnd, Abort, PairInv
  <2> QED BY <2>1, <2>2, <2>3
<1>3. CASE Timeout \/ TransferFails \/ MasterReset \/ MasterBoots
    BY <1>3 DEF Timeout, TransferFails, Abort, MasterReset, MasterBoots, bounds, PairInv
<1>4. CASE DispatchTransfer \/ DispatchEnd \/ Overlap \/ CollectTransfer
    BY <1>4 DEF DispatchTransfer, DispatchEnd, Overlap, CollectTransfer, bounds, PairInv
<1>5. CASE Arm \/ Received \/ Compute \/ ReplyNotQueued \/ Replied \/ GapEnds \/ BootReady
    BY <1>5 DEF Arm, Received, Compute, ReplyNotQueued, Forward, Replied, GapEnds,
       BootReady, master, bounds, PairInv
<1>6. CASE WorkerReset
    BY <1>6 DEF WorkerReset
<1>7. CASE UNCHANGED vars
    BY <1>7 DEF vars, master, bounds, PairInv
<1> QED BY <1>1, <1>2, <1>3, <1>4, <1>5, <1>6, <1>7, StepCases

LEMMA PairInvInit == Init => TypeOK /\ PairInv
<1> SUFFICES ASSUME Init PROVE TypeOK /\ PairInv
    OBVIOUS
<1> USE DEF Init
<1>1. 0 \in Streams /\ 0 \in Positions /\ MaxGlitches \in Nat /\ MaxResets \in Nat
    BY PositionsRange, StepsAssumption DEF Streams
<1>2. TypeOK
  <2>1. glitches \in 0..MaxGlitches /\ resets \in 0..MaxResets
      BY <1>1
  <2>2. pos \in [Streams -> Positions] /\ cache \in [Streams -> SUBSET Positions]
      BY <1>1
  <2> QED BY <1>1, <2>1, <2>2, NoFrameType DEF TypeOK
<1>3. \A s \in Streams : 0 <= Steps[s]
    BY StepsAssumption
<1>4. MasterInv
    BY <1>3 DEF MasterInv, InRun, ResultIsComplete
<1> QED BY <1>2, <1>4 DEF PairInv, LineInv, InRun, AcceptedIsGenuine

LEMMA PairInvStep == TypeOK /\ PairInv /\ [Next]_vars => TypeOK' /\ PairInv'
<1> SUFFICES ASSUME TypeOK, PairInv, [Next]_vars PROVE TypeOK' /\ PairInv'
    OBVIOUS
<1>1. MasterInv /\ LineInv
    BY DEF PairInv
<1>2. TypeOK'
    BY <1>1, TypeStep
<1>3. MasterInv' /\ LineInv'
    BY <1>1, MasterInvStep, LineInvStep
<1>4. InRun' /\ ~disturbed' => LinkInv'
    BY <1>2, LinkInvStep
<1>5. AcceptedIsGenuine'
    BY GenuineStep
<1> QED BY <1>2, <1>3, <1>4, <1>5 DEF PairInv

LEMMA PairInvariant == Spec => [](TypeOK /\ PairInv)
BY PairInvInit, PairInvStep, PTL DEF Spec

-----------------------------------------------------------------------------
\* Types; in particular no stream's position passes the end of its sequence,
\* whatever the link loses (prepare and collect, quark_pair_pipeline.ino).
THEOREM PairTypeCorrect == Spec => []TypeOK
BY PairInvariant, PTL

\* The two streams share the one tx_frame and never overwrite each other's
\* frame between prepare() and the end of dispatch().
THEOREM FrameIntact == Spec => []PreparedFrameIntact
<1>1. TypeOK /\ PairInv => PreparedFrameIntact
    BY DEF PairInv, MasterInv, InRun, PreparedFrameIntact
<1> QED BY <1>1, PairInvariant, PTL

\* A run that reports a result has taken every step of both streams, for
\* every length of the streams and every schedule of run_pipeline.
THEOREM RunComplete == Spec => []ResultIsComplete
<1>1. TypeOK /\ PairInv => ResultIsComplete
    BY DEF PairInv, MasterInv
<1> QED BY <1>1, PairInvariant, PTL

\* While the worker does not restart, collect() accepts only results of this
\* run's requests over this run's prefix: comparing stream and sequence is
\* enough, although frames carry no run number and caches survive runs.
THEOREM Genuine == Spec => []AcceptedIsGenuine
<1>1. TypeOK /\ PairInv => AcceptedIsGenuine
    BY DEF PairInv
<1> QED BY <1>1, PairInvariant, PTL
=============================================================================
