------------------------------ MODULE ParetoRing ------------------------------
(***************************************************************************)
(* The ring of paretoq_node.ino as the accepted benchmark uses it: the     *)
(* master sends one packet at a time, every stage processes it if it is    *)
(* meant and sends it on, the relay only sends it on, and the packet comes *)
(* back to the master as the reply.  A stage's READY line is high while a  *)
(* slave transaction is queued.                                            *)
(*                                                                         *)
(* A command is SELECTTEST or BENCH ONE.  What travels is a reset, then of *)
(* BENCH ONE for each position one RunLayers per stage, and to select a    *)
(* token the hidden vector to all and one CollectLogits per stage.  The    *)
(* scan of a stage's rows runs in a task of its own on the other core, so  *)
(* that the stage can pass packets on.                                     *)
(***************************************************************************)
EXTENDS Naturals

CONSTANTS
    Stages,     \* compute stages behind the master (4)
    Inputs,     \* tokens of the prompt of BENCH ONE, or 0: SELECTTEST
    Outputs,    \* tokens it generates
    MaxDamage,  \* bound of the model: packets damaged on a link, and flash
                \* regions that a node cannot map
    MaxTimeouts,\* bound of the model: a ring transfer that takes too long
    MaxIdle,    \* bound of the model: times ten minutes pass on an armed stage
    SeqMod,     \* sequences are counted modulo SeqMod (2^32)
    Patient     \* the host waits a few seconds after a command that failed

Compute == 1..Stages
Relay == Stages + 1
Nodes == 1..Relay
Broadcast == 255

RingAssumption ==
    /\ Stages \in Nat \ {0} /\ Stages < Broadcast
    /\ Inputs \in Nat /\ Outputs \in Nat \ {0}
    /\ MaxDamage \in Nat /\ MaxTimeouts \in Nat /\ MaxIdle \in Nat
    /\ SeqMod \in Nat /\ SeqMod > 1
    /\ Patient \in BOOLEAN

\* What the slave driver holds: a transaction on the peripheral and queue_size,
\* which is 1, behind it; queue_incoming waits for room.
InAir == 2

VARIABLES
    m,          \* the master: "idle", "send", "sending", "wait", and "unsent",
                \* which is "wait" after a request that could not be sent
    step,       \* its request, counted from the reset of the command
    inReady,    \* kInReady of the master
    seq,        \* g_spi_sequence
    reply,      \* g_spi_reply
    outcome,    \* how the last command ended
    hidden,     \* g_transfer_hidden_bf16 was computed in this command only
    genuine,    \* the logits accepted are of the hidden vector of this selection
    node,       \* what each stage does
    cache,      \* positions whose keys and values a stage has of this command
    pkt,        \* g_spi_request, or g_spi_reply, of each stage
    job,        \* logits_service of each stage
    left,       \* slave transactions, by node, 0 the master, that a wait gave
                \* up and that are still with the driver
    damage, timeouts

master == <<m, step, inReady, seq, reply, outcome, hidden, genuine>>
vars == <<master, node, pkt, cache, job, left, damage, timeouts>>

(***************************************************************************)
(* own: the packet is the master's present request, or the answer to it.   *)
(* good: its vector was computed in the present command only, its logit    *)
(* from the hidden vector of the present selection only.  Bad is a packet  *)
(* whose checksum does not fit, or none.                                   *)
(***************************************************************************)
Bad == [kind |-> "bad", target |-> 0, source |-> 0, seq |-> 0, pos |-> 0, own |-> FALSE, good |-> FALSE]

Packets ==
    [kind: {"bad", "reset", "layers", "start", "collect", "reply"}, target: Compute \cup {0, Broadcast},
     source: Compute \cup {0}, seq: 0..SeqMod - 1, pos: 0..Inputs + Outputs,
     own: BOOLEAN, good: BOOLEAN]

(***************************************************************************)
(* hidden: g_logits_hidden_bf16 is of the present selection; notified: the *)
(* task has its notification; using: what the running scan reads ("none"   *)
(* if none runs); done: g_logits_done; good: the result's; ok: g_logits_   *)
(* job_ok.                                                                 *)
(***************************************************************************)
NoJob == [hidden |-> FALSE, notified |-> FALSE, using |-> "none", done |-> FALSE, good |-> FALSE, ok |-> FALSE]

\* Mutant: the prompt's tokens before its last are not fed.
PrefillNone == 0 * Stages

\* The requests of a command: those of the positions before the last of the
\* prompt, then for every token those of its position and of its selection.
Prefill == (Inputs - 1) * Stages
Round == 2 * Stages + 1
LastRequest == Prefill + Outputs * Round

TypeOK ==
    /\ m \in {"idle", "send", "sending", "wait", "unsent"}
    /\ step \in 0..LastRequest
    /\ inReady \in BOOLEAN
    /\ seq \in 0..SeqMod - 1
    /\ reply \in Packets
    /\ outcome \in {"none", "ok", "error"}
    /\ hidden \in BOOLEAN /\ genuine \in BOOLEAN
    /\ cache \in [Compute -> SUBSET (0..Inputs + Outputs)]
    /\ node \in [Nodes -> {"armed", "got", "starting", "send", "blocked"}]
    /\ left \in [Nodes \cup {0} -> 0..InAir]
    /\ pkt \in [Nodes -> Packets]
    /\ job \in [Compute -> [hidden: BOOLEAN, notified: BOOLEAN, using: {"none", "present", "other"},
                            done: BOOLEAN, good: BOOLEAN, ok: BOOLEAN]]
    /\ damage \in 0..MaxDamage /\ timeouts \in 0..MaxTimeouts

\* STARTBUS has been sent to every stage.
Init ==
    /\ m = "idle" /\ step = 0 /\ inReady = FALSE /\ seq = 0 /\ reply = Bad
    /\ outcome = "none" /\ hidden = TRUE /\ genuine = TRUE
    /\ node = [n \in Nodes |-> "armed"]
    /\ pkt = [n \in Nodes |-> Bad]
    /\ cache = [n \in Compute |-> {}]
    /\ job = [n \in Compute |-> NoJob]
    /\ left = [n \in Nodes \cup {0} |-> 0]
    /\ damage = 0 /\ timeouts = 0

Arrives(p, sent) ==
    \/ p = sent /\ damage' = damage
    \/ p = Bad /\ damage < MaxDamage /\ damage' = damage + 1

-----------------------------------------------------------------------------
\* The master.

Message(kind, target, pos) ==
    [kind |-> kind, target |-> target, source |-> 0, seq |-> seq, pos |-> pos,
     own |-> TRUE, good |-> kind = "layers" /\ hidden]

\* master_forward_layers asks the stages in turn; master_select_token sends the
\* vector to all and asks them in turn again.
Request(s) ==
    LET done == s - 1 - Prefill
        k == done % Round
    IN  IF s = 0 THEN Message("reset", Broadcast, 0)
        ELSE IF done < 0 THEN Message("layers", ((s - 1) % Stages) + 1, (s - 1) \div Stages)
        ELSE IF k < Stages THEN Message("layers", k + 1, Inputs - 1 + (done \div Round))
        ELSE IF k = Stages THEN Message("start", Broadcast, 0)
        ELSE Message("collect", k - Stages, 0)

Disowned(p) == [p EXCEPT !.own = FALSE]

\* A scan takes seconds.
ScansOver == \A n \in Compute : ~job[n].notified /\ job[n].using = "none"

\* A command begins: what is left of earlier ones is not of it.
Command ==
    /\ m = "idle"
    /\ Patient => ScansOver
    /\ m' = "send" /\ step' = 0 /\ outcome' = "none" /\ hidden' = TRUE /\ genuine' = TRUE
    /\ pkt' = [n \in Nodes |-> [pkt[n] EXCEPT !.good = FALSE, !.own = FALSE]]
    /\ reply' = Bad
    /\ cache' = [n \in Compute |-> {}]
    /\ UNCHANGED <<inReady, seq, node, job, left, damage, timeouts>>

\* What the stages have of an earlier selection is not of the one that starts.
Earlier(j) == [j EXCEPT !.hidden = FALSE, !.good = FALSE, !.using = IF @ = "none" THEN @ ELSE "other"]

\* queue_incoming raises READY, if the driver has room.
QueueIncoming ==
    /\ m = "send" /\ left[0] < InAir
    /\ m' = "sending" /\ inReady' = TRUE
    /\ seq' = (seq + 1) % SeqMod
    /\ reply' = Bad
    /\ pkt' = [n \in Nodes |-> Disowned(pkt[n])]
    /\ job' = IF Request(step).kind = "start" THEN [n \in Compute |-> Earlier(job[n])] ELSE job
    /\ UNCHANGED <<step, outcome, hidden, genuine, node, cache, left, damage, timeouts>>

\* send_downstream, to a first stage that is armed; it gives up on one that
\* stays blocked, and master_ring_transfer waits for a packet all the same.
SendDownstream ==
    /\ m = "sending"
    /\ \/ /\ node[1] = "armed"
          /\ m' = "wait"
          /\ node' = [node EXCEPT ![1] = "got"]
          /\ \E p \in {Request(step), Bad} : pkt' = [pkt EXCEPT ![1] = p] /\ Arrives(p, Request(step))
       \/ /\ node[1] = "blocked"
          /\ m' = "unsent"
          /\ UNCHANGED <<node, pkt, damage>>
    /\ UNCHANGED <<step, inReady, seq, reply, outcome, hidden, genuine, cache, job, left, timeouts>>

Fails ==
    /\ m' = "idle" /\ outcome' = "error" /\ inReady' = FALSE
    /\ UNCHANGED <<step, hidden, genuine, seq, reply>>

\* response_required.
Expected == Request(step).kind \in {"layers", "collect"}

\* Mutant: the sequence is not compared.
AnswersAnySequence(p) ==
    /\ p.kind # "bad"
    /\ Expected => p.kind = "reply" /\ p.source = Request(step).target

\* The tests of master_send: checksum and sequence, and of a response its
\* source and kind.
Answers(p) ==
    /\ p.kind # "bad" /\ p.seq = seq
    /\ Expected => p.kind = "reply" /\ p.source = Request(step).target

\* finish_incoming returned a transaction; it lowers READY.
Completes ==
    /\ m \in {"wait", "unsent"} /\ ~inReady
    /\ \/ /\ m = "wait" /\ Answers(reply)
          /\ hidden' = (hidden /\ (Request(step).kind = "layers" => reply.good))
          /\ genuine' = (genuine /\ (Request(step).kind = "collect" => reply.good))
          /\ IF step = LastRequest
               THEN m' = "idle" /\ outcome' = "ok" /\ step' = step
               ELSE m' = "send" /\ step' = step + 1 /\ outcome' = outcome
          /\ UNCHANGED <<inReady, seq, reply>>
       \/ (m = "unsent" \/ ~Answers(reply)) /\ Fails
    /\ UNCHANGED <<node, pkt, cache, job, left, damage, timeouts>>

\* The master cannot map a region of its own flash: its layers or an embedding
\* fail before it asks the first stage, or its scan before it collects there.
OwnPartFails ==
    /\ m = "send"
    /\ step = 1 \/ Request(step).target = 1
    /\ damage < MaxDamage /\ damage' = damage + 1
    /\ Fails
    /\ UNCHANGED <<node, pkt, cache, job, left, timeouts>>

\* No packet is on its way to the master, and ten minutes are over.
Lost == (\A n \in Nodes : node[n] \in {"armed", "blocked"}) /\ ScansOver

\* finish_incoming gives up: the packet was lost, or is only late.  Its
\* transaction stays with the driver.
TimesOut ==
    /\ m \in {"wait", "unsent"} /\ inReady
    /\ \/ Lost /\ timeouts' = timeouts
       \/ ~Lost /\ timeouts < MaxTimeouts /\ timeouts' = timeouts + 1
    /\ left' = [left EXCEPT ![0] = @ + 1]
    /\ Fails
    /\ UNCHANGED <<node, pkt, cache, job, damage>>

-----------------------------------------------------------------------------
\* Stage n: worker_service and worker_process.

Targeted(n) == pkt[n].target \in {n, Broadcast} /\ n # Relay

\* A packet that is damaged is dropped; one that is not for the stage goes on.
Passes(n) ==
    /\ node[n] = "got"
    /\ \/ pkt[n].kind = "bad" /\ node' = [node EXCEPT ![n] = "armed"]
       \/ /\ pkt[n].kind # "bad"
          /\ ~Targeted(n)
          /\ node' = [node EXCEPT ![n] = "send"]
    /\ UNCHANGED <<master, pkt, cache, job, left, damage, timeouts>>

\* reset_local_cache.
Reset(n) ==
    /\ node[n] = "got" /\ Targeted(n) /\ pkt[n].kind = "reset"
    /\ node' = [node EXCEPT ![n] = "send"]
    /\ cache' = [cache EXCEPT ![n] = {}]
    /\ UNCHANGED <<master, pkt, job, left, damage, timeouts>>

\* The packet becomes the reply, with a vector or a logit.
Replied(n, good) ==
    [pkt EXCEPT ![n].kind = "reply", ![n].target = 0, ![n].source = n, ![n].good = good]

\* run_local_layers computes from the vector that came and from the entries of
\* every earlier position.
OverOwnEntries(n) == pkt[n].good /\ 0..(pkt[n].pos - 1) \subseteq cache[n]

\* The entry of this position is written.  A layer that cannot be mapped leaves
\* one of no worth, and the request goes on as it came.
Layers(n) ==
    LET p == pkt[n].pos
        good == OverOwnEntries(n)
    IN  /\ node[n] = "got" /\ Targeted(n) /\ pkt[n].kind = "layers"
        /\ node' = [node EXCEPT ![n] = "send"]
        /\ \/ /\ pkt' = Replied(n, good)
              /\ cache' = [cache EXCEPT ![n] = IF good THEN @ \cup {p} ELSE @ \ {p}]
              /\ damage' = damage
           \/ /\ damage < MaxDamage /\ damage' = damage + 1
              /\ cache' = [cache EXCEPT ![n] = @ \ {p}]
              /\ pkt' = pkt
        /\ UNCHANGED <<master, job, left, timeouts>>

\* Mutants: a result that was not collected stays; the task is notified before
\* the hidden vector is copied.
DrainNot(n) ==
    /\ node[n] = "got" /\ Targeted(n) /\ pkt[n].kind = "start"
    /\ node' = [node EXCEPT ![n] = "starting"]
    /\ UNCHANGED <<master, pkt, cache, job, left, damage, timeouts>>

DrainNotifies(n) ==
    /\ node[n] = "got" /\ Targeted(n) /\ pkt[n].kind = "start"
    /\ node' = [node EXCEPT ![n] = "starting"]
    /\ job' = [job EXCEPT ![n].done = FALSE, ![n].notified = TRUE]
    /\ UNCHANGED <<master, pkt, cache, left, damage, timeouts>>

\* StartLogits: a result that was not collected is drained.
Drain(n) ==
    /\ node[n] = "got" /\ Targeted(n) /\ pkt[n].kind = "start"
    /\ node' = [node EXCEPT ![n] = "starting"]
    /\ job' = [job EXCEPT ![n].done = FALSE]
    /\ UNCHANGED <<master, pkt, cache, left, damage, timeouts>>

\* Then the hidden vector is copied, under a scan that may still run, and the
\* task is notified.
StartScan(n) ==
    /\ node[n] = "starting"
    /\ node' = [node EXCEPT ![n] = "send"]
    /\ job' = [job EXCEPT ![n].hidden = pkt[n].own, ![n].notified = TRUE, ![n].ok = FALSE,
                          ![n].using = IF @ = "none" THEN @ ELSE "other"]
    /\ UNCHANGED <<master, pkt, cache, left, damage, timeouts>>

\* CollectLogits: the stage waits for the result (never for as long as the ten
\* minutes it would wait: each collect follows a start, and each start a scan).
Collect(n) ==
    /\ node[n] = "got" /\ Targeted(n) /\ pkt[n].kind = "collect" /\ job[n].done
    /\ node' = [node EXCEPT ![n] = "send"]
    /\ job' = [job EXCEPT ![n].done = FALSE]
    /\ pkt' = IF job[n].ok THEN Replied(n, job[n].good) ELSE pkt
    /\ UNCHANGED <<master, cache, left, damage, timeouts>>

\* send_downstream, to a stage that is armed, or to the master.
Forward(n) ==
    /\ node[n] = "send"
    /\ \E p \in {pkt[n], Bad} :
          /\ Arrives(p, pkt[n])
          /\ \/ /\ n # Relay /\ node[n + 1] = "armed"
                /\ node' = [node EXCEPT ![n] = "armed", ![n + 1] = "got"]
                /\ pkt' = [pkt EXCEPT ![n + 1] = p, ![n] = Bad]
                /\ UNCHANGED <<reply, inReady>>
             \/ /\ n = Relay /\ inReady
                /\ node' = [node EXCEPT ![n] = "armed"]
                /\ pkt' = [pkt EXCEPT ![n] = Bad]
                /\ reply' = p /\ inReady' = FALSE
    /\ UNCHANGED <<m, step, seq, outcome, hidden, genuine, cache, job, left, timeouts>>

\* Nobody takes the packet for ten minutes, and it is dropped.
Drops(n) ==
    /\ node[n] = "send"
    /\ m \in {"idle", "unsent"} \/ \E k \in Nodes : node[k] = "blocked"
    /\ IF n = Relay THEN ~inReady ELSE node[n + 1] # "armed"
    /\ node' = [node EXCEPT ![n] = "armed"]
    /\ pkt' = [pkt EXCEPT ![n] = Bad]
    /\ UNCHANGED <<master, cache, job, left, damage, timeouts>>

\* Nothing arrives for ten minutes: finish_incoming gives up, and the stage
\* queues another transaction, or waits for ever for room to do so.
IdleTimeout(n) ==
    /\ node[n] = "armed" /\ left[n] < MaxIdle
    /\ left' = [left EXCEPT ![n] = @ + 1]
    /\ node' = [node EXCEPT ![n] = IF left'[n] < InAir THEN "armed" ELSE "blocked"]
    /\ UNCHANGED <<master, pkt, cache, job, damage, timeouts>>

\* logits_service; local_argmax fails when its rows cannot be mapped.
ScanBegins(n) ==
    /\ job[n].notified /\ job[n].using = "none"
    /\ job' = [job EXCEPT ![n].notified = FALSE,
                          ![n].using = IF job[n].hidden THEN "present" ELSE "other"]
    /\ UNCHANGED <<master, node, pkt, cache, left, damage, timeouts>>

ScanEnds(n) ==
    /\ job[n].using # "none"
    /\ \E ok \in BOOLEAN :
          /\ ok \/ damage < MaxDamage
          /\ damage' = IF ok THEN damage ELSE damage + 1
          /\ job' = [job EXCEPT ![n].using = "none", ![n].ok = ok, ![n].done = TRUE,
                                ![n].good = job[n].using = "present"]
    /\ UNCHANGED <<master, node, pkt, cache, left, timeouts>>

MasterStep == QueueIncoming \/ SendDownstream \/ Completes \/ TimesOut
NodeStep(n) == Passes(n) \/ Forward(n) \/ Drops(n)
StageStep(n) == Reset(n) \/ Layers(n) \/ Drain(n) \/ StartScan(n) \/ Collect(n)
Scan(n) == ScanBegins(n) \/ ScanEnds(n)

Next ==
    \/ Command \/ MasterStep \/ OwnPartFails
    \/ \E n \in Nodes : NodeStep(n) \/ IdleTimeout(n)
    \/ \E n \in Compute : StageStep(n) \/ Scan(n)

\* The tasks run, waits time out, and the host asks again.
Fairness ==
    /\ WF_vars(Command) /\ WF_vars(MasterStep)
    /\ \A n \in Nodes : WF_vars(NodeStep(n))
    /\ \A n \in Compute : WF_vars(StageStep(n)) /\ WF_vars(Scan(n))

Spec == Init /\ [][Next]_vars
FairSpec == Spec /\ Fairness

-----------------------------------------------------------------------------
\* Properties.

(***************************************************************************)
(* What the master accepts is the answer to its present request, although  *)
(* a transfer that timed out leaves its slave transaction queued and its   *)
(* packet in the ring, where it waits for the next READY: no packet stays  *)
(* there until its sequence comes again.                                   *)
(***************************************************************************)
AcceptedIsOwn == m = "wait" /\ ~inReady /\ Answers(reply) => reply.own

(***************************************************************************)
(* The vector that leaves a stage was computed in this command, and over   *)
(* keys and values of this command for every earlier position: the reset   *)
(* has gone before, and no late request of a command that failed writes    *)
(* into a stage's cache after it.                                          *)
(***************************************************************************)
HiddenIsOwn == hidden

(***************************************************************************)
(* "Run the exact local LM-head scan on the other core": the logits that   *)
(* select a token are those of the hidden vector of this selection.        *)
(***************************************************************************)
LogitsAreOwn == genuine

(***************************************************************************)
(* As long as packets are only lost or damaged, and not late, a command  *)
(* succeeds again in the end: nothing a failed one leaves behind (a queued *)
(* transaction, a scan, an uncollected result) blocks the ring.            *)
(***************************************************************************)
SelectionsSucceed == []<>(outcome = "ok")
=============================================================================
