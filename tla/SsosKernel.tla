----------------------------- MODULE SsosKernel -----------------------------
(***************************************************************************)
(* The packet controller of firmware/ssos_kernel: setup(), loop(), the     *)
(* commands of handleLine, saveBank/loadBank over the Preferences (NVS)    *)
(* store, the model cache and the adaptive flush counter of tqa_runtime.   *)
(*                                                                         *)
(* The firmware is one thread.  What interrupts it is a reset: saveBank    *)
(* therefore takes one step per key it writes, each may fail, and          *)
(* PowerLoss is possible between any two steps.  Every other command is    *)
(* one step.  Commands that only print (HELP, ID, DUMP, STATS, TENSOR,     *)
(* MODEL, MINFER, GET d=, and a PKT line refused before storePacket) leave *)
(* all of this state alone and are not actions.                            *)
(***************************************************************************)
EXTENDS PacketBank

CONSTANTS
    Inputs,     \* the packets a host may send with PKT (and DEL by id)
    FlushMin,   \* apply_batch clamps flush_n to 4 .. 24
    FlushMax,
    FlushWide,  \* 65535, the largest flush_n the undefined conversion of a
                \* value that is not a number can give
    TsetValues, \* what TSET may set a weight to: "number", "nan"
    NoBlob,     \* the key "bank" is absent from NVS
    MaxBoots    \* bound of the model: power cycles end at this boot count

ASSUME KernelAssumption ==
    /\ Inputs \subseteq Packet
    /\ FlushMin \in Nat /\ FlushMax \in Nat
    /\ 1 <= FlushMin /\ FlushMin <= FlushMax
    /\ FlushWide \in Nat /\ FlushMax <= FlushWide
    /\ TsetValues \subseteq {"number", "nan"}
    /\ NoBlob \notin Banks
    /\ MaxBoots \in Nat

VARIABLES
    bank,       \* the live packet bank
    model,      \* the decoded model cache, or NoModel
    bootCount,
    sinceFlush, \* since_flush, saturated at FlushWide: only "at least flush_n"
                \* is ever asked of it, and flush_n never exceeds FlushWide
    flushN,     \* flush_n
    numbers,    \* weights, inputs and score of the tensor are all numbers
    pc,         \* where setup(), loop() or saveBank() stands
    saver,      \* who called saveBank: the SAVE command or loop()
    reply,      \* the last answer to SAVE, until the next command
    nvs         \* the Preferences namespace "ssos"

vars == <<bank, model, bootCount, sinceFlush, flushN, numbers, pc, saver, reply, nvs>>

ram == <<bank, model, bootCount, sinceFlush, flushN, numbers>>

\* What apply_batch may make of flush_n: clampf lets through a value that is
\* not a number, and any uint16_t may come of its conversion.
Thresholds(n) == IF n THEN FlushMin..FlushMax ELSE 0..FlushWide

(***************************************************************************)
(* NVS keeps each key atomically: the old value or the new one.  n stands  *)
(* for "key n is present and at most PKT_MAX", which is all loadBank asks  *)
(* of it; boots reads 0 when absent, the default loadBank passes.          *)
(***************************************************************************)
BlankNvs == [n |-> FALSE, boots |-> 0, bank |-> NoBlob]

SavePcs == {"open", "put_n", "put_counters", "put_bank", "saved"}

TypeOK ==
    /\ bank \in Banks
    /\ model \in Models \cup {NoModel}
    /\ bootCount \in Nat
    /\ sinceFlush \in 0..FlushWide
    /\ numbers \in BOOLEAN
    /\ flushN \in Thresholds(numbers)
    /\ pc \in {"setup", "top", "drain"} \cup SavePcs
    /\ saver \in {"SAVE", "loop"}
    /\ reply \in {"none", "OK saved", "ERR save failed"}
    /\ nvs \in [n: BOOLEAN, boots: Nat, bank: Banks \cup {NoBlob}]

\* A board with an empty settings area, powered and about to run setup().
Init ==
    /\ bank = EmptyBank
    /\ model = NoModel
    /\ bootCount = 0
    /\ sinceFlush = 0
    /\ numbers = TRUE
    /\ flushN \in Thresholds(numbers)
    /\ pc = "setup"
    /\ saver = "loop"
    /\ reply = "none"
    /\ nvs = BlankNvs

-----------------------------------------------------------------------------
\* Start and reset.

BlobStored == nvs.n /\ nvs.bank # NoBlob

(***************************************************************************)
(* setup(): the counters are taken from NVS as soon as "n" is valid, even  *)
(* when the blob turns out to be missing and the controller is seeded;     *)
(* the incremented boot count stays in RAM until the next save.            *)
(***************************************************************************)
Setup ==
    /\ pc = "setup"
    /\ bank' = IF BlobStored THEN nvs.bank ELSE SeedBank
    /\ model' = LoadModelPackets(bank')
    /\ bootCount' = (IF nvs.n THEN nvs.boots ELSE 0) + 1
    /\ sinceFlush' = 0
    /\ numbers' = TRUE
    /\ flushN' \in Thresholds(numbers')
    /\ pc' = "top"
    /\ UNCHANGED <<saver, reply, nvs>>

PowerLoss ==
    /\ pc # "setup"
    /\ nvs.boots < MaxBoots
    /\ pc' = "setup"
    /\ reply' = "none"
    /\ UNCHANGED <<ram, saver, nvs>>

\* The installer erases the settings region while the board is in its loader.
EraseSettings ==
    /\ pc = "setup"
    /\ nvs' = BlankNvs
    /\ UNCHANGED <<ram, pc, saver, reply>>

-----------------------------------------------------------------------------
\* loop() and saveBank().

LoopTop ==
    /\ pc = "top"
    /\ pc' = IF sinceFlush >= flushN THEN "open" ELSE "drain"
    /\ saver' = IF sinceFlush >= flushN THEN "loop" ELSE saver
    /\ UNCHANGED <<ram, reply, nvs>>

EndDrain ==
    /\ pc = "drain"
    /\ pc' = "top"
    /\ UNCHANGED <<ram, saver, reply, nvs>>

\* Mutant: loop() clears the counter without looking at the result.
SaveReturnsUnchecked(ok) ==
    /\ pc' = "drain"
    /\ IF saver = "loop"
         THEN sinceFlush' = 0 /\ reply' = reply
         ELSE /\ reply' = IF ok THEN "OK saved" ELSE "ERR save failed"
              /\ sinceFlush' = sinceFlush
    /\ UNCHANGED <<bank, model, bootCount, flushN, numbers, saver, nvs>>

\* Mutant: loop() forgets to call tensorClearFlush.
SaveReturnsNoClear(ok) ==
    /\ pc' = "drain"
    /\ reply' = IF saver = "loop" THEN reply
                ELSE IF ok THEN "OK saved" ELSE "ERR save failed"
    /\ UNCHANGED <<ram, saver, nvs>>

\* saveBank returned: loop() clears the counter on success, SAVE answers.
SaveReturns(ok) ==
    /\ pc' = "drain"
    /\ IF saver = "loop"
         THEN /\ sinceFlush' = IF ok THEN 0 ELSE sinceFlush
              /\ reply' = reply
         ELSE /\ reply' = IF ok THEN "OK saved" ELSE "ERR save failed"
              /\ sinceFlush' = sinceFlush
    /\ UNCHANGED <<bank, model, bootCount, flushN, numbers, saver, nvs>>

\* Mutant: saveBank clears the namespace before it writes the keys.
OpenNvsClears ==
    /\ pc = "open"
    /\ pc' = "put_n"
    /\ nvs' = BlankNvs
    /\ UNCHANGED <<ram, saver, reply>>

OpenNvs ==
    /\ pc = "open"
    /\ pc' = "put_n"
    /\ UNCHANGED <<ram, saver, reply, nvs>>

PutN ==
    /\ pc = "put_n"
    /\ nvs' = [nvs EXCEPT !.n = TRUE]
    /\ pc' = "put_counters"
    /\ UNCHANGED <<ram, saver, reply>>

\* Keys "gen" and "boots".
PutCounters ==
    /\ pc = "put_counters"
    /\ nvs' = [nvs EXCEPT !.boots = bootCount]
    /\ pc' = "put_bank"
    /\ UNCHANGED <<ram, saver, reply>>

PutBank ==
    /\ pc = "put_bank"
    /\ nvs' = [nvs EXCEPT !.bank = bank]
    /\ pc' = "saved"
    /\ UNCHANGED <<ram, saver, reply>>

SaveSucceeds == pc = "saved" /\ SaveReturns(TRUE)

\* Mutant: the number of bytes putBytes wrote is not compared.
SaveFailsUnnoticed == pc \in SavePcs /\ SaveReturns(pc = "put_bank")

\* begin() or a put returned an error and the rest is skipped.  A put that
\* could not commit may have stored its value all the same.
SaveFails == pc \in SavePcs /\ SaveReturns(FALSE)

-----------------------------------------------------------------------------
\* Commands.  Each replaces the answer the host saw last.

Command ==
    /\ pc = "drain"
    /\ reply' = "none"
    /\ UNCHANGED nvs

Save ==
    /\ Command
    /\ pc' = "open"
    /\ saver' = "SAVE"
    /\ UNCHANGED ram

\* handlePkt with a well-formed line: storePacket, then tensorOnRecv.
Pkt(p) ==
    /\ Command
    /\ StoreSlot(bank, p) # NoSlot
    /\ bank' = StorePacket(bank, p)
    /\ model' = IF p.id \in ModelIds THEN NoModel ELSE model
    /\ sinceFlush' = IF sinceFlush < FlushWide THEN sinceFlush + 1 ELSE sinceFlush
    /\ flushN' \in Thresholds(numbers)
    /\ UNCHANGED <<bootCount, numbers, pc, saver>>

\* Commands that run apply_batch and change nothing else here: PKT refused
\* for a full bank or an unknown field, GET id=, an unknown command.
Retune ==
    /\ Command
    /\ flushN' \in Thresholds(numbers)
    /\ UNCHANGED <<bank, model, bootCount, sinceFlush, numbers, pc, saver>>

\* TSET and TRESET.  A number heals the tensor only if none but the replaced
\* weights was not one: what has reached x[8] stays (see TensorRuntime).
SetWeights ==
    /\ Command
    /\ numbers' \in {numbers} \cup {v = "number" : v \in TsetValues}
    /\ flushN' \in Thresholds(numbers')
    /\ UNCHANGED <<bank, model, bootCount, sinceFlush, pc, saver>>

\* BENCH feeds 2000 + 2000 + 1111 receptions to the live runtime: more than
\* any clamped threshold, but not more than FlushWide.
Bench ==
    /\ Command
    /\ sinceFlush' \in {m \in FlushMax..FlushWide : m >= sinceFlush}
    /\ flushN' \in Thresholds(numbers)
    /\ UNCHANGED <<bank, model, bootCount, numbers, pc, saver>>

Del(id) ==
    /\ Command
    /\ FindById(bank, id) # NoSlot
    /\ bank' = [bank EXCEPT ![FindById(bank, id)] = Empty]
    /\ model' = IF id \in ModelIds THEN NoModel ELSE model
    /\ UNCHANGED <<bootCount, sinceFlush, flushN, numbers, pc, saver>>

\* Mutant: LOAD keeps the cache decoded from the bank it replaces.
LoadKeepsCache ==
    /\ Command
    /\ bank' = IF BlobStored THEN nvs.bank ELSE bank
    /\ bootCount' = IF nvs.n THEN nvs.boots ELSE bootCount
    /\ UNCHANGED <<model, sinceFlush, flushN, numbers, pc, saver>>

\* A LOAD that finds "n" but no blob answers ERR and has still replaced the
\* counters.
Load ==
    /\ Command
    /\ bank' = IF BlobStored THEN nvs.bank ELSE bank
    /\ model' = IF BlobStored THEN LoadModelPackets(nvs.bank) ELSE model
    /\ bootCount' = IF nvs.n THEN nvs.boots ELSE bootCount
    /\ UNCHANGED <<sinceFlush, flushN, numbers, pc, saver>>

Clear ==
    /\ Command
    /\ bank' = SeedBank
    /\ model' = NoModel
    /\ UNCHANGED <<bootCount, sinceFlush, flushN, numbers, pc, saver>>

MClear ==
    /\ Command
    /\ bank' = ClearModelPackets(bank)
    /\ model' = NoModel
    /\ UNCHANGED <<bootCount, sinceFlush, flushN, numbers, pc, saver>>

MLoad ==
    /\ Command
    /\ model' = LoadModelPackets(bank)
    /\ UNCHANGED <<bank, bootCount, sinceFlush, flushN, numbers, pc, saver>>

HostCommand ==
    \/ \E p \in Inputs : Pkt(p) \/ Del(p.id)
    \/ Retune \/ SetWeights \/ Bench \/ Save \/ Load \/ Clear \/ MClear \/ MLoad

SaveStep == OpenNvs \/ PutN \/ PutCounters \/ PutBank \/ SaveSucceeds \/ SaveFails

Next ==
    \/ Setup \/ PowerLoss \/ EraseSettings
    \/ LoopTop \/ EndDrain \/ SaveStep
    \/ HostCommand

Spec == Init /\ [][Next]_vars

(***************************************************************************)
(* setup(), loop() and saveBank() run whenever they can.  The host pauses  *)
(* now and then, so the `while (Serial.available())` loop ends again and   *)
(* again; and a flash write that loop() retries for ever succeeds at some  *)
(* time, whatever becomes of the writes of SAVE commands in between.       *)
(***************************************************************************)
Fairness ==
    /\ WF_vars(Setup) /\ WF_vars(LoopTop) /\ WF_vars(SaveStep)
    /\ SF_vars(EndDrain)
    /\ SF_vars(saver = "loop" /\ OpenNvs)
    /\ SF_vars(saver = "loop" /\ PutN)
    /\ SF_vars(saver = "loop" /\ PutCounters)
    /\ SF_vars(saver = "loop" /\ PutBank)
    /\ SF_vars(saver = "loop" /\ SaveSucceeds)

FairSpec == Spec /\ Fairness

-----------------------------------------------------------------------------
\* Properties.

(***************************************************************************)
(* storePacket never leaves two records with one id, except for an id that *)
(* strncpy had to cut: findById looks for the spelling the host sent, so   *)
(* over-long ids are never found again.  The same holds of the stored      *)
(* bank, whichever saves were torn.                                        *)
(***************************************************************************)
DuplicatesOnlyWhenCut ==
    /\ UniqueUncut(bank)
    /\ nvs.bank # NoBlob => UniqueUncut(nvs.bank)

(***************************************************************************)
(* MINFER never answers from weights that contradict a row the bank holds: *)
(* whichever of PKT, DEL, LOAD, CLEAR, MCLEAR, MLOAD and resets came       *)
(* before, a cached row whose packet is present is the decoding of that    *)
(* packet.                                                                 *)
(***************************************************************************)
CacheAgreesWithBank ==
    model # NoModel =>
        \A r \in RowIds : WithId(bank, r) # {} => RowWeights(bank, r) = model[r]

(***************************************************************************)
(* "OK saved" is true for as long as it is the last answer: the bank is    *)
(* stored, and so is the boot count, so that the next boot reports a       *)
(* higher one.  Background saves that fail half-way do not undo it.        *)
(***************************************************************************)
SavedMeansStored ==
    reply = "OK saved" =>
        BlobStored /\ nvs.bank = bank /\ nvs.boots = bootCount

(***************************************************************************)
(* loop() forgets that packets are waiting to be flushed only when they    *)
(* are in NVS, or when a reset has lost them.                              *)
(***************************************************************************)
FlushClearedOnlyWhenStored ==
    [][sinceFlush' < sinceFlush =>
          pc = "setup" \/ (BlobStored /\ nvs.bank = bank)]_vars

(***************************************************************************)
(* A bank that has received FlushMax packets is flushed in the end, unless *)
(* a reset loses them first, however apply_batch moves the threshold and   *)
(* however often NVS refuses.  The exception is a tensor that TSET has     *)
(* given something that is not a number: its flush_n may be any uint16_t,  *)
(* and only a bank that has received FlushWide packets is sure to be       *)
(* flushed.                                                                *)
(***************************************************************************)
FlushHappens ==
    /\ (numbers /\ sinceFlush >= FlushMax) ~> (sinceFlush = 0 \/ ~numbers)
    /\ (sinceFlush = FlushWide) ~> (sinceFlush = 0)

\* The controller is a durable store: its bank is the working copy, the blob
\* behind a valid "n" the stored one.
Store == INSTANCE DurableStore WITH
    Contents <- Banks, Seed <- SeedBank, Nothing <- NoBlob,
    ram <- bank, disk <- IF nvs.n THEN nvs.bank ELSE NoBlob,
    up <- pc # "setup", acked <- reply = "OK saved"

(***************************************************************************)
(* The whole controller, torn saves, failed LOADs and resets included,     *)
(* implements the durable store that docs/PROTOCOL.md describes.           *)
(***************************************************************************)
ImplementsDurableStore == Store!Spec

-----------------------------------------------------------------------------
\* What the documents say and the code does not do.

(***************************************************************************)
(* README.md: "Sending another packet with the same ID or the same 9-D     *)
(* coordinate replaces the existing record."                               *)
(***************************************************************************)
SameIdReplaces == \A i, j \in Used(bank) : i # j => bank[i].id # bank[j].id

(***************************************************************************)
(* docs/PROTOCOL.md: "Changing or deleting any model packet invalidates    *)
(* the volatile cache until a successful `MLOAD`."                         *)
(***************************************************************************)
ChangeInvalidatesCache == model # NoModel => model = LoadModelPackets(bank)
=============================================================================
