# SSOS-ESP32: a TLA+ verification project

SSOS-ESP32 is firmware for ESP32-S3 boards: a packet controller that keeps 32
records in RAM and NVS and is driven by a text console, host programs that talk
to it and flash it, and a set of multi-board inference pipelines and a training
program built beside it. This directory models the parts that carry state over
time, checks them with TLC on small instances, and proves the main safety
properties with TLAPS for every value of the constants. Paths below are
relative to the repository.

Contents: 1 inventory, 2 modules, 3 runs, 4 known deviations, 5 proofs,
6 not modelled, 7 plan.

## 1. Inventory

| Component | State | Operations | Hard because |
|---|---|---|---|
| Packet bank (`firmware/ssos_kernel/ssos_kernel.ino`) | 32 slots with id, coordinate, body | `findById`, `findByCoord`, `allocSlot`, `storePacket`, `seedController`, model rows | replacement by id or by coordinate; texts are cut when stored, not when searched |
| Packet controller (same file) | bank, model cache, boot count, flush counter and threshold, NVS keys | `setup`, `loop`, `saveBank`, `loadBank`, console commands | resets between NVS keys, failing writes, background saves between commands, a cache of packets |
| Migration | two banks | `DUMP`, then the lines sent to a seeded board | eviction by coordinate, leftover seed records, a line longer than the input buffer |
| Adaptive tensor (`tqa_runtime.cpp`) | window, rest deadline, fault flag, weights, flush threshold | `tensorOnRecv`, `tensorOnError`, `tensorTick`, `TSET`, `TRESET`, `GET` | a clock that wraps, values that are not numbers |
| Benchmark command (`tqa_bench.cpp`) | three static interpreters, sample arrays | `tqaBenchInit`, `tqaBenchRun`, `sort32`, `print_pct` | static locals across calls, a model that resets the chip |
| Command-line clients (`host/ssos_cmd.c`, `ssos_dump.c`, `ssos_host.c`) | none; a bulk pipe and the firmware's line buffer | windows of IN transfers, one OUT transfer per line | transfers that time out half-way, late answers, long lines |
| `host/cdc-pty.c` | stop flag, one chunk per thread | two copying threads | partial writes, blocking calls, two threads at the end |
| `host/ssos_model.c` | four rows, an account of failures | store, read back, infer, receipts, `DUMP` | replies tied to commands by words only, records placed by coordinate among those of other programs |
| Flashing (`scripts/flash-termux.sh`, `host/usb_*_reset.c`, `scripts/initialize-settings.py`) | DTR and RTS, boot mode, images, settings | reset into the loader, write, verify, erase, start | every tool may fail, unchecked transfers |
| Pair pipeline (`benchmarks/quark-v2-0.5m-pair-pipeline/.../quark_pair_pipeline.ino`) | two stream states, one shared frame; worker phase, READY line, key/value caches | `run_pipeline`, `dispatch`, `collect`, `worker_loop` | polled edges, timeouts, phase inversion after an abort, resets of one board |
| Trio pipeline (`quark_trio_pipeline.ino`) | two lanes, retry copies, lane tasks | `run_trio_pipeline`, `run_lane_pipeline`, `collect`, `redispatch`, `worker_loop` | retries in the wrong phase, a timeout while tasks share the caller's stack |
| ParetoQ ring (`benchmarks/paretoq-125m-six-board-distributed/.../paretoq_node.ino`) | packets in the ring, slave transactions, caches, the hidden vector on two cores | `master_send`, `worker_service`, `worker_process`, `logits_service` | late packets, waits given up, a task on the other core |
| ParetoQ loader (same sketch, `tools/run_physical_benchmark.py`) | expected and received counts, active and ready flags | `LOADBEGIN`, `LOADCHUNK`, `LOADB64`, `LOADEND`, `STARTBUS`, `preload` | a runner killed in the middle of a line, answers that come late |
| Training (`benchmarks/ssos-550k-language-training/tools/train_reference.py`) | weights, optimiser, generator, checkpoints | start, resume, step, save | kills at any point, resumption with another batch shape |
| Numerics, generated data, reports, V2 validator | none over time | pure functions and straight-line scripts | not modelled |

**How they interact.** The controller takes commands from the console and gives
one answer each; it calls the tensor runtime on each reception, fault, `GET` and
turn of `loop`, and reads back one number, the flush threshold; NVS is the only
state that survives a reset. The host programs share the console's two pipes.
The boards of a pipeline share SPI links, each with one READY line. The
controller is single-threaded; the pipelines are concurrent across boards, and
trio and ParetoQ across cores too.

**What makes each part correct.** The bank never loses or duplicates a record
except by the documented replacement; `OK saved` is true; a reset at any point
leaves the last whole save; the model cache never contradicts the packets; a
migrated controller equals its source. The flush threshold stays in its range
while the tensor holds numbers, and time is measured right across a wrap. What a client writes is what the board
printed; a `pass` of a host program is true; a completed installation is a
verified one, and a failed one can be repeated. A pipeline's result was computed
from this run's data, a failed run does not spoil the next one, and every run
ends. A ready stage is a loaded one. A checkpoint is whole and its account exact.

`PROJECT.json` lists every component with its status, and every hazard at its
line with the properties that would catch it.

## 2. Modules

| Module | Models |
|---|---|
| `PacketBank` | the bank as a value: searches, `storePacket`, `seedController`, model rows |
| `SsosKernel` | the controller as a state machine over a bank |
| `DurableStore` | abstract: working copy, stored copy, acknowledgement |
| `DumpReplay` | two banks, a dump and its replay |
| `TensorRuntime` | window, rest deadline, fault, and where a value that is not a number travels |
| `FlushCounter` | abstract: what the controller needs of the runtime |
| `BenchModels` | the phases of `BENCH`, the interpreters, the percentiles |
| `SerialSession` | command-line clients, the bulk pipes and the firmware's line reader |
| `HostModel` | `ssos_model` and the bank it talks to (an instance of `PacketBank`) |
| `PtyBridge` | the two threads of `cdc-pty` |
| `ConsoleClients` | the part of `MCConsole` that is an instance of `SerialSession` |
| `FlashTermux` | the installation script, the reset tools and the board's boot mode |
| `QuarkPair` | master and worker of the pair pipeline |
| `QuarkLane` | one lane of the trio, master half and worker half |
| `QuarkTrio` | the trio's controller with its lane tasks |
| `ParetoLoader` | the loader's commands and the runner |
| `ParetoRing` | master, stages and relay of the ring, with the logits task |
| `Checkpoints` | training runs and their checkpoints |
| `PacketBankProofs`, `SsosKernelProofs`, `DumpReplayProofs`, `QuarkPairProofs` | theorems about one component |
| `FirmwareProofs`, `HostProofs`, `QuarkLaneProofs`, `PackagesProofs` | theorems about the components of `MCFirmware`, of `MCInstall` and `MCConsole`, of `MCLanes`, of `MCPackages`, and about these sums |
| `MCSsosKernel`, `MCDumpReplay`, `MCQuarkPair` | values of the constants for TLC |
| `MCFirmware`, `MCConsole`, `MCInstall`, `MCLanes`, `MCPackages` | several components in one run |

Each module of the last row is a sum, not a product: a variable `part` (`program`
in `MCInstall`), chosen in the initial states, names the one instance that runs, and the variables of the
others keep their first value. Components that share nothing are checked side by
side without multiplying their states, and with different bounds for different
questions about the same component. They leave the constants of their components
open, so that a theorem about the sum is a theorem for every value of them, and
the `.cfg` gives TLC small ones.

Operators whose comment starts with "Mutant:" are deliberately wrong versions
of a definition near them. They are not part of the model: each is
the plausible bug that one property must catch (`PROJECT.json`, "mutants").

### PacketBank

A slot is `Empty` or a record with the fields some code reads back: `id`, `d`
(nine coordinates as one opaque value) and `body`. `role`, `hash`, `perm` and
`gen` are stored and printed only; they travel with `body`. `strncpy` is the
constant function `ClipId` (or `ClipBody`): a host may send an id that differs
from what is stored, which is the point of several properties.
`parseModelQ10Row` is the function `Q10` from bodies to rows of weights or
`BadRow`. The linear scans are "the least index in the set of matching slots".
The assumptions are facts about C text fields: cutting twice is cutting once,
the prefix `model:w:` survives, the nine characters of a row id are never cut
and no cut id is that short, the two seed records are short and not model rows.

### SsosKernel

| Action | Code |
|---|---|
| `Setup` | `setup()` with `loadBank`, `seedController`, `loadModelPackets` |
| `LoopTop`, `EndDrain` | the flush test of `loop()`, and the end of its `while (Serial.available())` |
| `OpenNvs`, `PutN`, `PutCounters`, `PutBank`, `SaveSucceeds`, `SaveFails` | `saveBank`, one step per key, every step may fail |
| `Pkt`, `Del`, `Load`, `Clear`, `MClear`, `MLoad`, `Save`, `Bench` | the commands of `handleLine` that change state |
| `SetWeights` | `TSET` and `TRESET`, which may make the tensor's values something else than numbers, or numbers again |
| `Retune` | other commands that only run `apply_batch`: refused `PKT`, `GET id=`, unknown commands |
| `PowerLoss`, `EraseSettings` | reset at any step; `scripts/initialize-settings.py` on a stopped board |

Commands that only print are not actions. `flush_n` is chosen anew after each call
of `apply_batch` (`Thresholds`): any value of 4..24 while the tensor holds numbers
(`numbers`), and any `uint16_t` (0..`FlushWide`) when it does not, since `clampf`
lets a value that is not a number through and its conversion is undefined.
`TensorRuntime` shows that this is what the runtime does (`CountsFlushes`).
`since_flush` is saturated at `FlushWide`, since the code only asks whether it has
reached `flush_n`. `Bench` stands for the 5111 receptions that `BENCH` feeds to the
live runtime, more than any clamped threshold. `n` in NVS
is reduced to "present and at most PKT_MAX", which is all `loadBank` asks. A put
may fail after its value was stored (`nvs_commit` failing). Not kept: `nextGen`,
`recvCount` and `uptime`, which are only printed. The NVS blob is always one that
this firmware wrote; a blob of another size, from other firmware, is not modelled.

### DumpReplay

`SourcePkt` and `SourceDel` fill the source, so every dumped bank is reachable.
`SendLine` is the whole `handlePkt` on the replacement, with `LineBody` for the
part of the body that fits on a 239-character input line. `NextBoard` installs
another board from the same source.

### TensorRuntime, FlushCounter, BenchModels

One action per entry point: `OnRecv`, `OnFault`, `OnGet`, `SetW`, `ResetSeed`,
`Tick`, and `ClearFlush` of `loop()`; `Advance` is the clock, modulo `Period`
(2^32 ms in the program). The nine features and 72 weights are reduced to which
of them are not numbers (`nan`), because `clampf` lets such a value through and
its conversion to an integer is undefined: the result is then any value of
0..`Wide`, `FlushWide` of the abstract counter. Of numbers, `apply_batch` chooses anything in its clamped ranges. The
instance `Nan` of `MCFirmware` is for weights that are no numbers, which make the
clamps void; there the narrowest clamps will do, with 0 as the value outside of
them that a conversion may give. The interesting clamps are those of `Clock`.

`BenchModels` runs the list of phases of `tqaBenchRun` in its order. Each model has
a fault of `Faults`, chosen once; the samples are any of `Measured`, a set of arrays
in the order in which they were taken. `Sort32` is the code's insertion sort, with a
recursive function for each of its loops: `sorted[i]` is the array after `i` rounds,
and `Stop` walks down past the larger elements to the place at which `Inserted` puts
the next one. `Percentiles` are the indices of `print_pct`.

### SerialSession, HostModel

A client is a script of listening windows and lines. A bulk IN transfer ends with
a short packet, a full buffer, or a timeout (after which the clients, but for the
first loop of `ssos_cmd`, drop what it carried); a bulk OUT transfer may be taken
in part. `ReadText` and `ReadLine` are the character loop of `loop()` with its
240-byte buffer, which holds every line that fits a client's.

`HostModel` keeps the program's own texts, stems and coordinates, because
placement (`Place`, `Coord`) is computed from them: a unit vector times ten,
rounded, raised until the place is free. The bank also holds records of other
programs (`CrowdPkt`), each at any coordinate whatever (`CrowdAt`): `storePacket`
replaces one that lies at a coordinate the program computes. A reply is two pieces; the board's
answers to a window may arrive up to `Lag` windows late and `MaxLost` pieces or
commands may be lost.

### PtyBridge, FlashTermux

Thread `u` and thread `m` have a program counter and a chunk each; the blocking
calls are steps that are not enabled while they block. Until the terminal
program sets raw mode, the pty echoes what `u` writes.

`FlashTermux` steps through `flash-termux.sh`; the reset tools are sequences of
(DTR, RTS) settings, each of which may fail without anyone noticing. How lines
make boot modes is the board's, external to the repository. `PowerCycle` and
`BridgeEnds` may come at any time.

### QuarkPair

Each poll of `wait_ready` that can be observed is a step: a transfer needs READY
high, its end needs READY low, and the worker may have raised the line again
before the master looked (a glitch). `Transfer` covers all phases of the worker:
a receive is filled, a reply is drained, or the clocks are lost. A frame carries
stream, position and the ghost flag `good`: it belongs to this run and, in a
reply, was computed over key/value entries of this run for every earlier
position. `cache`, `genuine` and `disturbed` are ghosts; they never guard a step.
`TimedOut` lets a wait expire only when the worker cannot move by itself: all its
other steps take micro- or milliseconds and the timeouts are 2 s and 5 s.
A reset worker leaves READY at either level until `init_worker_spi` drives it.

| Action | Code |
|---|---|
| `Run`, `DispatchTransfer`, `DispatchEnd`, `Overlap`, `CollectTransfer`, `CollectEnd` | `run_pipeline` with `dispatch`, `collect` and the scheduler between two collects |
| `Timeout`, `TransferFails` | `wait_ready` or `transfer` returns an error and the run ends early |
| `Arm`, `Received`, `Compute`, `Replied`, `GapEnds` | one turn of `worker_loop` |
| `ReplyNotQueued` | the reply's `spi_slave_transmit` fails: back to the next receive |
| `MasterReset`, `MasterBoots`, `WorkerReset`, `BootReady` | resets, `setup()`, `init_worker_spi` |

### QuarkLane, QuarkTrio

`QuarkLane` is `QuarkPair`'s link, its driver errors included (`TransferFails`,
`ReplyNotQueued`), with what the trio adds: checksums (a damaged
frame is `Refused`), NACKs, three attempts (`Retry`, `RedispatchTransfer`,
`RedispatchEnd`) from `retry`, the copy that `dispatch` takes, and no reset of the
worker's phase between runs. `tx` is the transmit frame that `Overlap` fills with
the other stream's request while the first is in flight.

In `QuarkTrio` the link is reduced to "an attempt succeeds or not". Tasks are
numbered by run and lane; `task`, `inflight` and `attempt` are on their stacks (and
forgotten when a task ends), `tx` and `retry` in the two `Lane` objects, `ok` in the
controller's array, and `count` is the notification count. A controller that gave up leaves its tasks,
and the next run shares lanes and count with them.

### ParetoLoader, ParetoRing

The loader's line input is a queue of commands, a killed runner may leave a part
of a block's line (`PartOfLine`), and its answers queue up for the next runner.
Offsets count blocks; `Torn` is a count of bytes that is no multiple of one.

In `ParetoRing` a command is `SELECTTEST` (`Inputs = 0`) or `BENCH ONE`. Its
requests are numbered (`Request`): a reset, for each position one RunLayers per
stage, for each selected token one StartLogits for all and one CollectLogits per
stage. `left` counts the slave transactions that a wait has given up and the
driver still holds: of two, the third wait finds no room (`blocked`). `job` is
the task on the second core with its notification, its semaphore and the hidden
vector it reads without a lock. Ghosts: `own` and `good` of a packet, `cache`
(positions whose entries are of this command), `hidden`, `genuine`.

### Checkpoints

Everything learned is counted in tokens drawn: `weights` stands for all batches
up to a point of the stream and `rng` for the generator's place in it. `files` is
the directory by step number. `Begin`, `Resume`, `TrainStep`, `OpenTemp`,
`Replace` and `Dies` are the program; the temporary file and `os.replace` are the
two steps between which a kill hurts.

## 3. Runs

| Run | Parts and properties | Instance | Distinct states |
|---|---|---|---|
| `kernel_model` | `TypeOK`, `CacheAgreesWithBank`, `DuplicatesOnlyWhenCut` | four slots, two rows; a row with two contents, a row elsewhere, a record at a row's coordinate, cut bodies, over-long ids | 2.0 M |
| `kernel_store` | `SavedMeansStored`, `FlushClearedOnlyWhenStored`, `ImplementsDurableStore`, `FlushHappens` | three slots, flush range 1..2 and up to 3 with weights that are not numbers, up to boot 2: two torn saves in one behaviour | 77 k |
| `replay` | `ReplayKeepsRecords`, `RefusedOnlyForSeeds` | four slots, two of them seeds, nine inputs | 27 k |
| `pair` | `TypeOK`, `PreparedFrameIntact`, `AcceptedIsGenuine`, `ResultIsComplete`, `RunsRecover` | streams of 2 and 4 steps, two glitches (a missed pulse or a driver error), two resets | 14 k |
| `firmware` | clock, nan: `WindowCloses`, `RateMeasuresTheWindow`, `FaultsEnd`, `CountsFlushes`; bench: `BenchSound`, `NoBootLoop` | a clock of 3 ms with bursts of 2, and one with weights that are not numbers; two `BENCH` with 128 samples in four orders and every fault of every model | 44 k |
| `console` | session: `SessionExact`; model: `RowsStored`, `OwnRecordsStay` | two clients, two packets to a transfer, lines of 3 pieces; the whole script of `ssos_model` on a bank of 32 with 17 foreign records, four of which lie at coordinates the program computes, or none, two windows of lag, one loss | 2.0 M |
| `install` | pty: `BridgeExact`, `StopsOrBlocks`; flash: `CompletedMeansFlashed`, `ErasedOnlyAfterVerify`, `FlashCanBeRepeated` | three units printed, two typed, chunks of 2, a pty of 2; two images, three faults | 82 k |
| `lanes` | lane: `RetryIsInFlight`, `AcceptedIsGenuine`, `ResultIsComplete`, `RunsEnd`; damage: `DamageIsHealed`, `RunsEnd`; trio, late: `TrioIsComplete`, `RunsEnd` | streams of 2 and 3 steps, three damaged frames, two missed pulses or driver errors, two resets; two runs of the controller; one that is given up | 218 k |
| `packages` | loader: `ReadyMeansLoaded`, `NeverWrittenWhileReady`; ring, late: `LogitsAreOwn`, `SelectionsSucceed`; train: `CheckpointsExact`, `ResumableStays` | three blocks, three runners; two stages and the relay, two prompt tokens, two generated; shapes 2 and 3, targets 7 and 10, two kills | 893 k |

Some properties of the sum modules are conjunctions of the properties of a part,
each stated and explained in the part's own module:

| Property | Conjuncts |
|---|---|
| `BenchSound` | types, `InvokeOnlyAllocated`, `PercentilesDescribeSamples` |
| `SessionExact` (of `ConsoleClients`) | types, `CaptureExact`, `CommandsWhole` of `SerialSession` |
| `RowsStored` | types, `PassedMeansStored` of `HostModel` |
| `BridgeExact` | types of both, `ToBoardExact`, `ToTerminalExact`, `ClosedAfterUse` of `PtyBridge` |
| `CompletedMeansFlashed`, `ErasedOnlyAfterVerify` | those of `FlashTermux` |
| `TrioIsComplete` | types, `ResultIsComplete` of `QuarkTrio`, `RetryResendsOwn` |
| `FaultsEnd` | `FaultForgotten` of `TensorRuntime`, without values that are not numbers |
| `CountsFlushes` | `ImplementsFlushCounter` of `TensorRuntime`, with values that are not numbers and without |
| `RunsEnd` | `RunsReturn` (with missed pulses, driver errors and resets) and `RunsSucceed` (with damage) of `QuarkLane`, `RunsEnd` of `QuarkTrio` |
| `LogitsAreOwn` | types, `LogitsAreOwn` (patient host), `HiddenIsOwn`, `AcceptedIsOwn` |
| `CheckpointsExact` | types, `AccountingExact`, `NothingLearnedTwice`, `EndsAtTarget` |

Two of them deserve a word. `FlushHappens` has two halves: with numbers, a bank that
has received `FlushMax` packets (24 in the program) is flushed in the end; with a
weight that is not a number, only one that has received `FlushWide` (65535) is,
unless a reset loses them before. `OwnRecordsStay` lets `ssos_model` replace a
record by one of another id only where another program's record lies at the very
coordinates of the new one: there `storePacket` does replace it. Its own rows,
examples and receipts and the controller's two records are never replaced by others.

Three runs are expected to fail; section 4 explains them: `kernel_same_id`,
`kernel_stale_cache`, `replay_snapshot`.

**Bounds.** Every bound is a constant named in the module and occurs only in the
guards of disturbances (resets, glitches, damage, losses, kills, timeouts) and of
the environment (runs, sessions, units printed).

- *Controller.* `MaxBoots` ends power cycles at a stored boot count. Banks of
  three and four slots leave one or two free beside the seeds, enough for a full
  bank, an eviction by id, one by coordinate, and a refusal. A torn save involves
  two generations of the bank and one reset; two boots allow a second on top.
- *Runtime.* A period of 3 with rests of at most 2 lets deadlines and windows
  start before and end after a wrap, in every order. Conversions give values in
  and outside of the clamps. Two `BENCH` suffice for what static locals keep. The
  percentiles have the program's 128 samples, rising, falling, with outliers and with
  ties, so that the 95th and the 99th differ from the largest one.
- *Console.* Two packets to a transfer and windows of two transfers distinguish
  short, full and cut ones; a second client meets what the first has left. The
  script of `HostModel` is the program's own, in full length.
- *Bridge and installation.* Units of a stream are interchangeable; chunks and
  pty of two allow every partial write. Three faults cover a failed run, a failed
  repetition and a lost reset transfer.
- *Pipelines.* Streams of different lengths reach the scheduler's branch in which
  one stream goes on alone, which the two prompts compiled into the sketches (of
  equal length) do not. Three damaged frames exceed what `collect` heals by one.
  Two resets: one of each board, or one of a board that is starting.
- *Ring.* Two stages have a first and a last one; `SeqMod` of 4 makes sequence
  numbers come round again while late packets are in the ring. One idle timeout
  per stage, two given-up transfers of the master: as many as the driver takes.
- *Loader, training.* Three blocks have a first, a middle and a last; two kills
  allow a kill in a run that resumed from a killed one; 7 and 10 are multiples of
  neither shape or of one of them.

**Deadlock** is checked in every run but two. `console` and `install` contain
programs that end (a client, the bridge, the script) and say
`CHECK_DEADLOCK FALSE`. In `lanes` and `packages` a part that may end, or wait for
ever in a documented way, has an explicit stutter (`TrioStops`, `Stops`), so that
TLC still finds a deadlock of the others.

**Fairness**, and why the code justifies it:

- `SsosKernel`: `setup`, `loop` and `saveBank` are straight-line code (weak
  fairness). The host pauses again and again, so the `while` of `loop()` ends
  (strong fairness of `EndDrain`: a host that floods the console really does starve
  the flush test). A flash write that `loop()` repeats succeeds at some time
  (strong fairness of each put made for `loop()`); without it nothing can be
  flushed, and the code's only answer is to try again.
- `TensorRuntime`: time passes (weak), and `loop()` ticks in every millisecond in
  which it is idle, many times (strong fairness of `Tick`). `BenchModels`:
  `setup()` runs unless the board is reset (weak fairness of `Boot`).
- `PtyBridge`: both threads run; nothing is assumed of board or terminal, which is
  why `StopsOrBlocks` has its second half. `FlashTermux`: the script runs, and who
  sees it fail starts it again.
- `QuarkPair`, `QuarkLane`: both boards run their loops, a wait that cannot end
  times out, the host repeats RUN. For `QuarkLane`, `RunsReturn` uses this with every
  disturbance, `RunsSucceed` with damaged frames only (see section 4). `QuarkTrio`: controller and tasks run.
- `ParetoRing`: the tasks run, waits time out, the host repeats its command. Used
  with a host that waits a few seconds after a failure.

## 4. Known deviations

Three of the runs state what a document says and show a behaviour of the code
that differs:

- `kernel_same_id`: an id of 40 or more characters sent twice leaves two records
  (`README.md:175`: "Sending another packet with the same ID or the same 9-D
  coordinate replaces the existing record"). `DuplicatesOnlyWhenCut` is the
  precise statement that holds.
- `kernel_stale_cache`: a packet with another id at a model row's coordinate
  replaces the row and leaves the cache valid (`docs/PROTOCOL.md:114`: "Changing or
  deleting any model packet invalidates the volatile cache"). `CacheAgreesWithBank`
  is what holds: the cache may outlive a row, but never contradicts one.
- `replay_snapshot`: two records moved onto one coordinate; a replay keeps one
  (`docs/PROTOCOL.md:58`: "a replayable packet-state snapshot").
  `ReplayKeepsRecords` holds for dumps with unique ids and coordinates whose lines
  fit.

Eight more configurations are kept beside the runs. TLC finds each violated; the
run that passes states the same property with the exception it needs.

| Configuration (module) | What it shows | Exception in the passing run |
|---|---|---|
| `tensor_reset` (`TensorRuntime`) | `TRESET` reseeds the weights only; after `TSET` of nan the ninth feature and the score stay NaN and spread again (`tqa_runtime.cpp:205`; `ssos_kernel.ino:559` answers "OK tensor reset to trained seed") | `WindowCloses` speaks of numbers; the flush counter keeps `numbers` false until all are numbers again |
| `bench_again` (`MCFirmware`) | the resolver has room for one operator and every initialisation registers it again: the second `BENCH` measures no model (`tqa_bench.cpp:87`; `docs/USE_CASES.md:60`: "`BENCH` runs the included kernel measurements.") | `BenchSound` says what is invoked, not that it is |
| `session_dump` (`SerialSession`) | `ssos_dump` writes a buffer only after a transfer that returned 0, and drops the end of a reply whose last packet is full (`host/ssos_dump.c:19`; `host/README.md:17`: "retrieves `ID` and the current `DUMP` output") | `CaptureExact` excepts transfers that timed out |
| `session_cut` (`SerialSession`) | `ssos_cmd` cuts a command of 127 characters or more together with its newline, and the next command is glued to it (`host/ssos_cmd.c:39`; line 1: "Send one line to SSOS over USB.") | `CommandsWhole` excepts sessions with a cut command |
| `flash_reset` (`FlashTermux`) | `usb_app_reset` does not look at its transfers and prints `app-reset ok` for a board that does not run (`host/usb_app_reset.c:10`; `docs/FLASHING.md:89`) | `CompletedMeansFlashed` promises a running application if no transfer failed |
| `trio_timeout` (`QuarkTrio`) | after the 30 s timeout the lane tasks go on and share frames with those of the next RUN (`quark_trio_pipeline.ino:382`; package `README.md:110`: "a checksum retry cannot accidentally resend the other stream") | `RetryResendsOwn` and `ResultIsComplete` are checked for runs that end, `ResultIsComplete` also for one that is given up |
| `loader_chunk` (`ParetoLoader`) | a LOADCHUNK that fails clears the counts but not `g_load_active`: LOADEND then answers OK and `STARTBUS` starts an incomplete node (`paretoq_node.ino:1591`; line 1412: "ERR STARTBUS_NOT_LOADED") | `ReadyMeansLoaded` excepts cut chunks, which the runner never sends |
| `ring_again` (`ParetoRing`) | a command repeated at once copies the hidden vector under a scan that still runs, whose result passes for the new one (`paretoq_node.ino:585`) | `LogitsAreOwn` has a host that waits |

Two more facts that the models record without a document to hold them against.
After a missed READY pulse, or a reset of the master between a request and its
reply, a lane of the trio stays out of phase until its worker is reset by hand:
`RunsSucceed` holds for damage only, while `RunsReturn` holds always. And the third given-up transfer blocks the
ring for good: `SelectionsSucceed` has one lost packet and one idle timeout.

## 5. Proofs

The theorems hold for every value of the constants under the named assumptions of
the modules, which TLC evaluates on each run: every bank of at least two slots, all
sets of ids, coordinates, bodies and inputs, every flush range; streams of every
length; buffers of every size; any number of images, blocks, stages, prompt tokens,
glitches, faults, kills, timeouts and resets. The assumptions ask for what the code
fixes: a ring has fewer stages than its broadcast address 255
and more than one sequence number (`RingAssumption`), the firmware's line buffer
holds every line that fits a client's (`SessionAssumption`), converted values
include those of the clamps (`TensorAssumption`), the bank `ssos_model` writes to
has room for the controller's two records (`HostModelAssumption`), and an empty
slot is not a packet (`EmptyAssumption`).

| Module | Theorem | States |
|---|---|---|
| `PacketBankProofs` | `StoreKeepsUnique` | `storePacket` keeps uncut ids unique |
| `SsosKernelProofs` | `TypeCorrect` | `Spec => []TypeOK` |
| | `IdsUnique` | `Spec => []DuplicatesOnlyWhenCut` |
| | `SavedIsStored` | `Spec => []SavedMeansStored` |
| | `CacheAgrees` | `Spec => []CacheAgreesWithBank` |
| | `FlushClearedStored` | `Spec => FlushClearedOnlyWhenStored` |
| | `Refinement` | `Spec => ImplementsDurableStore` |
| `DumpReplayProofs` | `KeepsRecords` | `Spec => []ReplayKeepsRecords` |
| | `RefusedForSeeds` | `Spec => []RefusedOnlyForSeeds` |
| `FirmwareProofs` | `WindowsClose` | `TensorAssumption => (Spec => []WindowCloses)` |
| | `RateIsMeasured` | `TensorAssumption => (Spec => RateMeasuresTheWindow)` |
| | `RuntimeIsFlushCounter` | `TensorAssumption => (FirmwareSpec => CountsFlushes)` |
| | `BenchIsSound` | `FirmwareAssumption => (FirmwareSpec => []BenchSound)` |
| `HostProofs` | `FlashTypes` | `Flash!FlashAssumption => (Flash!Spec => []Flash!TypeOK)` |
| | `CompletedIsFlashed` | `InstallSpec => []CompletedMeansFlashed` |
| | `ErasedIsFlashed` | `InstallSpec => ErasedOnlyAfterVerify` |
| | `BridgeIsExact` | `InstallSpec => []BridgeExact` |
| | `ConsoleIsExact` | `ConsoleSpec => []SessionExact` (of `MCConsole`) |
| | `RowsAreStored` | `ConsoleSpec => []RowsStored` |
| | `OwnRecordsAreKept` | `ConsoleSpec => OwnRecordsStay` |
| `QuarkPairProofs` | `PairTypeCorrect` | `Spec => []TypeOK` |
| | `FrameIntact` | `Spec => []PreparedFrameIntact` |
| | `RunComplete` | `Spec => []ResultIsComplete` |
| | `Genuine` | `Spec => []AcceptedIsGenuine` |
| `QuarkLaneProofs` | `LaneTypes` | `Spec => []TypeOK` |
| | `RetryResendsInFlight` | `Spec => []RetryIsInFlight` |
| | `OkIsComplete` | `Spec => []ResultIsComplete` |
| | `AcceptedGenuine` | `Spec => []AcceptedIsGenuine` |
| | `DamageHeals` | `Spec => []DamageIsHealed` |
| | `TrioCompletes` | `LanesSpec => []TrioIsComplete` |
| `PackagesProofs` | `ReadyIsNotWritten` | `Spec => NeverWrittenWhileReady` |
| | `ReadyIsLoaded` | `Spec => []ReadyMeansLoaded` |
| | `SelectionsAreOwn` | `PackagesSpec => []LogitsAreOwn` |
| | `TrainingIsExact` | `PackagesSpec => []CheckpointsExact` |
| | `CountsExact`, `OneMoment`, `DoneAtTarget` | `Train!CheckpointsAssumption => (Train!Spec => []...)` for the three parts of it |
| | `WholeStays` | `PackagesSpec => ResumableStays` |

A theorem about a sum module (`...Spec` with a prefix) rests on two facts: the part
that runs behaves by the component's `Spec`, and the variables of the others are
still initial, which for their own invariants is enough.

The arguments:

- *Scans.* `FirstIsLeast` shows, by well-foundedness of `<` on the naturals, that
  a nonempty set of slots has a least one; everything about `findById` and its
  siblings follows (`ScanResult`, `FindByIdResult`, `StoreSlotResult`).
- *Unique ids.* Inductive with the types. The work is `StoreKeepsUnique`: if the
  stored id is the id sent, the slot written is the slot that holds it, if any.
- *Saving.* `SavedMeansStored` is not inductive: nothing says what is in NVS when
  `saveBank` is about to return. `SaveProgress` adds what each stage has written
  (`n` valid after the first put, boot count after the second, blob after the
  third), that a blob never exists without a valid `n`, and that no
  acknowledgement survives a reset. `FlushClearedStored` and `Refinement` use the
  same invariant; in the refinement `PutBank` is the abstract `Commit`, and the
  other puts are stutters because a blob without `n` cannot exist.
- *Cache.* `CacheAgreesWithBank` needs `DuplicatesOnlyWhenCut`: with two records
  of one row, removing the first would expose a different body. Storing a packet
  that is not a model packet adds no row record (`StoreKeepsRows`), because
  cutting an id cannot create the model prefix.
- *Replay.* `ReplayInv` says of dumps with unique ids and coordinates that every
  record of the replacement is a seed record or that of a line already replayed,
  in distinct slots (`NoTwins`), that the replayed lines which were not refused are
  there, and that a line was refused only by a full bank. `RefusedOnlyForSeeds` then
  is a counting argument, which `Pigeonhole` supplies.
- *Runtime.* `AgeInv`: as long as a window is younger than a period, its age can
  be read off the wrapped clock, which makes the rate the measured one. `NanInv`
  follows the values that are no numbers: a score that is none stays so, and while
  no input is, a window has fewer than `BurstMax` receptions and the rows that choose the
  burst are numbers. `NumbersInv` says that a weight or input that is none shows in the score, and that the
  threshold is within its clamps while there is none; every step of the runtime is then
  a step of `FlushCounter` or a stutter, and only `SetW` and `ResetSeed` change whether
  there are numbers only (`NumbersKept`, `ClockSteps`, `NanPartSteps`).
- *BENCH.* `BenchInv`: a model that answers is allocated and sound (`Allocated`).
  The rest is the insertion sort. Its loops are recursive functions, whose values
  are reached by counting up (`Climb`, `Iterates`). The inner loop stops behind the
  last element that is not larger (`StopsBehind`); a round keeps what is sorted
  ordered (`InsertedOrders`) and is a bijection of the places (`InsertedRearranges`);
  hence `sort32` orders its array and neither loses nor invents a sample
  (`SortSorts`). The k-th element of such an array has at least k samples at or
  below it (`SortedCounts`), which the indices of `print_pct` turn into the
  percentages (`PercentilesRight`).
- *Bridge.* `Outward`: what the terminal has seen, what the pty holds and what the
  chunk still owes are increasing and, with the units lost at the end, exactly the
  units taken from the device. `Inward`: every unit on the way to the board follows
  all smaller ones, until the stop nothing is missing. `Bounded` and `Leaving` give
  the sizes and the order of the last calls.
- *Console.* `Capturing`: what is captured, in the transfer and in the endpoint is
  an increasing sequence of printed units, and with those dropped by timeouts it
  is all of them since the client began. `Commanding`: the script's lines are those
  executed, the one in the line buffer and those in the pipe, as long as none was
  cut or taken in part.
- *Host model.* The script, its four rows, twelve texts and four queries are the
  program's own; the bank's size, the number and the coordinates of the foreign
  records it holds, the queries the program has doubts about, the late windows and the losses are arbitrary. First
  come the coordinates. The sum `embed` normalises by, and the shifting of an example
  that finds its place taken (`Place`), are recursive functions; the values needed
  are found by giving a function that satisfies the recursion (`SumIs`) or by
  counting up to the place in question (`Climb`, which rests on `LeastOf`), so that
  no induction principle with an operator parameter is cited. `TextsAre` has the
  coordinates of the twelve texts, `PlacedIs` those after example 6 has moved away
  from example 5, whose stems it shares. Hence records at the same coordinates have
  the same id (`Apart`), those of other programs (`Foreign`) excepted. What `storePacket` does with a bank comes from the lemmas of
  `PacketBankProofs`, by the instance `Facts`. The types and `Orderly`, that a bank
  holds each id once and only records of these kinds, are inductive (`HostTypes`),
  and `OwnRecordsStay` follows from them for each step (`RecordsKept`).
  `RowsStored` needs `HostInv`: in the first step, what an earlier program has left
  to be received was printed before the answer to ID; later, as long as nothing has
  failed, the bank holds what every earlier step stored (`StoredSoFar`), and the answers on
  their way are those to the present step (`AnswersOwn`). The row that GET prints is
  then the one that was sent, since only one record has its id.
- *Pair, master half.* `MasterInv`: the stream in flight has a step to take, its
  frame is prepared until `dispatch` ends and not again before `collect` ends, so
  at most one stream is prepared at any time and the one frame is its frame. The
  scheduler ends a run only when neither stream is active, which with
  `pos <= Steps` is completeness. That positions keep their type needs the same
  invariant, so both are proved together.
- *Pair, link.* `AcceptedIsGenuine` needs to know where the worker can stand.
  `LineInv` ties READY to the worker's phase; `LinkInv` says, for a run without a
  worker reset, that the first dispatch has drained any reply of an aborted run,
  that what the worker computes or holds afterwards is the step in flight, and
  that its cache holds every earlier position of this run. So a buffer that
  `collect` accepts is the answer to this run's request: `NoFrame` belongs to
  no stream (`NoFrameRefused`), and `ForwardAnswers` shows that an answer over a
  complete prefix is what `Compute` leaves.
- *Lane, master half.* `LaneInv` is that of the pair with the retry copy: from the
  end of `dispatch` to the end of `collect` it is the frame of the stream in flight,
  and `tx` may be the other's. The worker's steps leave all of it alone.
- *Lane, link.* `LinkInv` ties READY to the worker's phase. A lane does not know
  in which phase it finds its worker, so `GenuineInv` says, unless the worker was
  reset (`GenuineFacts`), what each frame is worth to this run while the worker
  takes it, computes with it, offers it, and while the lane collects it.
- *Lane, damage.* Without missed pulses and resets, lane and worker take turns
  (`Turns`, `Lockstep`), and each further attempt has cost one damaged transfer: two
  of them cannot use up three attempts.
- *Trio.* `Account` counts the notifications that the tasks of a run still owe
  the controller; `Written` and `Own` say what a task that has notified has left
  in its result, and that its frames are its own. They hold for a run that no
  given-up run preceded (`Undisturbed`).
- *Installation.* `FlashInv` says for each stage of the script which images are
  new, and for each stage of `usb_app_reset` what lines and mode are if no
  transfer has failed since the last power cycle.
- *Loader.* For `ReadyIsNotWritten` it is enough that a ready stage expects no
  block. `ReadyIsLoaded` needs the load's bookkeeping: `LoaderInv` says that, unless
  a chunk's bytes did not all come (`Torn`), the blocks below the count hold the
  vocabulary; that a load is active exactly while it expects its whole size, except
  after a cut chunk; and that a ready stage is complete or had a cut chunk. The
  types need `LinesOfStarts`: every line and every answer on its way goes back to
  a start of the runner, but for one foreign line.
- *Ring.* Three questions, one part of the invariant each. Which packets are in the
  ring: `Flow` describes them by how many waits were given up (none, `Undisturbed`:
  the request being answered, somewhere on its way; one, `OneBehind`: a packet
  late by one transfer), `ReplyFlow` the replies on their way back, `Clean` a ring
  between commands. What each of them carries: `Forms` and `Filled` say which
  requests and entries a packet or a cache may hold, and what the hidden vector was
  computed over. Where each stage's scan stands: `Jobs`, only while no wait was
  given up and the host is patient, since otherwise the vector really changes under
  the scan. Sequence numbers need not be fresh for this, only neighbours distinct.
  `Ring` and `Late` of `MCPackages` are two instances of one such ring
  (`RingSteps`, `LateSteps`).
- *Training.* `CheckpointsInv` gives each file and the run the same account:
  tokens presented is tokens drawn, `rng` is where the weights are. `DoneAtTarget`
  rests on a lemma about rounding up (`Ceilings`).

Only model-checked:

- everything with fairness (`FlushHappens`, `RunsRecover`, `FaultsEnd`,
  `NoBootLoop`, `StopsOrBlocks`, `FlashCanBeRepeated`, `RunsEnd`,
  `SelectionsSucceed`), since liveness and `ENABLED` are outside the prover.

## 6. Not modelled

- *Numerics*: floating-point and ternary kernels, the static model library,
  training, softmax, generated tables. Out of TLC's reach, and without control
  state.
- *Text*: the wording of messages and the tokenising of console lines. A `PKT` line
  that is refused before `storePacket` changes nothing that is modelled. The echo
  that `handlePkt` prints looks the id up again as it was sent; what it prints for
  an over-long id is not modelled.
- *The interleaved generator* of ParetoQ (`BENCH INTERLEAVE1`, `INTERLEAVE2`,
  `INTERLEAVE5`, `CONTEXT5`, `CHAINCHECK`): `PACKAGE_MANIFEST.md:18` leaves these
  experiments out of the package. `pipeline_advance` asks stage 5 for layers
  (`paretoq_node.ino:955`), which in the six-board ring is the relay
  (`paretoq_node.ino:1676`); it forwards the request as it came, with source 0,
  which `pipeline_advance` refuses. No token of it can end, so that there is
  nothing to check beyond this.
- *Loader*: a `LOADBEGIN` of the wrong size, which is refused and changes nothing;
  the runner sends the right one.
- *Trio after a timeout*: no property covers a RUN that follows one which was given
  up; `trio_timeout` shows what happens, and nothing in the repository promises more.
- *Ring*: `BUSTEST` and `LINKTEST`, the console's tests of the wires; FetchEmbedding, which travels like a layer request and keeps nothing at
  a stage; reboots of single boards, after which a stage is not ready and its
  vocabulary must be loaded again; a second `LOADBEGIN` on a stage whose bus runs.
- *Physical benchmark runner*: only `preload`. Capturing and comparing a run's
  output is one pass over text.
- *V2 validator*: a straight line of commands and expected answers; what it relies
  on is in `SsosKernel`.
- *Desktop installers and packaging*: the desktop scripts run the steps of
  `FlashTermux` without the bridge; packaging copies files. The partition table
  that `initialize-settings.py` parses is taken as found.
- *Corpus and report tools*: pure file transformations.

## 7. Plan

Done: the controller with its bank, store, runtime and `BENCH`; migration; the host
programs, the bridge and the installation; pair and trio; loader, ring and logits
service of ParetoQ; the checkpoints of training; and the proofs of section 5, which
state every invariant and every action property of the runs, and the two
refinements.

Next: resets of single boards in the ring, with the loader composed: a stage that is
not ready and must be loaded again while the others run.
