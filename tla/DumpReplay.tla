----------------------------- MODULE DumpReplay -----------------------------
(***************************************************************************)
(* Moving a controller to another board: DUMP prints one PKT line per used *)
(* slot of the source, in slot order, and a host sends those lines to a    *)
(* freshly seeded replacement ("Same image + DUMP|PKT lines installs a     *)
(* replacement controller", ssos_kernel.ino).                              *)
(*                                                                         *)
(* The source bank is filled by PKT and DEL first, so that every bank that *)
(* is dumped is one the firmware can reach.                                *)
(***************************************************************************)
EXTENDS PacketBank

CONSTANTS
    Inputs,     \* the packets a host may send to the source
    LineBody    \* record -> the part of its body that fits on its PKT line

(***************************************************************************)
(* A full record prints as up to 243 characters and loop() keeps 239 of a  *)
(* line, so the end of the body may be dropped when the line comes back.   *)
(***************************************************************************)
ASSUME ReplayAssumption ==
    /\ Inputs \subseteq Packet
    /\ LineBody \in [Packet -> Bodies]

VARIABLES
    src,        \* the bank of the source board
    tgt,        \* the bank of the replacement
    phase,      \* "fill" the source, "replay" the dump, or "done"
    line,       \* the slot of src whose line is sent next
    refused     \* the slots of src whose line was answered ERR

vars == <<src, tgt, phase, line, refused>>

TypeOK ==
    /\ src \in Banks
    /\ tgt \in Banks
    /\ phase \in {"fill", "replay", "done"}
    /\ line \in 1..(PktMax + 1)
    /\ refused \in SUBSET Slots

Init ==
    /\ src = SeedBank
    /\ tgt = SeedBank
    /\ phase = "fill"
    /\ line = 1
    /\ refused = {}

SourcePkt(p) ==
    /\ phase = "fill"
    /\ StoreSlot(src, p) # NoSlot
    /\ src' = StorePacket(src, p)
    /\ UNCHANGED <<tgt, phase, line, refused>>

SourceDel(id) ==
    /\ phase = "fill"
    /\ FindById(src, id) # NoSlot
    /\ src' = [src EXCEPT ![FindById(src, id)] = Empty]
    /\ UNCHANGED <<tgt, phase, line, refused>>

\* Mutant: the scan starts one before the first slot.
DumpFromZero ==
    /\ phase = "fill"
    /\ phase' = "replay"
    /\ line' = 0
    /\ UNCHANGED <<src, tgt, refused>>

Dump ==
    /\ phase = "fill"
    /\ phase' = "replay"
    /\ UNCHANGED <<src, tgt, line, refused>>

\* What the replacement reads of the line that emitPkt printed for p.
Typed(p) == [p EXCEPT !.body = LineBody[p]]

\* cmdDump prints nothing for an unused slot.
SkipSlot ==
    /\ phase = "replay" /\ line \in Slots
    /\ src[line] = Empty
    /\ line' = line + 1
    /\ UNCHANGED <<src, tgt, phase, refused>>

SendLine ==
    /\ phase = "replay" /\ line \in Slots
    /\ src[line] # Empty
    /\ IF StoreSlot(tgt, Typed(src[line])) = NoSlot
         THEN refused' = refused \cup {line} /\ tgt' = tgt
         ELSE tgt' = StorePacket(tgt, Typed(src[line])) /\ refused' = refused
    /\ line' = line + 1
    /\ UNCHANGED <<src, phase>>

Finish ==
    /\ phase = "replay" /\ line = PktMax + 1
    /\ phase' = "done"
    /\ UNCHANGED <<src, tgt, line, refused>>

\* Another replacement board is installed from the same source.
NextBoard ==
    /\ phase = "done"
    /\ phase' = "fill"
    /\ tgt' = SeedBank
    /\ line' = 1
    /\ refused' = {}
    /\ src' = src

Next ==
    \/ \E p \in Inputs : SourcePkt(p) \/ SourceDel(p.id)
    \/ Dump \/ SkipSlot \/ SendLine \/ Finish \/ NextBoard

Spec == Init /\ [][Next]_vars

-----------------------------------------------------------------------------
\* Properties.

Records(b) == {b[i] : i \in Used(b)}

\* Ids and coordinates are unique, as docs/PROTOCOL.md asks of the host, and
\* every record comes through its own line unchanged.
Distinct(b) ==
    \A i, j \in Used(b) : i # j => b[i].id # b[j].id /\ b[i].d # b[j].d

Portable(b) ==
    /\ Distinct(b)
    /\ \A i \in Used(b) : Stored(Typed(b[i])) = b[i]

(***************************************************************************)
(* Replaying a dump whose ids and coordinates are unique never destroys a  *)
(* record it has already installed, although each line may evict a seed    *)
(* record by id or by coordinate; what else the replacement holds at any   *)
(* time is a seed record.                                                  *)
(***************************************************************************)
ReplayKeepsRecords ==
    Portable(src) =>
        /\ \A i \in Used(src) : i < line /\ i \notin refused => src[i] \in Records(tgt)
        /\ Records(tgt) \subseteq Records(src) \cup {KernelPkt, UsbPkt}

(***************************************************************************)
(* A line is refused only when the replacement is full of records of the   *)
(* dump and of at most the two seed records.                               *)
(***************************************************************************)
RefusedOnlyForSeeds ==
    Portable(src) /\ refused # {} =>
        /\ Used(tgt) = Slots
        /\ {KernelPkt, UsbPkt} \cap (Records(tgt) \ Records(src)) # {}

(***************************************************************************)
(* docs/PROTOCOL.md: "`DUMP` prints the current packet records as `PKT`    *)
(* lines [...] Those lines are a replayable packet-state snapshot."        *)
(***************************************************************************)
SnapshotIsReplayable ==
    phase = "done" => Records(src) \subseteq Records(tgt)
=============================================================================
