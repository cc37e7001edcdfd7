----------------------------- MODULE PacketBank -----------------------------
(***************************************************************************)
(* The packet bank of the SSOS controller: the fixed array `bank` of       *)
(* firmware/ssos_kernel/ssos_kernel.ino, the searches over it, the         *)
(* replacement rule of storePacket, and the decoding of the model rows.    *)
(* Everything here is a function of a bank value; the state machine that   *)
(* owns the bank is SsosKernel.                                            *)
(*                                                                         *)
(* A record keeps the fields that some search or some decoder reads: id,   *)
(* the nine coordinates (one opaque value) and body.  role, hash, perm and *)
(* gen are stored and printed but never read back by the firmware; they    *)
(* travel with body.  An unused slot is Empty.                             *)
(***************************************************************************)
EXTENDS Naturals

CONSTANTS
    PktMax,     \* PKT_MAX, 32 in the firmware
    Ids,        \* packet ids, as a host may spell them
    Coords,     \* nine-dimensional coordinates
    Bodies,     \* packet bodies, as a host may spell them
    ClipId,     \* what strncpy(p->id, id, ID_MAX - 1) leaves of an id
    ClipBody,   \* what strncpy(p->body, body, BODY_MAX - 1) leaves of a body
    ModelIds,   \* the ids that start with "model:w:"
    RowIds,     \* "model:w:0" .. "model:w:7"
    Weights,    \* rows of nine decoded weights
    BadRow,     \* parseModelQ10Row refused the body
    Q10,        \* parseModelQ10Row: body -> decoded row, or BadRow
    Empty,      \* a slot whose `used` flag is 0
    NoModel,    \* model_ready is false
    KernelPkt,  \* the record "ctrl:kernel" that seedController writes
    UsbPkt      \* the record "ctrl:usb" that seedController writes

Slots == 1..PktMax

Packet == [id: Ids, d: Coords, body: Bodies]

Banks == [Slots -> Packet \cup {Empty}]

\* The decoded cache model_w72: one row of weights per row id.
Models == [RowIds -> Weights]

(***************************************************************************)
(* The fields fit in a C array: cutting a stored text again changes        *)
(* nothing, the eight characters "model:w:" survive the cut, and the row   *)
(* ids and the two controller records are short enough to be kept whole    *)
(* (nine characters, so no id that had to be cut becomes a row id).        *)
(***************************************************************************)
ASSUME PktMaxAssumption == PktMax \in Nat /\ PktMax >= 2

ASSUME ClipAssumption ==
    /\ ClipId \in [Ids -> Ids]
    /\ ClipBody \in [Bodies -> Bodies]
    /\ \A i \in Ids : ClipId[ClipId[i]] = ClipId[i]
    /\ \A i \in Ids : ClipId[i] \in ModelIds <=> i \in ModelIds
    /\ \A i \in RowIds : ClipId[i] = i
    /\ \A i \in Ids : ClipId[i] \in RowIds => ClipId[i] = i

ASSUME ModelAssumption ==
    /\ RowIds \subseteq ModelIds
    /\ ModelIds \subseteq Ids
    /\ Q10 \in [Bodies -> Weights \cup {BadRow}]
    /\ BadRow \notin Weights
    /\ NoModel \notin Models

ASSUME SeedAssumption ==
    /\ Empty \notin Packet
    /\ KernelPkt \in Packet
    /\ UsbPkt \in Packet
    /\ KernelPkt.id # UsbPkt.id
    /\ KernelPkt.d # UsbPkt.d
    /\ \A p \in {KernelPkt, UsbPkt} :
          /\ ClipId[p.id] = p.id
          /\ ClipBody[p.body] = p.body
          /\ p.id \notin ModelIds

-----------------------------------------------------------------------------
\* The slots a linear scan would stop at, and the one it stops at first.

Used(b) == {i \in Slots : b[i] # Empty}

First(S) == CHOOSE i \in S : \A j \in S : i <= j

WithId(b, id) == {i \in Used(b) : b[i].id = id}

WithCoord(b, d) == {i \in Used(b) : b[i].d = d}

Free(b) == Slots \ Used(b)

\* The value of an index variable that found nothing (-1 in the code).
NoSlot == 0

FirstOrNone(S) == IF S = {} THEN NoSlot ELSE First(S)

FindById(b, id) == FirstOrNone(WithId(b, id))

FindByCoord(b, d) == FirstOrNone(WithCoord(b, d))

\* Mutant: the scan stops one slot early.
AllocSlotShort(b) == FirstOrNone(Free(b) \ {PktMax})

AllocSlot(b) == FirstOrNone(Free(b))

-----------------------------------------------------------------------------
\* Mutant: the coordinate is looked up before the id.
StoreSlotCoordFirst(b, p) ==
    IF FindByCoord(b, p.d) # NoSlot THEN FindByCoord(b, p.d)
    ELSE IF FindById(b, p.id) # NoSlot THEN FindById(b, p.id)
    ELSE AllocSlot(b)

\* Mutant: a full bank evicts its last record instead of refusing.
StoreSlotEvicts(b, p) ==
    IF FindById(b, p.id) # NoSlot THEN FindById(b, p.id)
    ELSE IF FindByCoord(b, p.d) # NoSlot THEN FindByCoord(b, p.d)
    ELSE IF AllocSlot(b) # NoSlot THEN AllocSlot(b)
    ELSE PktMax

(***************************************************************************)
(* storePacket: the slot of the record with this id, else of the record at *)
(* these coordinates, else the first unused one.  The id is searched for   *)
(* as the host spelled it, and written as strncpy cuts it.                 *)
(***************************************************************************)
StoreSlot(b, p) ==
    IF FindById(b, p.id) # NoSlot THEN FindById(b, p.id)
    ELSE IF FindByCoord(b, p.d) # NoSlot THEN FindByCoord(b, p.d)
    ELSE AllocSlot(b)

Stored(p) == [id |-> ClipId[p.id], d |-> p.d, body |-> ClipBody[p.body]]

StorePacket(b, p) == [b EXCEPT ![StoreSlot(b, p)] = Stored(p)]

\* seedController: a zeroed bank, then two calls of storePacket.
EmptyBank == [i \in Slots |-> Empty]

SeedBank == StorePacket(StorePacket(EmptyBank, KernelPkt), UsbPkt)

\* The ids that strncpy produced from longer ones, and a bank in which no
\* other id occurs twice.
CutIds == {ClipId[i] : i \in {j \in Ids : ClipId[j] # j}}

UniqueUncut(b) ==
    \A i, j \in Used(b) : i # j /\ b[i].id = b[j].id => b[i].id \in CutIds

-----------------------------------------------------------------------------
(***************************************************************************)
(* loadModelPackets: every row must be found and must decode, otherwise    *)
(* the cache is cleared.                                                   *)
(***************************************************************************)
RowWeights(b, r) == Q10[b[First(WithId(b, r))].body]

RowsComplete(b) ==
    \A r \in RowIds : WithId(b, r) # {} /\ RowWeights(b, r) # BadRow

\* Mutant: a row that does not decode is not an error.
LoadModelPacketsUnchecked(b) ==
    IF \A r \in RowIds : WithId(b, r) # {}
      THEN [r \in RowIds |-> RowWeights(b, r)] ELSE NoModel

LoadModelPackets(b) ==
    IF RowsComplete(b) THEN [r \in RowIds |-> RowWeights(b, r)] ELSE NoModel

\* clearModelPackets: drop the record findById finds for each of the row ids.
ClearModelPackets(b) ==
    [i \in Slots |->
        IF \E r \in RowIds : i = FindById(b, r) THEN Empty ELSE b[i]]

=============================================================================
