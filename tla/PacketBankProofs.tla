-------------------------- MODULE PacketBankProofs --------------------------
(***************************************************************************)
(* Facts about the packet bank, for every capacity and every set of ids,   *)
(* coordinates and bodies: what the searches return, and what storePacket  *)
(* does to the ids in the bank.                                            *)
(***************************************************************************)
EXTENDS PacketBank, WellFoundedInduction, TLAPS

(***************************************************************************)
(* The linear scans of findById, findByCoord and allocSlot stop at a slot  *)
(* they were looking for, and at the first such slot.                      *)
(***************************************************************************)
LEMMA FirstIsLeast ==
    ASSUME NEW S \in SUBSET Slots, S # {}
    PROVE  First(S) \in S /\ \A j \in S : First(S) <= j
<1> DEFINE Less == {q \in Nat \X Nat : q[1] < q[2]}
<1>1. S \subseteq Nat
    BY PktMaxAssumption DEF Slots
<1>2. IsWellFoundedOn(Less, Nat)
    BY NatLessThanWellFounded, Zenon DEF OpToRel
<1>3. PICK i \in S : \A j \in S : ~(<<j, i>> \in Less)
    BY <1>1, <1>2, WFMin, Zenon
<1>4. ASSUME NEW j \in S, j < i
      PROVE  <<j, i>> \in Less
  <2>1. <<j, i>> \in Nat \X Nat
      BY <1>1
  <2> QED BY <2>1, <1>4
<1>5. \A j \in S : ~(j < i)
    BY <1>3, <1>4, Zenon
<1>6. \A j \in S : i <= j
    BY <1>1, <1>5
<1> QED BY <1>6 DEF First

\* An index variable holds a slot of the wanted kind, or NoSlot if there is none.
LEMMA ScanResult ==
    ASSUME NEW S \in SUBSET Slots
    PROVE  /\ S = {} <=> FirstOrNone(S) = NoSlot
           /\ S # {} => FirstOrNone(S) \in S /\ FirstOrNone(S) \in Slots
<1>1. NoSlot \notin Slots
    BY PktMaxAssumption DEF NoSlot, Slots
<1>2. CASE S = {}
    BY <1>2 DEF FirstOrNone
<1>3. CASE S # {}
    BY <1>1, <1>3, FirstIsLeast DEF FirstOrNone
<1> QED BY <1>2, <1>3

\* findById finds a record exactly when one with that id is in use.
LEMMA FindByIdResult ==
    ASSUME NEW b \in Banks, NEW id
    PROVE  /\ WithId(b, id) = {} <=> FindById(b, id) = NoSlot
           /\ WithId(b, id) # {} =>
                 FindById(b, id) \in WithId(b, id) /\ FindById(b, id) \in Slots
<1>1. WithId(b, id) \in SUBSET Slots
    BY DEF WithId, Used
<1> QED BY <1>1, ScanResult DEF FindById

\* storePacket writes to a slot of the bank, and to the slot that holds the id
\* if some slot does.
LEMMA StoreSlotResult ==
    ASSUME NEW b \in Banks, NEW p \in Packet, StoreSlot(b, p) # NoSlot
    PROVE  /\ StoreSlot(b, p) \in Slots
           /\ WithId(b, p.id) # {} => StoreSlot(b, p) \in WithId(b, p.id)
<1>1. WithCoord(b, p.d) \in SUBSET Slots /\ Free(b) \in SUBSET Slots
    BY DEF WithCoord, Used, Free
<1>2. FindByCoord(b, p.d) # NoSlot => FindByCoord(b, p.d) \in Slots
    BY <1>1, ScanResult DEF FindByCoord
<1>3. AllocSlot(b) # NoSlot => AllocSlot(b) \in Slots
    BY <1>1, ScanResult DEF AllocSlot
<1> QED BY <1>2, <1>3, FindByIdResult DEF StoreSlot

(***************************************************************************)
(* storePacket fills one slot: that of the record with this id if there is *)
(* one, else that of a record at these coordinates, else an unused one.    *)
(***************************************************************************)
LEMMA StoreSlotChoice ==
    ASSUME NEW b \in Banks, NEW p \in Packet, StoreSlot(b, p) # NoSlot
    PROVE  /\ StoreSlot(b, p) \in Slots
           /\ \/ StoreSlot(b, p) \in WithId(b, p.id)
              \/ WithId(b, p.id) = {} /\ StoreSlot(b, p) \in WithCoord(b, p.d)
              \/ WithId(b, p.id) = {} /\ StoreSlot(b, p) \in Free(b)
<1>1. /\ WithId(b, p.id) \in SUBSET Slots /\ WithCoord(b, p.d) \in SUBSET Slots
      /\ Free(b) \in SUBSET Slots
    BY DEF WithId, WithCoord, Free, Used
<1>2. FindById(b, p.id) # NoSlot => FindById(b, p.id) \in WithId(b, p.id)
    BY <1>1, ScanResult DEF FindById
<1>3. FindById(b, p.id) = NoSlot => WithId(b, p.id) = {}
    BY <1>1, ScanResult DEF FindById
<1>4. FindByCoord(b, p.d) # NoSlot => FindByCoord(b, p.d) \in WithCoord(b, p.d)
    BY <1>1, ScanResult DEF FindByCoord
<1>5. AllocSlot(b) # NoSlot => AllocSlot(b) \in Free(b)
    BY <1>1, ScanResult DEF AllocSlot
<1> QED BY <1>1, <1>2, <1>3, <1>4, <1>5 DEF StoreSlot

\* What storePacket writes is a packet.
LEMMA StoredType ==
    ASSUME NEW p \in Packet
    PROVE  Stored(p) \in Packet
BY ClipAssumption DEF Stored, Packet

\* storePacket yields a bank.
LEMMA StorePacketType ==
    ASSUME NEW b \in Banks, NEW p \in Packet
    PROVE  StorePacket(b, p) \in Banks
BY StoredType DEF StorePacket, Banks

\* seedController writes both of its records, into a bank.
LEMMA SeedBankType == SeedBank \in Banks
<1>1. EmptyBank \in Banks
    BY DEF EmptyBank, Banks
<1> QED BY <1>1, SeedAssumption, StorePacketType DEF SeedBank

LEMMA ClearModelPacketsType ==
    ASSUME NEW b \in Banks
    PROVE  ClearModelPackets(b) \in Banks
BY DEF ClearModelPackets, Banks

\* loadModelPackets yields decoded rows only, or no model.
LEMMA LoadModelPacketsType ==
    ASSUME NEW b \in Banks
    PROVE  LoadModelPackets(b) \in Models \cup {NoModel}
<1>1. CASE RowsComplete(b)
  <2>1. \A r \in RowIds : RowWeights(b, r) \in Weights
    <3> TAKE r \in RowIds
    <3>1. WithId(b, r) # {} /\ RowWeights(b, r) # BadRow
        BY <1>1 DEF RowsComplete
    <3>2. WithId(b, r) \in SUBSET Slots
        BY DEF WithId, Used
    <3>3. First(WithId(b, r)) \in WithId(b, r)
        BY <3>1, <3>2, FirstIsLeast
    <3>4. b[First(WithId(b, r))] \in Packet
        BY <3>3 DEF WithId, Used, Banks
    <3>5. RowWeights(b, r) \in Weights \cup {BadRow}
        BY <3>4, ModelAssumption DEF RowWeights, Packet
    <3> QED BY <3>1, <3>5
  <2> QED BY <2>1, <1>1 DEF LoadModelPackets, Models
<1>2. CASE ~RowsComplete(b)
    BY <1>2 DEF LoadModelPackets
<1> QED BY <1>1, <1>2

-----------------------------------------------------------------------------
\* Ids in the bank.

\* Removing records cannot make an id occur twice.
LEMMA RemovalKeepsUnique ==
    ASSUME NEW b \in Banks, NEW c \in Banks, UniqueUncut(b),
           \A i \in Slots : c[i] = b[i] \/ c[i] = Empty
    PROVE  UniqueUncut(c)
BY DEF UniqueUncut, Used

(***************************************************************************)
(* storePacket never makes an id occur twice that it did not have to cut:  *)
(* the slot it takes is the slot of that id whenever there is one.         *)
(***************************************************************************)
LEMMA StoreKeepsUnique ==
    ASSUME NEW b \in Banks, NEW p \in Packet, StoreSlot(b, p) # NoSlot, UniqueUncut(b)
    PROVE  UniqueUncut(StorePacket(b, p))
<1> DEFINE k == StoreSlot(b, p)
           c == StorePacket(b, p)
<1>1. k \in Slots /\ (WithId(b, p.id) # {} => k \in WithId(b, p.id))
    BY StoreSlotResult
<1>2. /\ c[k] = Stored(p)
      /\ c[k].id = ClipId[p.id]
      /\ \A i \in Slots : i # k => c[i] = b[i]
    BY <1>1 DEF StorePacket, Stored, Banks
<1>3. ClipId[p.id] # p.id => ClipId[p.id] \in CutIds
    BY DEF CutIds, Packet
<1>4. ASSUME NEW j \in Used(b), j # k, b[j].id = ClipId[p.id]
      PROVE  ClipId[p.id] \in CutIds
  <2>1. CASE ClipId[p.id] = p.id
    <3>1. j \in WithId(b, p.id)
        BY <1>4, <2>1 DEF WithId
    <3>2. k \in Used(b) /\ b[k].id = p.id
        BY <3>1, <1>1 DEF WithId
    <3> QED BY <3>2, <1>4, <2>1 DEF UniqueUncut
  <2> QED BY <2>1, <1>3
<1>5. ASSUME NEW i \in Used(c), NEW j \in Used(c), i # j, c[i].id = c[j].id
      PROVE  c[i].id \in CutIds
  <2>1. CASE i = k
    <3>1. j \in Used(b) /\ b[j].id = ClipId[p.id]
        BY <1>2, <1>5, <2>1 DEF Used
    <3> QED BY <3>1, <2>1, <1>2, <1>4, <1>5
  <2>2. CASE j = k
    <3>1. i \in Used(b) /\ b[i].id = ClipId[p.id]
        BY <1>2, <1>5, <2>2 DEF Used
    <3> QED BY <3>1, <2>2, <1>2, <1>4, <1>5
  <2>3. CASE i # k /\ j # k
      BY <2>3, <1>2, <1>5 DEF Used, UniqueUncut
  <2> QED BY <2>1, <2>2, <2>3
<1> HIDE DEF c, k
<1>6. UniqueUncut(c)
    BY <1>5 DEF UniqueUncut
<1> QED BY <1>6 DEF c

\* A bank with an unused slot refuses no packet.
LEMMA FreeSlotAccepts ==
    ASSUME NEW b \in Banks, NEW p \in Packet, Free(b) # {}
    PROVE  StoreSlot(b, p) # NoSlot
<1>1. Free(b) \in SUBSET Slots
    BY DEF Free
<1>2. AllocSlot(b) # NoSlot
    BY <1>1, ScanResult DEF AllocSlot
<1> QED BY <1>2 DEF StoreSlot

\* The bank that seedController leaves has no id twice.
LEMMA SeedUnique == UniqueUncut(SeedBank)
<1> DEFINE one == StorePacket(EmptyBank, KernelPkt)
<1>1. EmptyBank \in Banks /\ one \in Banks
    BY SeedAssumption, StorePacketType DEF EmptyBank, Banks
<1>2. UniqueUncut(EmptyBank)
    BY DEF UniqueUncut, EmptyBank, Used
<1>3. 1 \in Slots /\ 2 \in Slots /\ 1 # 2
    BY PktMaxAssumption DEF Slots
<1>4. Free(EmptyBank) # {}
    BY <1>3 DEF Free, Used, EmptyBank
<1>5. StoreSlot(EmptyBank, KernelPkt) # NoSlot
    BY <1>1, <1>4, SeedAssumption, FreeSlotAccepts
<1>6. Free(one) # {}
    BY <1>3 DEF Free, Used, StorePacket, EmptyBank
<1>7. UniqueUncut(one)
    BY <1>1, <1>2, <1>5, SeedAssumption, StoreKeepsUnique
<1>8. StoreSlot(one, UsbPkt) # NoSlot
    BY <1>1, <1>6, SeedAssumption, FreeSlotAccepts
<1> HIDE DEF one
<1>9. UniqueUncut(StorePacket(one, UsbPkt))
    BY <1>1, <1>7, <1>8, SeedAssumption, StoreKeepsUnique
<1> QED BY <1>9 DEF one, SeedBank

-----------------------------------------------------------------------------
\* The rows of the model.

\* Where ids are unique, every record with a row's id is the one that
\* loadModelPackets decodes.
LEMMA RowIsAnyRecord ==
    ASSUME NEW b \in Banks, UniqueUncut(b), NEW r \in RowIds, NEW i \in WithId(b, r)
    PROVE  RowWeights(b, r) = Q10[b[i].body]
<1>1. r \notin CutIds
    BY ClipAssumption DEF CutIds
<1>2. WithId(b, r) \in SUBSET Slots
    BY DEF WithId, Used
<1>3. First(WithId(b, r)) \in WithId(b, r)
    BY <1>2, FirstIsLeast
<1>4. First(WithId(b, r)) = i
    BY <1>1, <1>3 DEF UniqueUncut, WithId
<1> QED BY <1>4 DEF RowWeights

\* A step that neither adds nor changes a record of row r leaves its weights,
\* as long as the row is there at all.
LEMMA RowKept ==
    ASSUME NEW b \in Banks, UniqueUncut(b), NEW c \in Banks, UniqueUncut(c),
           NEW r \in RowIds, WithId(c, r) # {},
           \A i \in WithId(c, r) : i \in WithId(b, r) /\ c[i] = b[i]
    PROVE  WithId(b, r) # {} /\ RowWeights(c, r) = RowWeights(b, r)
<1>1. PICK i \in WithId(c, r) : i \in WithId(b, r) /\ c[i] = b[i]
    OBVIOUS
<1>2. RowWeights(b, r) = Q10[b[i].body] /\ RowWeights(c, r) = Q10[c[i].body]
    BY <1>1, RowIsAnyRecord
<1> QED BY <1>1, <1>2

\* Storing a packet that is not one of the model's cannot add a row record.
LEMMA StoreKeepsRows ==
    ASSUME NEW b \in Banks, NEW p \in Packet, StoreSlot(b, p) # NoSlot,
           p.id \notin ModelIds, NEW r \in RowIds, NEW i \in WithId(StorePacket(b, p), r)
    PROVE  i \in WithId(b, r) /\ StorePacket(b, p)[i] = b[i]
<1>1. StoreSlot(b, p) \in Slots
    BY StoreSlotResult
<1>2. ClipId[p.id] # r
    BY ClipAssumption, ModelAssumption DEF Packet
<1>3. i \in Slots /\ StorePacket(b, p)[i] # Empty /\ StorePacket(b, p)[i].id = r
    BY DEF WithId, Used
<1>4. i # StoreSlot(b, p)
    BY <1>1, <1>2, <1>3 DEF StorePacket, Stored, Banks
<1> QED BY <1>1, <1>3, <1>4 DEF StorePacket, Banks, WithId, Used
=============================================================================
