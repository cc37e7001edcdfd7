-------------------------- MODULE DumpReplayProofs --------------------------
(***************************************************************************)
(* The properties of a replayed dump, for every capacity, every set of     *)
(* packets and every reachable source: what is installed stays, and only   *)
(* leftover seed records can make the replacement too small.               *)
(***************************************************************************)
EXTENDS DumpReplay, PacketBankProofs, FiniteSetTheorems

SeedRecords == {KernelPkt, UsbPkt}

\* No record is in a bank twice.
NoTwins(b) == \A i, j \in Used(b) : b[i] = b[j] => i = j

Banked ==
    /\ src \in Banks /\ tgt \in Banks
    /\ line \in Nat \ {0}
    /\ phase \in {"fill", "replay", "done"}
    /\ phase = "fill" => tgt = SeedBank /\ line = 1 /\ refused = {}

\* What the replacement holds is a seed record or came with an earlier line;
\* every earlier line was installed or refused, and a refused one is not there.
Replayed ==
    /\ \A k \in Used(tgt) : tgt[k] \in SeedRecords \/ \E i \in Used(src) : i < line /\ tgt[k] = src[i]
    /\ NoTwins(tgt)
    /\ \A i \in Used(src) : i < line /\ i \notin refused => \E k \in Used(tgt) : tgt[k] = src[i]
    /\ \A i \in refused : i \in Used(src) /\ i < line /\ \A k \in Used(tgt) : tgt[k] # src[i]
    /\ refused # {} => Used(tgt) = Slots

ReplayInv == Banked /\ (Portable(src) => Replayed)

-----------------------------------------------------------------------------
\* storePacket refuses only when no slot is unused and none has the id.
LEMMA StoreSlotRefuses ==
    ASSUME NEW b \in Banks, NEW p \in Packet, StoreSlot(b, p) = NoSlot
    PROVE  Used(b) = Slots /\ WithId(b, p.id) = {}
<1>1. WithId(b, p.id) \in SUBSET Slots /\ Free(b) \in SUBSET Slots
    BY DEF WithId, Free, Used
<1>2. NoSlot \notin Slots
    BY DEF NoSlot, Slots
<1>3. Free(b) = {}
    BY <1>1, <1>2, ScanResult, FreeSlotAccepts
<1>4. WithId(b, p.id) = {}
    BY <1>1, ScanResult DEF FindById, StoreSlot
<1> QED BY <1>3, <1>4 DEF Free, Used

\* A seeded bank holds the two seed records, each once, and nothing else.
LEMMA SeedBankRecords ==
    /\ \A k \in Used(SeedBank) : SeedBank[k] \in SeedRecords
    /\ NoTwins(SeedBank)
<1> DEFINE one == StorePacket(EmptyBank, KernelPkt)
           first == StoreSlot(EmptyBank, KernelPkt)
           second == StoreSlot(one, UsbPkt)
<1>1. Stored(KernelPkt) = KernelPkt /\ Stored(UsbPkt) = UsbPkt
    BY SeedAssumption DEF Stored, Packet
<1>2. \A i \in Slots : one[i] = IF i = first THEN KernelPkt ELSE Empty
    BY <1>1 DEF StorePacket, EmptyBank
<1>3. \A i \in Slots : SeedBank[i] = IF i = second THEN UsbPkt ELSE one[i]
  <2>1. DOMAIN one = Slots
      BY DEF StorePacket, EmptyBank
  <2>2. SeedBank = StorePacket(one, UsbPkt)
      BY DEF SeedBank
  <2>3. StorePacket(one, UsbPkt) = [one EXCEPT ![second] = UsbPkt]
      BY <1>1 DEF StorePacket
  <2> HIDE DEF one, second
  <2> QED BY <2>1, <2>2, <2>3
<1>4. KernelPkt # UsbPkt
    BY SeedAssumption
<1> HIDE DEF one, first, second
<1>5. \A i \in Used(SeedBank) :
         \/ i = second /\ SeedBank[i] = UsbPkt
         \/ i = first /\ SeedBank[i] = KernelPkt
  <2> SUFFICES ASSUME NEW i \in Slots, SeedBank[i] # Empty
               PROVE  \/ i = second /\ SeedBank[i] = UsbPkt
                      \/ i = first /\ SeedBank[i] = KernelPkt
      BY DEF Used
  <2> QED BY <1>2, <1>3
<1>6. \A i \in Used(SeedBank) : SeedBank[i] \in SeedRecords
    BY <1>5 DEF SeedRecords
<1>7. NoTwins(SeedBank)
  <2> SUFFICES ASSUME NEW i \in Used(SeedBank), NEW j \in Used(SeedBank), SeedBank[i] = SeedBank[j]
               PROVE  i = j
      BY DEF NoTwins
  <2> QED BY <1>4, <1>5
<1> QED BY <1>6, <1>7

\* A map of the slots to the slots that misses one takes two to the same.
LEMMA Pigeonhole ==
    ASSUME NEW f \in [Slots -> Slots], NEW r \in Slots,
           \A i, j \in Slots : f[i] = f[j] => i = j,
           \A i \in Slots : f[i] # r
    PROVE  FALSE
<1> DEFINE image == {f[i] : i \in Slots}
<1>1. IsFiniteSet(Slots)
    BY PktMaxAssumption, FS_Interval DEF Slots
<1>2. f \in Surjection(Slots, image) /\ f \in Injection(Slots, image)
    BY DEF Surjection, Injection, IsInjective
<1> HIDE DEF image
<1>3. Cardinality(image) = Cardinality(Slots)
    BY <1>1, <1>2, FS_Surjection
<1>4. image \in SUBSET Slots /\ r \notin image
    BY DEF image
<1>5. Slots = image
    BY <1>1, <1>3, <1>4, FS_Subset
<1> QED BY <1>4, <1>5

-----------------------------------------------------------------------------
\* A replacement that was just seeded has replayed nothing.
LEMMA SeededReplayed ==
    ASSUME tgt = SeedBank, line = 1, refused = {}, src \in Banks
    PROVE  Replayed
<1>1. \A i \in Used(src) : ~(i < line)
    BY DEF Used, Slots
<1> QED BY <1>1, SeedBankRecords DEF Replayed

(***************************************************************************)
(* A line that is taken: the slot it fills held no record of an earlier    *)
(* line, since those differ from it in id and coordinates.                 *)
(***************************************************************************)
LEMMA TakenReplayed ==
    ASSUME Banked, Portable(src), Replayed, line \in Used(src),
           StoreSlot(tgt, Typed(src[line])) # NoSlot,
           tgt' = StorePacket(tgt, Typed(src[line])),
           refused' = refused, line' = line + 1, src' = src
    PROVE  Replayed'
<1> DEFINE p == src[line]
           k == StoreSlot(tgt, Typed(p))
<1>1. /\ p \in Packet /\ Typed(p) \in Packet /\ Typed(p).id = p.id /\ Typed(p).d = p.d
      /\ Stored(Typed(p)) = p
    BY ReplayAssumption DEF Banked, Banks, Used, Typed, Packet, Portable
<1>2. /\ k \in Slots
      /\ \/ k \in WithId(tgt, p.id)
         \/ WithId(tgt, p.id) = {} /\ k \in WithCoord(tgt, p.d)
         \/ WithId(tgt, p.id) = {} /\ k \in Free(tgt)
    BY <1>1, StoreSlotChoice DEF Banked
<1>3. \A j \in Slots : tgt'[j] = IF j = k THEN p ELSE tgt[j]
    BY <1>1 DEF StorePacket, Banked, Banks
<1>4. p # Empty
    BY DEF Used
<1>5. \A i \in Used(src) : i # line => src[i].id # p.id /\ src[i].d # p.d
    BY DEF Portable, Distinct
<1>6. Used(tgt') = Used(tgt) \cup {k}
    BY <1>2, <1>3, <1>4 DEF Used
<1>7. \A i \in Used(src) : i < line => tgt[k] # src[i] \/ k \in Free(tgt)
    BY <1>2, <1>5 DEF WithId, WithCoord, Banked
<1> HIDE DEF p, k
<1>8. \A j \in Used(tgt') : tgt'[j] \in SeedRecords \/ \E i \in Used(src) : i < line + 1 /\ tgt'[j] = src[i]
  <2> SUFFICES ASSUME NEW j \in Used(tgt')
               PROVE  tgt'[j] \in SeedRecords \/ \E i \in Used(src) : i < line + 1 /\ tgt'[j] = src[i]
      OBVIOUS
  <2>1. CASE j = k
      BY <2>1, <1>2, <1>3 DEF p, Banked
  <2>2. CASE j # k
    <3>1. j \in Used(tgt) /\ tgt'[j] = tgt[j]
        BY <2>2, <1>3, <1>6 DEF Used
    <3>2. tgt[j] \in SeedRecords \/ \E i \in Used(src) : i < line /\ tgt[j] = src[i]
        BY <3>1 DEF Replayed
    <3>3. \A i \in Used(src) : i < line => i < line + 1
        BY DEF Used, Slots, Banked
    <3> QED BY <3>1, <3>2, <3>3
  <2> QED BY <2>1, <2>2
<1>9. NoTwins(tgt')
  \* A twin of p would be a seed record with its id, and so would be the
  \* record that p replaces.
  <2>1. \A j \in Used(tgt) : tgt[j] = p => j = k
    <3> SUFFICES ASSUME NEW j \in Used(tgt), tgt[j] = p
                 PROVE  j = k
        OBVIOUS
    <3>1. j \in WithId(tgt, p.id)
        BY DEF WithId
    <3>2. k \in Used(tgt) /\ tgt[k].id = p.id
        BY <3>1, <1>2 DEF WithId
    <3>3. ASSUME NEW i \in Used(src), i < line
          PROVE  src[i].id # p.id
        BY <3>3, <1>5 DEF Banked
    <3>4. tgt[j] \in SeedRecords /\ tgt[k] \in SeedRecords
        BY <3>2, <3>3 DEF Replayed
    <3>5. tgt[j] = tgt[k]
        BY <3>2, <3>4, SeedAssumption DEF SeedRecords
    <3> QED BY <3>2, <3>5 DEF Replayed, NoTwins
  <2> SUFFICES ASSUME NEW i \in Used(tgt'), NEW j \in Used(tgt'), tgt'[i] = tgt'[j]
               PROVE  i = j
      BY DEF NoTwins
  <2>2. (i = k \/ i \in Used(tgt)) /\ (j = k \/ j \in Used(tgt)) /\ i \in Slots /\ j \in Slots
      BY <1>2, <1>6 DEF Used
  <2> QED BY <2>1, <2>2, <1>3 DEF Replayed, NoTwins
<1>10. \A i \in Used(src) : i < line + 1 /\ i \notin refused => \E j \in Used(tgt') : tgt'[j] = src[i]
  <2> SUFFICES ASSUME NEW i \in Used(src), i < line + 1, i \notin refused
               PROVE  \E j \in Used(tgt') : tgt'[j] = src[i]
      OBVIOUS
  <2>1. CASE i = line
      BY <2>1, <1>2, <1>3, <1>6 DEF p
  <2>2. CASE i # line
    <3>1. i < line
        BY <2>2 DEF Used, Slots, Banked
    <3>2. PICK j \in Used(tgt) : tgt[j] = src[i]
        BY <3>1 DEF Replayed
    <3>3. j # k
        BY <3>1, <3>2, <1>7 DEF Free
    <3> QED BY <3>2, <3>3, <1>3, <1>6 DEF Used
  <2> QED BY <2>1, <2>2
<1>11. \A i \in refused : i \in Used(src) /\ i < line + 1 /\ \A j \in Used(tgt') : tgt'[j] # src[i]
  <2> SUFFICES ASSUME NEW i \in refused
               PROVE  i \in Used(src) /\ i < line + 1 /\ \A j \in Used(tgt') : tgt'[j] # src[i]
      OBVIOUS
  <2>1. i \in Used(src) /\ i < line /\ \A j \in Used(tgt) : tgt[j] # src[i]
      BY DEF Replayed
  <2>2. i < line + 1 /\ i # line
      BY <2>1 DEF Used, Slots, Banked
  <2>3. src[i].id # p.id
      BY <2>1, <2>2, <1>5
  <2>4. ASSUME NEW j \in Used(tgt')
        PROVE  tgt'[j] # src[i]
      BY <2>1, <2>3, <1>3, <1>6 DEF Used
  <2> QED BY <2>1, <2>2, <2>4
<1>12. refused # {} => Used(tgt') = Slots
    BY <1>2, <1>6 DEF Replayed, Used
<1> QED BY <1>8, <1>9, <1>10, <1>11, <1>12 DEF Replayed

\* A line that is refused: the replacement is full, and has no such record.
LEMMA RefusedReplayed ==
    ASSUME Banked, Portable(src), Replayed, line \in Used(src),
           StoreSlot(tgt, Typed(src[line])) = NoSlot,
           tgt' = tgt, refused' = refused \cup {line}, line' = line + 1, src' = src
    PROVE  Replayed'
<1> DEFINE p == src[line]
<1>1. p \in Packet /\ Typed(p) \in Packet /\ Typed(p).id = p.id
    BY ReplayAssumption DEF Banked, Banks, Used, Typed, Packet
<1>2. Used(tgt) = Slots /\ WithId(tgt, p.id) = {}
    BY <1>1, StoreSlotRefuses DEF Banked
<1>3. \A j \in Used(tgt) : tgt[j] # p
    BY <1>2 DEF WithId
<1>4. \A i \in Used(src) : i < line + 1 <=> i < line \/ i = line
    BY DEF Used, Slots, Banked
<1> QED BY <1>2, <1>3, <1>4 DEF Replayed, Banked

\* An unused slot of the source has no line.
LEMMA SkippedReplayed ==
    ASSUME Banked, Portable(src), Replayed, line \notin Used(src),
           tgt' = tgt, refused' = refused, line' = line + 1, src' = src
    PROVE  Replayed'
<1>1. \A i \in Used(src) : i < line + 1 <=> i < line
    BY DEF Used, Slots, Banked
<1> QED BY <1>1 DEF Replayed

LEMMA BankedStep ==
    ASSUME Banked, [Next]_vars
    PROVE  Banked'
<1>1. ASSUME NEW q \in Inputs, SourcePkt(q)
      PROVE  Banked'
    BY <1>1, StorePacketType, ReplayAssumption DEF SourcePkt, Banked
<1>2. ASSUME NEW id, SourceDel(id)
      PROVE  Banked'
    BY <1>2 DEF SourceDel, Banked, Banks
<1>3. CASE SendLine
  <2>1. src[line] \in Packet /\ Typed(src[line]) \in Packet
      BY <1>3, ReplayAssumption DEF SendLine, Banked, Banks, Typed, Packet
  <2>2. tgt' \in Banks
      BY <1>3, <2>1, StorePacketType DEF SendLine, Banked
  <2> QED BY <1>3, <2>2 DEF SendLine, Banked
<1>4. CASE Dump \/ SkipSlot \/ Finish \/ NextBoard \/ UNCHANGED vars
    BY <1>4, SeedBankType DEF Dump, SkipSlot, Finish, NextBoard, vars, Banked
<1> QED BY <1>1, <1>2, <1>3, <1>4 DEF Next

LEMMA ReplayInvariant == Spec => []ReplayInv
<1>1. Init => ReplayInv
    BY SeedBankType, SeededReplayed DEF Init, ReplayInv, Banked
<1>2. ASSUME ReplayInv, [Next]_vars
      PROVE  ReplayInv'
  <2> SUFFICES ASSUME Portable(src')
               PROVE  Replayed'
      BY <1>2, BankedStep DEF ReplayInv
  <2>1. Banked /\ Banked'
      BY <1>2, BankedStep DEF ReplayInv
  <2>2. CASE phase' = "fill"
    <3>1. tgt' = SeedBank /\ line' = 1 /\ refused' = {} /\ src' \in Banks
        BY <2>1, <2>2 DEF Banked
    <3>2. \A i \in Used(src') : ~(i < line')
        BY <3>1 DEF Used, Slots
    <3> QED BY <3>1, <3>2, SeedBankRecords DEF Replayed
  <2>3. CASE phase' # "fill" /\ src' = src /\ UNCHANGED <<tgt, line, refused>>
      BY <1>2, <2>3 DEF ReplayInv, Replayed
  <2>4. CASE SkipSlot
    <3>1. line \notin Used(src) /\ src' = src
        BY <2>4 DEF SkipSlot, Used
    <3> QED BY <1>2, <2>1, <2>4, <3>1, SkippedReplayed DEF SkipSlot, ReplayInv
  <2>5. CASE SendLine
    <3>1. line \in Used(src) /\ src' = src /\ line' = line + 1
        BY <2>5 DEF SendLine, Used
    <3>2. Replayed
        BY <1>2, <3>1 DEF ReplayInv
    <3>3. CASE StoreSlot(tgt, Typed(src[line])) = NoSlot
        BY <2>1, <2>5, <3>1, <3>2, <3>3, RefusedReplayed DEF SendLine
    <3>4. CASE StoreSlot(tgt, Typed(src[line])) # NoSlot
        BY <2>1, <2>5, <3>1, <3>2, <3>4, TakenReplayed DEF SendLine
    <3> QED BY <3>3, <3>4
  <2>6. (\E q \in Inputs : SourcePkt(q) \/ SourceDel(q.id)) \/ NextBoard => phase' = "fill"
      BY DEF SourcePkt, SourceDel, NextBoard
  <2>7. Dump \/ Finish \/ UNCHANGED vars => src' = src /\ UNCHANGED <<tgt, line, refused>>
      BY DEF Dump, Finish, vars
  <2> QED BY <1>2, <2>2, <2>3, <2>4, <2>5, <2>6, <2>7 DEF Next
<1> QED BY <1>1, <1>2, PTL DEF Spec

(***************************************************************************)
(* A replay never destroys a record it has installed, and puts nothing on  *)
(* the replacement but seed records beside them.                           *)
(***************************************************************************)
THEOREM KeepsRecords == Spec => []ReplayKeepsRecords
<1>1. ReplayInv => ReplayKeepsRecords
  <2> SUFFICES ASSUME ReplayInv, Portable(src)
               PROVE  /\ \A i \in Used(src) : i < line /\ i \notin refused => src[i] \in Records(tgt)
                      /\ Records(tgt) \subseteq Records(src) \cup {KernelPkt, UsbPkt}
      BY DEF ReplayKeepsRecords
  <2> QED BY DEF ReplayInv, Replayed, Records, SeedRecords
<1> QED BY <1>1, ReplayInvariant, PTL

(***************************************************************************)
(* A replacement that refuses a line is full, and one of its slots is held *)
(* by a seed record that the source has not: else its PktMax records would *)
(* be as many different ones of the source, beside the one refused.        *)
(***************************************************************************)
THEOREM RefusedForSeeds == Spec => []RefusedOnlyForSeeds
<1>1. ReplayInv => RefusedOnlyForSeeds
  <2> SUFFICES ASSUME ReplayInv, Portable(src), refused # {},
                      {KernelPkt, UsbPkt} \cap (Records(tgt) \ Records(src)) = {}
               PROVE  FALSE
      BY DEF ReplayInv, Replayed, RefusedOnlyForSeeds
  <2>1. Used(tgt) = Slots /\ NoTwins(tgt)
      BY DEF ReplayInv, Replayed
  <2>2. PICK r \in refused : r \in Used(src) /\ \A k \in Used(tgt) : tgt[k] # src[r]
      BY DEF ReplayInv, Replayed
  <2>3. \A k \in Slots : \E i \in Used(src) : tgt[k] = src[i]
    <3> SUFFICES ASSUME NEW k \in Slots
                 PROVE  \E i \in Used(src) : tgt[k] = src[i]
        OBVIOUS
    <3>1. tgt[k] \in Records(tgt)
        BY <2>1 DEF Records
    <3>2. tgt[k] \in SeedRecords \/ \E i \in Used(src) : i < line /\ tgt[k] = src[i]
        BY <2>1 DEF ReplayInv, Replayed
    <3>3. tgt[k] \in SeedRecords => tgt[k] \in Records(src)
        BY <3>1 DEF SeedRecords
    <3> QED BY <3>2, <3>3 DEF Records
  <2> DEFINE f == [k \in Slots |-> CHOOSE i \in Used(src) : tgt[k] = src[i]]
  <2>4. \A k \in Slots : f[k] \in Used(src) /\ tgt[k] = src[f[k]]
      BY <2>3
  <2>5. Used(src) \subseteq Slots
      BY DEF Used
  <2>6. f \in [Slots -> Slots]
      BY <2>4, <2>5
  <2> HIDE DEF f
  <2>7. \A i, j \in Slots : f[i] = f[j] => i = j
      BY <2>1, <2>4 DEF NoTwins
  <2>8. \A k \in Slots : f[k] # r
      BY <2>1, <2>2, <2>4
  <2> QED BY <2>2, <2>5, <2>6, <2>7, <2>8, Pigeonhole
<1> QED BY <1>1, ReplayInvariant, PTL
=============================================================================
