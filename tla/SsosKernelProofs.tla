-------------------------- MODULE SsosKernelProofs --------------------------
(***************************************************************************)
(* Theorems about the controller, for every bank size, every set of        *)
(* packets a host may send and every flush range: type correctness, the    *)
(* uniqueness of ids, the meaning of "OK saved", the agreement of model    *)
(* cache and bank, and the refinement of the durable store.                *)
(***************************************************************************)
EXTENDS SsosKernel, PacketBankProofs

\* The flush counter starts at, and is cleared to, a legal value; one more
\* reception keeps it legal.
LEMMA FlushCounter ==
    /\ 0 \in 0..FlushWide
    /\ FlushMax..FlushWide \subseteq 0..FlushWide
    /\ \A k \in 0..FlushWide : k < FlushWide => k + 1 \in 0..FlushWide
<1>1. FlushMax \in Nat /\ FlushWide \in Nat
    BY KernelAssumption
<1> QED BY <1>1

\* The two ways a step can end a save.
LEMMA SaveReturnsType ==
    ASSUME TypeOK, NEW ok \in BOOLEAN, SaveReturns(ok)
    PROVE  TypeOK'
<1>1. sinceFlush' \in 0..FlushWide
    BY FlushCounter DEF TypeOK, SaveReturns
<1> QED BY <1>1 DEF TypeOK, SaveReturns, SavePcs

(***************************************************************************)
(* Every variable keeps its type through commands, saves, resets and       *)
(* erasures of the settings.                                               *)
(***************************************************************************)
THEOREM TypeCorrect == Spec => []TypeOK
<1>1. Init => TypeOK
  <2> SUFFICES ASSUME Init PROVE TypeOK
      OBVIOUS
  <2>1. bank \in Banks
      BY DEF Init, Banks, EmptyBank
  <2>2. numbers \in BOOLEAN
      BY DEF Init
  <2>3. nvs \in [n: BOOLEAN, boots: Nat, bank: Banks \cup {NoBlob}]
      BY DEF Init, BlankNvs
  <2> QED BY <2>1, <2>2, <2>3, FlushCounter DEF Init, TypeOK
<1>2. TypeOK /\ [Next]_vars => TypeOK'
  <2> SUFFICES ASSUME TypeOK, [Next]_vars PROVE TypeOK'
      OBVIOUS
  <2> USE DEF TypeOK, ram, SavePcs
  <2>1. CASE Setup
    <3>1. bank' \in Banks
        BY <2>1, SeedBankType DEF Setup, BlobStored
    <3>2. model' \in Models \cup {NoModel}
        BY <2>1, <3>1, LoadModelPacketsType DEF Setup
    <3>3. bootCount' \in Nat
      <4>1. (IF nvs.n THEN nvs.boots ELSE 0) \in Nat
          OBVIOUS
      <4> HIDE DEF TypeOK
      <4> QED BY <2>1, <4>1 DEF Setup
    <3>4. sinceFlush' \in 0..FlushWide
        BY <2>1, FlushCounter DEF Setup
    <3> QED BY <2>1, <3>1, <3>2, <3>3, <3>4 DEF Setup
  <2>2. CASE PowerLoss
      BY <2>2 DEF PowerLoss
  <2>3. CASE EraseSettings
      BY <2>3 DEF EraseSettings, BlankNvs
  <2>4. CASE LoopTop
      BY <2>4 DEF LoopTop
  <2>5. CASE EndDrain
      BY <2>5 DEF EndDrain
  <2>6. CASE OpenNvs \/ PutN \/ PutCounters \/ PutBank
      BY <2>6 DEF OpenNvs, PutN, PutCounters, PutBank
  <2>7. CASE SaveSucceeds \/ SaveFails
      BY <2>7, SaveReturnsType DEF SaveSucceeds, SaveFails
  <2>8. ASSUME NEW p \in Inputs, Pkt(p)
        PROVE  TypeOK'
    <3>1. bank' \in Banks
        BY <2>8, KernelAssumption, StorePacketType DEF Pkt
    <3>2. sinceFlush' \in 0..FlushWide
        BY <2>8, FlushCounter DEF Pkt
    <3> QED BY <2>8, <3>1, <3>2 DEF Pkt, Command
  <2>9. ASSUME NEW p \in Inputs, Del(p.id)
        PROVE  TypeOK'
    <3>1. bank' \in Banks
        BY <2>9 DEF Del, Banks
    <3> QED BY <2>9, <3>1 DEF Del, Command
  <2>10. CASE Retune \/ SetWeights \/ Bench \/ Save
      BY <2>10, FlushCounter DEF Retune, SetWeights, Bench, Save, Command
  <2>11. CASE Load
    <3>1. bank' \in Banks /\ model' \in Models \cup {NoModel}
        BY <2>11, LoadModelPacketsType DEF Load, BlobStored
    <3> QED BY <2>11, <3>1 DEF Load, Command
  <2>12. CASE Clear
      BY <2>12, SeedBankType DEF Clear, Command
  <2>13. CASE MClear
      BY <2>13, ClearModelPacketsType DEF MClear, Command
  <2>14. CASE MLoad
      BY <2>14, LoadModelPacketsType DEF MLoad, Command
  <2>15. CASE UNCHANGED vars
      BY <2>15 DEF vars
  <2> QED
      BY <2>1, <2>2, <2>3, <2>4, <2>5, <2>6, <2>7, <2>8, <2>9, <2>10, <2>11, <2>12,
         <2>13, <2>14, <2>15
      DEF Next, SaveStep, HostCommand
<1> QED BY <1>1, <1>2, PTL DEF Spec

-----------------------------------------------------------------------------
(***************************************************************************)
(* No id occurs twice, in the live bank or in the stored one, unless it is *)
(* an id that strncpy cut.  With the types, the invariant is inductive:    *)
(* only storePacket adds records, and it takes the slot of the id it was   *)
(* given if there is one.                                                  *)
(***************************************************************************)
THEOREM IdsUnique == Spec => []DuplicatesOnlyWhenCut
<1>1. Init => DuplicatesOnlyWhenCut
    BY DEF Init, DuplicatesOnlyWhenCut, UniqueUncut, Used, EmptyBank, BlankNvs
<1>2. TypeOK /\ TypeOK' /\ DuplicatesOnlyWhenCut /\ [Next]_vars => DuplicatesOnlyWhenCut'
  <2> SUFFICES ASSUME TypeOK, TypeOK', DuplicatesOnlyWhenCut, [Next]_vars
               PROVE  DuplicatesOnlyWhenCut'
      OBVIOUS
  <2>0. bank \in Banks /\ bank' \in Banks
      BY DEF TypeOK
  <2> USE DEF DuplicatesOnlyWhenCut
  <2>1. CASE Setup
      BY <2>1, SeedUnique DEF Setup, BlobStored
  <2>2. CASE EraseSettings
      BY <2>2 DEF EraseSettings, BlankNvs, ram
  <2>3. CASE PowerLoss \/ LoopTop \/ EndDrain
      BY <2>3 DEF PowerLoss, LoopTop, EndDrain, ram
  <2>4. CASE OpenNvs \/ PutN \/ PutCounters
      BY <2>4 DEF OpenNvs, PutN, PutCounters, ram, TypeOK
  <2>5. CASE PutBank
      BY <2>5 DEF PutBank, ram, TypeOK
  <2>6. CASE SaveSucceeds \/ SaveFails
      BY <2>6 DEF SaveSucceeds, SaveFails, SaveReturns
  <2>7. ASSUME NEW p \in Inputs, Pkt(p)
        PROVE  DuplicatesOnlyWhenCut'
      BY <2>0, <2>7, KernelAssumption, StoreKeepsUnique DEF Pkt, Command
  <2>8. ASSUME NEW p \in Inputs, Del(p.id)
        PROVE  DuplicatesOnlyWhenCut'
    <3>1. \A i \in Slots : bank'[i] = bank[i] \/ bank'[i] = Empty
        BY <2>0, <2>8 DEF Del, Banks
    <3>2. UniqueUncut(bank')
        BY <2>0, <3>1, RemovalKeepsUnique
    <3> QED BY <2>8, <3>2 DEF Del, Command
  <2>9. CASE Retune \/ SetWeights \/ Bench \/ Save \/ MLoad
      BY <2>9 DEF Retune, SetWeights, Bench, Save, MLoad, Command, ram
  <2>10. CASE Load
      BY <2>10 DEF Load, Command, BlobStored
  <2>11. CASE Clear
      BY <2>11, SeedUnique DEF Clear, Command
  <2>12. CASE MClear
    <3>1. \A i \in Slots : bank'[i] = bank[i] \/ bank'[i] = Empty
        BY <2>12 DEF MClear, ClearModelPackets
    <3>2. UniqueUncut(bank')
        BY <2>0, <3>1, RemovalKeepsUnique
    <3> QED BY <2>12, <3>2 DEF MClear, Command
  <2>13. CASE UNCHANGED vars
      BY <2>13 DEF vars
  <2> QED
      BY <2>1, <2>2, <2>3, <2>4, <2>5, <2>6, <2>7, <2>8, <2>9, <2>10, <2>11, <2>12, <2>13
      DEF Next, SaveStep, HostCommand
<1> QED BY <1>1, <1>2, TypeCorrect, PTL DEF Spec

-----------------------------------------------------------------------------
(***************************************************************************)
(* What saveBank has already written when it stands at pc, and what an     *)
(* acknowledgement means.  A blob is never stored without a valid "n";     *)
(* without the conjuncts on pc the last put would prove nothing.           *)
(***************************************************************************)
SaveProgress ==
    /\ nvs.bank # NoBlob => nvs.n
    /\ pc \in {"put_counters", "put_bank", "saved"} => nvs.n
    /\ pc \in {"put_bank", "saved"} => nvs.boots = bootCount
    /\ pc = "saved" => nvs.bank = bank
    /\ pc = "setup" => reply # "OK saved"
    /\ SavedMeansStored

\* A step that touches neither NVS nor the bank and ends outside saveBank.
LEMMA CommandKeepsProgress ==
    ASSUME SaveProgress, nvs' = nvs, pc' \notin {"put_counters", "put_bank", "saved"},
           reply' # "OK saved"
    PROVE  SaveProgress'
BY DEF SaveProgress, SavedMeansStored

LEMMA SaveProgressHolds == Spec => []SaveProgress
<1>1. Init => SaveProgress
    BY DEF Init, SaveProgress, SavedMeansStored, BlankNvs
<1>2. TypeOK /\ SaveProgress /\ [Next]_vars => SaveProgress'
  <2> SUFFICES ASSUME TypeOK, SaveProgress, [Next]_vars
               PROVE  SaveProgress'
      OBVIOUS
  <2>0. /\ nvs \in [n: BOOLEAN, boots: Nat, bank: Banks \cup {NoBlob}]
        /\ bank # NoBlob
      BY KernelAssumption DEF TypeOK
  <2>1. CASE Setup
      BY <2>1, CommandKeepsProgress DEF Setup, SaveProgress, SavedMeansStored
  <2>2. CASE EraseSettings
      BY <2>2 DEF EraseSettings, BlankNvs, SaveProgress, SavedMeansStored
  <2>3. CASE PowerLoss
      BY <2>3, CommandKeepsProgress DEF PowerLoss
  <2>4. CASE LoopTop \/ EndDrain \/ OpenNvs
      BY <2>4 DEF LoopTop, EndDrain, OpenNvs, ram, SaveProgress, SavedMeansStored, BlobStored
  <2>5. CASE PutN
      BY <2>0, <2>5 DEF PutN, ram, SaveProgress, SavedMeansStored, BlobStored
  <2>6. CASE PutCounters
      BY <2>0, <2>6 DEF PutCounters, ram, SaveProgress, SavedMeansStored, BlobStored
  <2>7. CASE PutBank
      BY <2>0, <2>7 DEF PutBank, ram, SaveProgress, SavedMeansStored, BlobStored
  <2>8. CASE SaveSucceeds \/ SaveFails
    <3>1. /\ pc' = "drain"
          /\ bank' = bank /\ bootCount' = bootCount /\ nvs' = nvs
          /\ reply' \in {reply, "OK saved", "ERR save failed"}
        BY <2>8 DEF SaveSucceeds, SaveFails, SaveReturns
    <3>2. SavedMeansStored'
      <4>1. CASE reply' = reply
          BY <3>1, <4>1 DEF SaveProgress, SavedMeansStored, BlobStored
      <4>2. CASE reply' # reply /\ reply' = "OK saved"
        <5>1. pc = "saved"
            BY <2>8, <4>2 DEF SaveSucceeds, SaveFails, SaveReturns
        <5> QED BY <2>0, <3>1, <5>1 DEF SaveProgress, SavedMeansStored, BlobStored
      <4>3. CASE reply' = "ERR save failed"
          BY <4>3 DEF SavedMeansStored
      <4> QED BY <3>1, <4>1, <4>2, <4>3
    <3> QED BY <3>1, <3>2 DEF SaveProgress
  <2>9. CASE HostCommand
    <3>1. nvs' = nvs /\ reply' = "none" /\ pc' \in {"drain", "open"}
        BY <2>9 DEF HostCommand, Command, Pkt, Del, Retune, SetWeights, Bench, Save, Load, Clear,
           MClear, MLoad
    <3> QED BY <3>1, CommandKeepsProgress
  <2>10. CASE UNCHANGED vars
      BY <2>10 DEF vars, SaveProgress, SavedMeansStored, BlobStored
  <2> QED
      BY <2>1, <2>2, <2>3, <2>4, <2>5, <2>6, <2>7, <2>8, <2>9, <2>10 DEF Next, SaveStep
<1> QED BY <1>1, <1>2, TypeCorrect, PTL DEF Spec

(***************************************************************************)
(* "OK saved" is true while it is the last answer, whatever background     *)
(* saves, failures and resets come before or after it.                     *)
(***************************************************************************)
THEOREM SavedIsStored == Spec => []SavedMeansStored
<1>1. SaveProgress => SavedMeansStored
    BY DEF SaveProgress
<1> QED BY <1>1, SaveProgressHolds, PTL

-----------------------------------------------------------------------------
\* A freshly decoded cache agrees with the bank it was decoded from.
LEMMA DecodedAgrees ==
    ASSUME NEW b, NEW r \in RowIds, LoadModelPackets(b) # NoModel
    PROVE  LoadModelPackets(b)[r] = RowWeights(b, r)
BY DEF LoadModelPackets

\* A step that keeps the cache and adds or changes no row record keeps the
\* agreement of the two.
LEMMA AgreementKept ==
    ASSUME TypeOK, TypeOK', DuplicatesOnlyWhenCut, DuplicatesOnlyWhenCut',
           CacheAgreesWithBank, model' = model,
           \A r \in RowIds : \A i \in WithId(bank', r) :
               i \in WithId(bank, r) /\ bank'[i] = bank[i]
    PROVE  CacheAgreesWithBank'
<1> SUFFICES ASSUME model' # NoModel, NEW r \in RowIds, WithId(bank', r) # {}
             PROVE  RowWeights(bank', r) = model'[r]
    BY DEF CacheAgreesWithBank
<1>1. bank \in Banks /\ bank' \in Banks /\ UniqueUncut(bank) /\ UniqueUncut(bank')
    BY DEF TypeOK, DuplicatesOnlyWhenCut
<1>2. WithId(bank, r) # {} /\ RowWeights(bank', r) = RowWeights(bank, r)
    BY <1>1, RowKept
<1> QED BY <1>2 DEF CacheAgreesWithBank

(***************************************************************************)
(* A cached row whose packet is in the bank is the decoding of that        *)
(* packet.  The invariant needs the uniqueness of ids: were there two      *)
(* records of one row, dropping the first would expose another body.       *)
(***************************************************************************)
THEOREM CacheAgrees == Spec => []CacheAgreesWithBank
<1>1. Init => CacheAgreesWithBank
    BY DEF Init, CacheAgreesWithBank
<1>2. /\ TypeOK /\ TypeOK' /\ DuplicatesOnlyWhenCut /\ DuplicatesOnlyWhenCut'
      /\ CacheAgreesWithBank /\ [Next]_vars
      => CacheAgreesWithBank'
  <2> SUFFICES ASSUME TypeOK, TypeOK', DuplicatesOnlyWhenCut, DuplicatesOnlyWhenCut',
                      CacheAgreesWithBank, [Next]_vars
               PROVE  CacheAgreesWithBank'
      OBVIOUS
  <2>1. CASE bank' = bank /\ model' = model
      BY <2>1 DEF CacheAgreesWithBank
  <2>2. CASE model' = NoModel
      BY <2>2 DEF CacheAgreesWithBank
  <2>3. CASE model' = LoadModelPackets(bank')
      BY <2>3, DecodedAgrees DEF CacheAgreesWithBank
  <2>4. ASSUME NEW p \in Inputs, Pkt(p)
        PROVE  CacheAgreesWithBank'
    <3>1. CASE p.id \in ModelIds
        BY <2>4, <3>1, <2>2 DEF Pkt
    <3>2. CASE p.id \notin ModelIds
      <4>1. \A r \in RowIds : \A i \in WithId(bank', r) :
                i \in WithId(bank, r) /\ bank'[i] = bank[i]
        <5>1. bank \in Banks /\ p \in Packet /\ StoreSlot(bank, p) # NoSlot
            BY <2>4, KernelAssumption DEF Pkt, TypeOK
        <5>2. bank' = StorePacket(bank, p)
            BY <2>4 DEF Pkt
        <5> QED BY <3>2, <5>1, <5>2, StoreKeepsRows
      <4>2. model' = model
          BY <2>4, <3>2 DEF Pkt
      <4> QED BY <4>1, <4>2, AgreementKept
    <3> QED BY <3>1, <3>2
  <2>5. ASSUME NEW p \in Inputs, Del(p.id)
        PROVE  CacheAgreesWithBank'
    <3>1. CASE p.id \in ModelIds
        BY <2>5, <3>1, <2>2 DEF Del
    <3>2. CASE p.id \notin ModelIds
      <4>1. \A r \in RowIds : \A i \in WithId(bank', r) :
                i \in WithId(bank, r) /\ bank'[i] = bank[i]
          BY <2>5 DEF Del, TypeOK, Banks, WithId, Used
      <4>2. model' = model
          BY <2>5, <3>2 DEF Del
      <4> QED BY <4>1, <4>2, AgreementKept
    <3> QED BY <3>1, <3>2
  <2>6. CASE Load
      BY <2>6, <2>1, <2>3 DEF Load
  <2>7. CASE MLoad
      BY <2>7, <2>3 DEF MLoad
  <2>8. CASE Setup
      BY <2>8, <2>3 DEF Setup
  <2>9. CASE Clear \/ MClear
      BY <2>9, <2>2 DEF Clear, MClear
  <2>10. CASE \/ PowerLoss \/ EraseSettings \/ LoopTop \/ EndDrain \/ SaveStep
              \/ Retune \/ SetWeights \/ Bench \/ Save
      BY <2>10, <2>1 DEF PowerLoss, EraseSettings, LoopTop, EndDrain, SaveStep, OpenNvs,
         PutN, PutCounters, PutBank, SaveSucceeds, SaveFails, SaveReturns, Retune, SetWeights,
         Bench, Save, ram
  <2>11. CASE UNCHANGED vars
      BY <2>11, <2>1 DEF vars
  <2> QED
      BY <2>4, <2>5, <2>6, <2>7, <2>8, <2>9, <2>10, <2>11 DEF Next, HostCommand
<1> QED BY <1>1, <1>2, TypeCorrect, IdsUnique, PTL DEF Spec

-----------------------------------------------------------------------------
(***************************************************************************)
(* A save that loop() reports as done, and only such a save, clears the    *)
(* flush counter; the packets it counted are then in NVS.  (A reset clears *)
(* it too, and loses them.)                                                *)
(***************************************************************************)
THEOREM FlushClearedStored == Spec => FlushClearedOnlyWhenStored
<1> DEFINE Safe == sinceFlush' < sinceFlush => pc = "setup" \/ (BlobStored /\ nvs.bank = bank)
<1>1. TypeOK /\ SaveProgress /\ [Next]_vars => [Safe]_vars
  <2> SUFFICES ASSUME TypeOK, SaveProgress, Next, sinceFlush' < sinceFlush
               PROVE  pc = "setup" \/ (BlobStored /\ nvs.bank = bank)
      OBVIOUS
  <2>0. sinceFlush \in Nat
    <3>1. sinceFlush \in 0..FlushWide
        BY DEF TypeOK
    <3> QED BY <3>1
  <2>1. sinceFlush' # sinceFlush
      BY <2>0
  <2>2. CASE Setup
      BY <2>2 DEF Setup
  <2>3. CASE SaveSucceeds
      BY <2>3, KernelAssumption DEF SaveSucceeds, SaveProgress, BlobStored, TypeOK
  <2>4. CASE SaveFails
      BY <2>1, <2>4 DEF SaveFails, SaveReturns
  <2>5. ASSUME NEW p \in Inputs, Pkt(p)
        PROVE  FALSE
    <3>1. sinceFlush' = sinceFlush + 1
        BY <2>1, <2>5 DEF Pkt
    <3> QED BY <2>0, <3>1
  <2>6. CASE Bench
    <3>1. sinceFlush' \in Int /\ sinceFlush' >= sinceFlush
        BY <2>6, KernelAssumption DEF Bench
    <3> QED BY <2>0, <3>1
  <2>7. ASSUME \/ PowerLoss \/ EraseSettings \/ LoopTop \/ EndDrain \/ OpenNvs \/ PutN
               \/ PutCounters \/ PutBank \/ (\E p \in Inputs : Del(p.id)) \/ Retune \/ SetWeights
               \/ Save \/ Load \/ Clear \/ MClear \/ MLoad
        PROVE  FALSE
      BY <2>1, <2>7 DEF PowerLoss, EraseSettings, LoopTop, EndDrain, OpenNvs, PutN,
         PutCounters, PutBank, Del, Retune, SetWeights, Save, Load, Clear, MClear, MLoad, ram
  <2> QED BY <2>2, <2>3, <2>4, <2>5, <2>6, <2>7 DEF Next, SaveStep, HostCommand
<1>2. FlushClearedOnlyWhenStored <=> [][Safe]_vars
    BY PTL DEF FlushClearedOnlyWhenStored
<1> QED BY <1>1, <1>2, TypeCorrect, SaveProgressHolds, PTL DEF Spec

-----------------------------------------------------------------------------
(***************************************************************************)
(* The controller implements the durable store: torn saves, failed LOADs,  *)
(* retries and resets are invisible to a host that trusts only "OK saved". *)
(* Writing "n" first is harmless because a missing blob counts as nothing  *)
(* stored, and the blob is written last and whole.                         *)
(***************************************************************************)
THEOREM Refinement == Spec => ImplementsDurableStore
<1>1. Init => Store!Init
    BY DEF Init, Store!Init, BlankNvs, Banks, EmptyBank
<1>2. TypeOK /\ TypeOK' /\ SaveProgress /\ [Next]_vars => [Store!Next]_(Store!vars)
  <2> SUFFICES ASSUME TypeOK, TypeOK', SaveProgress, [Next]_vars
               PROVE  Store!Next \/ UNCHANGED Store!vars
      OBVIOUS
  <2>0. /\ nvs \in [n: BOOLEAN, boots: Nat, bank: Banks \cup {NoBlob}]
        /\ bank \in Banks /\ bank' \in Banks
      BY DEF TypeOK
  <2>1. CASE Setup
    <3>1. Store!ComeUp
        BY <2>1 DEF Setup, Store!ComeUp, BlobStored
    <3> QED BY <3>1 DEF Store!Next
  <2>2. CASE PowerLoss
    <3>1. Store!GoDown
        BY <2>2 DEF PowerLoss, Store!GoDown, ram
    <3> QED BY <3>1 DEF Store!Next
  <2>3. CASE EraseSettings
    <3>1. Store!Erase
        BY <2>3 DEF EraseSettings, Store!Erase, BlankNvs, ram
    <3> QED BY <3>1 DEF Store!Next
  <2>4. CASE LoopTop \/ EndDrain \/ OpenNvs
      BY <2>4 DEF LoopTop, EndDrain, OpenNvs, ram, Store!vars
  <2>5. CASE PutN
      BY <2>0, <2>5 DEF PutN, ram, Store!vars, SaveProgress
  <2>6. CASE PutCounters
      BY <2>0, <2>6 DEF PutCounters, ram, Store!vars, SaveProgress
  <2>7. CASE PutBank
    <3>1. Store!Commit
        BY <2>0, <2>7 DEF PutBank, ram, Store!Commit, SaveProgress
    <3> QED BY <3>1 DEF Store!Next
  <2>8. CASE SaveSucceeds
    <3>1. CASE saver = "loop"
        BY <2>8, <3>1 DEF SaveSucceeds, SaveReturns, Store!vars
    <3>2. CASE saver # "loop"
      <4>1. Store!Acknowledge
          BY <2>8, <3>2 DEF SaveSucceeds, SaveReturns, Store!Acknowledge, SaveProgress
      <4> QED BY <4>1 DEF Store!Next
    <3> QED BY <3>1, <3>2
  <2>9. CASE SaveFails
    <3>1. CASE saver = "loop"
        BY <2>9, <3>1 DEF SaveFails, SaveReturns, SavePcs, Store!vars
    <3>2. CASE saver # "loop"
      <4>1. Store!Update
          BY <2>0, <2>9, <3>2 DEF SaveFails, SaveReturns, SavePcs, Store!Update
      <4> QED BY <4>1 DEF Store!Next
    <3> QED BY <3>1, <3>2
  <2>10. CASE HostCommand
    <3>1. /\ pc = "drain" /\ pc' \in {"drain", "open"}
          /\ nvs' = nvs /\ reply' = "none"
        BY <2>10 DEF HostCommand, Command, Pkt, Del, Retune, SetWeights, Bench, Save, Load, Clear,
           MClear, MLoad
    <3>2. Store!Update
        BY <2>0, <3>1 DEF Store!Update
    <3> QED BY <3>2 DEF Store!Next
  <2>11. CASE UNCHANGED vars
      BY <2>11 DEF vars, Store!vars
  <2> QED
      BY <2>1, <2>2, <2>3, <2>4, <2>5, <2>6, <2>7, <2>8, <2>9, <2>10, <2>11
      DEF Next, SaveStep
<1> QED
    BY <1>1, <1>2, TypeCorrect, SaveProgressHolds, PTL
    DEF Spec, ImplementsDurableStore, Store!Spec
=============================================================================
