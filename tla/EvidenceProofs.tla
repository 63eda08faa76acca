--------------------------- MODULE EvidenceProofs ---------------------------
(***************************************************************************)
(* Proofs about Evidence, for any assets, registrations and bounds.  The   *)
(* claim of an evidence is safe as long as the orphan job does not look    *)
(* for it inside an open registration (Overlap = FALSE); the object store  *)
(* agrees with the rows as long as a putObject that throws has stored      *)
(* nothing (UnclearPut = FALSE); the types and the end of an unusable      *)
(* asset need neither.                                                     *)
(***************************************************************************)
EXTENDS Evidence, TLAPS

\* How far an upload has come decides what Media holds.
UploadInv ==
  \A a \in Asset :
    /\ upload[a] # "ended" => age[a] = 0
    /\ upload[a] \in {"idle", "reserved"} => media[a] = "none" /\ ~object[a]
    /\ upload[a] = "saved" => media[a] = "QUARANTINED" /\ ~object[a]
    /\ upload[a] = "stored" => media[a] = "QUARANTINED" /\ object[a]
    /\ upload[a] \in {"idle", "reserved", "saved", "stored"} => ~analysis[a]

\* Only an available asset is claimed, and an available asset is stored.
StoreInv ==
  \A a \in Asset :
    /\ media[a] = "AVAILABLE" => object[a]
    /\ claim[a] = "ORDER" => media[a] = "AVAILABLE"

\* The last phase of the job only holds expired assets.
ObjectsInv ==
  sweep = "objects" =>
    /\ \A a \in todo : media[a] = "EXPIRED"
    /\ held # "none" =>
         held \notin todo /\ media[held] = "EXPIRED" /\ ~object[held]

\* Between its phases the job holds nothing.
SelectInv == sweep \in {"idle", "select"} => held = "none"

\* A registration under way names an asset.
RegistersAsset ==
  \A r \in Register :
    reg[r].pc \in {"checked", "writing", "claimed"} => reg[r].asset \in Asset

StorageInv ==
  /\ TypeOK
  /\ RegistersAsset
  /\ SelectInv
  /\ UploadInv
  /\ StoreInv
  /\ ObjectsInv

\* The row lock of the order admits one registration at a time.
OneWriter ==
  \A q, r \in Register :
    reg[q].pc \in {"writing", "claimed"} /\ reg[r].pc \in {"writing", "claimed"}
      => q = r

\* A registration that has claimed its asset is the first to do so.
RegisterInv ==
  \A r \in Register : reg[r].pc = "claimed" =>
    claim[reg[r].asset] = "ORDER" /\ reg[r].asset \notin evidence

\* What the job is about to release has no evidence, committed or coming.
ClaimsInv ==
  sweep = "claims" =>
    /\ \A a \in todo : claim[a] = "ORDER"
    /\ held # "none" =>
         held \notin todo /\ claim[held] = "ORDER" /\ held \notin evidence
           /\ Visible(held)

\* An evidence keeps its claim.
EvidenceInv == \A a \in evidence : claim[a] = "ORDER"

ClaimInv ==
  /\ StorageInv
  /\ OneWriter
  /\ RegisterInv
  /\ ClaimsInv
  /\ EvidenceInv

-----------------------------------------------------------------------------
(* Types and storage: no assumption on Overlap or UnclearPut *)

\* The initial states satisfy both invariants.
LEMMA InitEvidence == Init => ClaimInv
  <1> SUFFICES ASSUME Init PROVE ClaimInv
    OBVIOUS
  <1>1. TypeOK
    BY EvidenceAssumption DEF Init, TypeOK, Idle
  <1>2. StorageInv
    BY <1>1 DEF Init, StorageInv, UploadInv, StoreInv, ObjectsInv,
               RegistersAsset, SelectInv, Idle
  <1>3. OneWriter /\ RegisterInv /\ ClaimsInv /\ EvidenceInv
    BY DEF Init, OneWriter, RegisterInv, ClaimsInv, EvidenceInv, Idle
  <1>4. QED
    BY <1>2, <1>3 DEF ClaimInv

\* The upload keeps the types and the storage invariant.
LEMMA UploadStorage ==
  ASSUME StorageInv, NEW a \in Asset,
         Uploading(a) \/ UploadFails(a) \/ UploadDies(a) \/ purgeIntent(a)
  PROVE  StorageInv'
  <1> USE DEF StorageInv, UploadInv, StoreInv, ObjectsInv, TypeOK,
              RegistersAsset, SelectInv, uploading, store, order, job
  <1>1. CASE reserveIntent(a)
    BY <1>1 DEF reserveIntent
  <1>2. CASE saveRow(a)
    BY <1>2 DEF saveRow
  <1>3. CASE putObject(a)
    BY <1>3 DEF putObject
  <1>4. CASE addAnalysis(a)
    BY <1>4 DEF addAnalysis
  <1>5. CASE linkIntent(a)
    BY <1>5 DEF linkIntent
  <1>6. CASE UploadFails(a)
    <2>1. /\ object' \in [Asset -> BOOLEAN]
          /\ \A b \in Asset : b # a => object'[b] = object[b]
      <3>1. object' = object \/ object' = [object EXCEPT ![a] = TRUE]
        BY <1>6 DEF UploadFails, failedPut
      <3>2. QED
        BY <3>1
    <2>2. /\ media' \in {media, [media EXCEPT ![a] = "none"]}
          /\ object[a] => media' = media /\ object'[a]
      <3>1. CASE upload[a] = "saved"
        BY <1>6, <3>1 DEF UploadFails, compensate
      <3>2. CASE upload[a] # "saved"
        BY <1>6, <3>2 DEF UploadFails, compensate, failedPut
      <3>3. QED
        BY <3>1, <3>2
    <2>3. /\ upload' = [upload EXCEPT ![a] = "ended"] /\ upload[a] # "ended"
          /\ intent' \in {intent, [intent EXCEPT ![a] = "FAILED"]}
          /\ UNCHANGED <<analysis, age, claim, order, reg, job>>
      BY <1>6 DEF UploadFails
    <2>4. faults' \in 0 .. MaxFaults
      BY <1>6, EvidenceAssumption DEF UploadFails, Fault
    <2>5. TypeOK'
      BY <2>1, <2>2, <2>3, <2>4
    <2>6. media[a] \in {"none", "QUARANTINED"}
      BY <1>6 DEF UploadFails
    <2>7. QED
      BY <2>1, <2>2, <2>3, <2>5, <2>6
  <1>7. CASE UploadDies(a)
    BY <1>7, EvidenceAssumption DEF UploadDies, Fault
  <1>8. CASE purgeIntent(a)
    BY <1>8 DEF purgeIntent
  <1>9. QED
    BY <1>1, <1>2, <1>3, <1>4, <1>5, <1>6, <1>7, <1>8 DEF Uploading

\* The analysis and time keep it.
LEMMA AnalysisStorage ==
  ASSUME StorageInv, NEW a \in Asset, analyse(a) \/ analysisLost(a) \/ GrowOld(a)
  PROVE  StorageInv'
  <1> USE DEF StorageInv, UploadInv, StoreInv, ObjectsInv, TypeOK,
              RegistersAsset, SelectInv, uploading, store, order, job
  <1>1. CASE analyse(a)
    <2>1. CASE media[a] = "QUARANTINED"
      <3>1. PICK s \in {"REJECTED"} \cup (IF object[a] THEN {"AVAILABLE"} ELSE {}) :
              media' = [media EXCEPT ![a] = s]
        BY <1>1, <2>1 DEF analyse
      <3>2. QED
        BY <1>1, <2>1, <3>1 DEF analyse
    <2>2. CASE media[a] # "QUARANTINED"
      BY <1>1, <2>2 DEF analyse
    <2>3. QED
      BY <2>1, <2>2
  <1>2. CASE analysisLost(a)
    BY <1>2, EvidenceAssumption DEF analysisLost, Fault
  <1>3. CASE GrowOld(a)
    <2>1. age[a] + 1 \in 0 .. 3
      BY <1>3 DEF GrowOld
    <2>2. QED
      BY <1>3, <2>1 DEF GrowOld
  <1>4. QED
    BY <1>1, <1>2, <1>3

\* The registration and the other commands keep it.
LEMMA RegisterStorage ==
  ASSUME StorageInv, NEW r \in Register,
         \/ \E a \in Asset : checkEvidence(r, a)
         \/ Registration(r) \/ rollbackEvidence(r)
  PROVE  StorageInv'
  <1> USE DEF StorageInv, UploadInv, StoreInv, ObjectsInv, TypeOK,
              RegistersAsset, SelectInv, uploading, store, order, job
  <1>1. CASE \E a \in Asset : checkEvidence(r, a)
    BY <1>1 DEF checkEvidence
  <1>2. CASE writeEvidence(r)
    BY <1>2, EvidenceAssumption DEF writeEvidence, Insertable, Idle
  <1>3. CASE claimAsset(r)
    <2>1. reg[r].asset \in Asset
      BY <1>3 DEF claimAsset
    <2>2. CASE Claimable(reg[r].asset)
      <3>1. /\ reg' = [reg EXCEPT ![r].pc = "claimed"]
            /\ claim' = [claim EXCEPT ![reg[r].asset] = "ORDER"]
            /\ media[reg[r].asset] = "AVAILABLE"
        BY <1>3, <2>2 DEF claimAsset, Claimable
      <3>2. UNCHANGED <<uploading, store, age, order, job, faults>>
        BY <1>3 DEF claimAsset
      <3>3. /\ reg' \in [Register -> [pc: {"idle", "checked", "writing", "claimed",
                 "done"}, asset: Asset \cup {"none"}, ver: Nat]]
            /\ RegistersAsset'
        BY <2>1, <3>1
      <3>4. QED
        BY <2>1, <3>1, <3>2, <3>3
    <2>3. CASE ~Claimable(reg[r].asset)
      <3>1. reg' = [reg EXCEPT ![r] = Idle] /\ UNCHANGED claim
        BY <1>3, <2>3 DEF claimAsset
      <3>2. UNCHANGED <<uploading, store, age, order, job, faults>>
        BY <1>3 DEF claimAsset
      <3>3. QED
        BY <3>1, <3>2 DEF Idle
    <2>4. QED
      BY <2>2, <2>3
  <1>4. CASE commitEvidence(r)
    BY <1>4 DEF commitEvidence
  <1>5. CASE rollbackEvidence(r)
    BY <1>5, EvidenceAssumption DEF rollbackEvidence, Fault, Idle
  <1>6. QED
    BY <1>1, <1>2, <1>3, <1>4, <1>5 DEF Registration

\* Closing the order keeps it.
LEMMA CloseStorage == StorageInv /\ closeOrder => StorageInv'
  <1> SUFFICES ASSUME StorageInv, closeOrder PROVE StorageInv'
    OBVIOUS
  <1>1. open' = FALSE /\ version' = version + 1
    BY DEF closeOrder
  <1>2. UNCHANGED <<uploading, store, age, claim, evidence, reg, job, faults>>
    BY DEF closeOrder
  <1>3. open' \in BOOLEAN
    BY <1>1
  <1>4. version' \in Nat
    BY <1>1 DEF StorageInv, TypeOK
  <1>5. QED
    BY <1>2, <1>3, <1>4 DEF StorageInv, UploadInv, StoreInv, ObjectsInv,
      TypeOK, RegistersAsset, SelectInv, uploading, store, job

\* The orphan job keeps it.
LEMMA SweepStorage ==
  ASSUME StorageInv, Sweep \/ candidateFails \/ sweepDies
  PROVE  StorageInv'
  <1> USE DEF StorageInv, UploadInv, StoreInv, ObjectsInv, TypeOK,
              RegistersAsset, SelectInv, uploading, store, order, job
  <1>1. CASE softDeleteUnclaimedOrphans
    BY <1>1 DEF softDeleteUnclaimedOrphans, Abandoned
  <1>2. CASE selectClaims
    BY <1>2 DEF selectClaims, Limit
  <1>3. CASE releaseOrphanClaim
    BY <1>3 DEF releaseOrphanClaim
  <1>4. CASE selectRetained
    BY <1>4 DEF selectRetained, Limit
  <1>5. CASE markDeleted
    <2>1. held \in Asset
      BY <1>5 DEF markDeleted
    <2>2. QED
      BY <1>5, <2>1, EvidenceAssumption DEF markDeleted
  <1>6. CASE endSweep
    BY <1>6 DEF endSweep
  <1>7. ASSUME NEW a \in Asset, lookUpEvidence(a) PROVE StorageInv'
    BY <1>7 DEF lookUpEvidence
  <1>8. ASSUME NEW a \in Asset, deleteObject(a) PROVE StorageInv'
    <2>1. media[a] = "EXPIRED"
      BY <1>8 DEF deleteObject
    <2>2. QED
      BY <1>8, <2>1 DEF deleteObject
  <1>9. CASE candidateFails
    <2>1. faults' \in 0 .. MaxFaults /\ todo' \in SUBSET Asset /\ todo' \subseteq todo
      BY <1>9, EvidenceAssumption DEF candidateFails, Fault
    <2>2. held' \in {held, "none"}
      BY <1>9 DEF candidateFails
    <2>3. UNCHANGED <<uploading, store, age, claim, order, reg, sweep>>
      BY <1>9 DEF candidateFails
    <2>4. QED
      BY <2>1, <2>2, <2>3
  <1>10. CASE sweepDies
    BY <1>10, EvidenceAssumption DEF sweepDies, Fault
  <1>11. QED
    BY <1>1, <1>2, <1>3, <1>4, <1>5, <1>6, <1>7, <1>8, <1>9, <1>10 DEF Sweep

\* Every step keeps the storage invariant.
LEMMA StorageStep == StorageInv /\ [Next]_vars => StorageInv'
  <1> SUFFICES ASSUME StorageInv, [Next]_vars PROVE StorageInv'
    OBVIOUS
  <1>1. CASE Next
    BY <1>1, UploadStorage, AnalysisStorage, RegisterStorage, SweepStorage, CloseStorage
    DEF Next
  <1>2. CASE UNCHANGED vars
    BY <1>2 DEF vars, StorageInv, UploadInv, StoreInv, ObjectsInv,
                TypeOK, RegistersAsset, SelectInv, uploading, store, order, job
  <1>3. QED
    BY <1>1, <1>2

\* Every variable of Evidence keeps its type, for any assets, registrations and
\* bounds.
THEOREM EvidenceTypes == Spec => []TypeOK
  <1>1. Init => StorageInv
    BY InitEvidence DEF ClaimInv
  <1>2. StorageInv => TypeOK
    BY DEF StorageInv
  <1>3. QED
    BY <1>1, <1>2, StorageStep, PTL DEF Spec

\* An asset that was rejected, expired or deleted is not revived: the analysis only
\* touches QUARANTINED rows and the job only turns expired ones into deleted ones,
\* whatever was delayed, retried or lost, for any assets, registrations and bounds.
THEOREM UnusableStaysUnusable == Spec => UnusableIsFinal
  <1> DEFINE Final ==
        \A a \in Asset :
          /\ media[a] \in {"REJECTED", "DELETED"} => media'[a] = media[a]
          /\ media[a] = "EXPIRED" => media'[a] \in {"EXPIRED", "DELETED"}
  <1>1. StorageInv /\ [Next]_vars => [Final]_vars
    <2> SUFFICES ASSUME StorageInv, Next PROVE Final
      OBVIOUS
    <2> USE DEF StorageInv, TypeOK, uploading, store, order, job
    <2>1. ASSUME NEW a \in Asset,
                 \/ Uploading(a) \/ UploadFails(a) \/ UploadDies(a) \/ purgeIntent(a)
          PROVE  Final
      BY <2>1 DEF Uploading, reserveIntent, saveRow, putObject, addAnalysis, linkIntent,
        UploadFails, compensate, UploadDies, purgeIntent, UploadInv
    <2>2. ASSUME NEW a \in Asset, analyse(a) \/ analysisLost(a) \/ GrowOld(a)
          PROVE  Final
      BY <2>2 DEF analyse, analysisLost, GrowOld
    <2>3. ASSUME NEW r \in Register,
                 \/ \E a \in Asset : checkEvidence(r, a)
                 \/ Registration(r) \/ rollbackEvidence(r)
          PROVE  Final
      BY <2>3 DEF Registration, checkEvidence, writeEvidence, claimAsset,
        commitEvidence, rollbackEvidence
    <2>4. CASE closeOrder
      BY <2>4 DEF closeOrder
    <2>5. CASE softDeleteUnclaimedOrphans
      BY <2>5 DEF softDeleteUnclaimedOrphans, Abandoned
    <2>6. CASE markDeleted
      BY <2>6 DEF markDeleted, ObjectsInv
    <2>7. CASE UNCHANGED media
      BY <2>7
    <2>8. Sweep \/ candidateFails \/ sweepDies =>
            softDeleteUnclaimedOrphans \/ markDeleted \/ UNCHANGED media
      BY DEF Sweep, selectClaims, releaseOrphanClaim, selectRetained, endSweep,
        lookUpEvidence, deleteObject, candidateFails, sweepDies
    <2>9. QED
      BY <2>1, <2>2, <2>3, <2>4, <2>5, <2>6, <2>7, <2>8 DEF Next
  <1>2. Init => StorageInv
    BY InitEvidence DEF ClaimInv
  <1>3. QED
    BY <1>1, <1>2, StorageStep, PTL DEF Spec, UnusableIsFinal

-----------------------------------------------------------------------------
(* The object store: a putObject that throws has stored nothing *)

\* Every step keeps the agreement of the store with the rows.
LEMMA RowsStep ==
  ASSUME ~UnclearPut
  PROVE  StorageInv /\ ObjectsHaveRows /\ [Next]_vars => ObjectsHaveRows'
  <1> SUFFICES ASSUME StorageInv, ObjectsHaveRows, [Next]_vars PROVE ObjectsHaveRows'
    OBVIOUS
  <1> USE DEF ObjectsHaveRows, StorageInv, TypeOK, uploading, store, order, job
  <1>1. ASSUME NEW a \in Asset, Uploading(a) PROVE ObjectsHaveRows'
    BY <1>1 DEF Uploading, reserveIntent, saveRow, putObject, addAnalysis, linkIntent,
      UploadInv
  <1>2. ASSUME NEW a \in Asset, UploadFails(a) PROVE ObjectsHaveRows'
    <2>1. UNCHANGED object
      BY <1>2 DEF UploadFails, failedPut
    <2>2. QED
      BY <1>2, <2>1 DEF UploadFails, compensate, UploadInv
  <1>3. ASSUME NEW a \in Asset, analyse(a) PROVE ObjectsHaveRows'
    BY <1>3 DEF analyse
  <1>4. CASE softDeleteUnclaimedOrphans
    BY <1>4 DEF softDeleteUnclaimedOrphans, Abandoned
  <1>5. CASE markDeleted
    BY <1>5 DEF markDeleted, ObjectsInv
  <1>6. ASSUME NEW a \in Asset, deleteObject(a) PROVE ObjectsHaveRows'
    BY <1>6 DEF deleteObject
  <1>7. CASE UNCHANGED <<media, object>>
    BY <1>7
  <1>8. ASSUME NEW a \in Asset,
               \/ UploadDies(a) \/ purgeIntent(a) \/ analysisLost(a) \/ GrowOld(a)
               \/ lookUpEvidence(a)
        PROVE  UNCHANGED <<media, object>>
    BY <1>8 DEF UploadDies, purgeIntent, analysisLost, GrowOld, lookUpEvidence
  <1>9. ASSUME NEW r \in Register,
               \/ \E a \in Asset : checkEvidence(r, a)
               \/ Registration(r) \/ rollbackEvidence(r)
        PROVE  UNCHANGED <<media, object>>
    BY <1>9 DEF Registration, checkEvidence, writeEvidence, claimAsset,
      commitEvidence, rollbackEvidence
  <1>10. \/ closeOrder \/ selectClaims \/ releaseOrphanClaim \/ selectRetained
         \/ endSweep \/ candidateFails \/ sweepDies \/ UNCHANGED vars
         => UNCHANGED <<media, object>>
    BY DEF closeOrder, selectClaims, releaseOrphanClaim, selectRetained, endSweep,
      candidateFails, sweepDies, vars
  <1>11. QED
    BY <1>1, <1>2, <1>3, <1>4, <1>5, <1>6, <1>7, <1>8, <1>9, <1>10 DEF Next, Sweep

\* Where a putObject that throws has stored nothing, no object of the store is ever
\* without a row that leads the cleanup to it: the compensation of
\* createUploadIntent and physicalDeleteRetained keep their order through every
\* crash, for any assets, registrations and bounds.
THEOREM StoreAgreesWithRows ==
  ASSUME ~UnclearPut
  PROVE  Spec => []ObjectsHaveRows
  <1>1. Init => StorageInv /\ ObjectsHaveRows
    BY InitEvidence DEF ClaimInv, Init, ObjectsHaveRows
  <1>2. QED
    BY <1>1, StorageStep, RowsStep, PTL DEF Spec

-----------------------------------------------------------------------------
(* Claims: the job never looks inside an open registration *)

ClaimParts == OneWriter /\ RegisterInv /\ ClaimsInv /\ EvidenceInv

\* What the parts of the claim invariant do not depend on.
LEMMA ClaimFrame ==
  ASSUME ClaimParts, UNCHANGED <<claim, evidence, reg, sweep, todo, held>>
  PROVE  ClaimParts'
BY DEF ClaimParts, OneWriter, RegisterInv, ClaimsInv, EvidenceInv, Visible

\* Uploads, analyses and time leave the claims alone.
LEMMA OtherClaims ==
  ASSUME ClaimParts, NEW a \in Asset,
         \/ Uploading(a) \/ UploadFails(a) \/ UploadDies(a) \/ purgeIntent(a)
         \/ analyse(a) \/ analysisLost(a) \/ GrowOld(a)
  PROVE  ClaimParts'
  <1>1. UNCHANGED <<claim, evidence, reg, sweep, todo, held>>
    BY DEF Uploading, reserveIntent, saveRow, putObject, addAnalysis, linkIntent,
      UploadFails, UploadDies, purgeIntent, analyse, analysisLost, GrowOld,
      order, job
  <1>2. QED
    BY <1>1, ClaimFrame

\* So does the close.
LEMMA CloseClaims == ClaimParts /\ closeOrder => ClaimParts'
BY ClaimFrame DEF closeOrder, job

\* The steps of a registration before its claim, and its rollback.
LEMMA BeforeClaim ==
  ASSUME StorageInv, ClaimParts, NEW r \in Register,
         \/ \E a \in Asset : checkEvidence(r, a)
         \/ writeEvidence(r) \/ rollbackEvidence(r)
  PROVE  ClaimParts'
  <1>1. UNCHANGED <<claim, evidence, sweep, todo, held>>
    BY DEF checkEvidence, writeEvidence, rollbackEvidence, order, job
  <1>2. \A q \in Register : reg'[q].pc = "claimed" => reg'[q] = reg[q]
    BY DEF checkEvidence, writeEvidence, Insertable, rollbackEvidence, Idle, StorageInv,
      TypeOK
  <1>3. OneWriter'
    BY DEF checkEvidence, writeEvidence, Insertable, rollbackEvidence, Unlocked, Idle, StorageInv,
      TypeOK, ClaimParts, OneWriter
  <1>4. RegisterInv' /\ ClaimsInv' /\ EvidenceInv'
    BY <1>1, <1>2 DEF ClaimParts, RegisterInv, ClaimsInv, EvidenceInv, Visible
  <1>5. QED
    BY <1>3, <1>4 DEF ClaimParts

\* A claim is taken by the first evidence of its asset: any other would hold it.
LEMMA TakesClaim ==
  ASSUME StorageInv, ClaimParts, NEW r \in Register, claimAsset(r)
  PROVE  ClaimParts'
  <1> DEFINE a == reg[r].asset
  <1>1. a \in Asset /\ reg[r].pc = "writing"
    BY DEF claimAsset, StorageInv, RegistersAsset
  <1>2. UNCHANGED <<evidence, sweep, todo, held>>
    BY DEF claimAsset, order, job
  <1>3. CASE Claimable(a)
    <2>1. /\ reg' = [reg EXCEPT ![r].pc = "claimed"]
          /\ claim' = [claim EXCEPT ![a] = "ORDER"]
          /\ claim[a] = "NULL"
      BY <1>3 DEF claimAsset, Claimable
    <2>2. a \notin evidence
      BY <1>1, <2>1 DEF ClaimParts, EvidenceInv
    <2>3. OneWriter'
      BY <1>1, <2>1 DEF ClaimParts, OneWriter, StorageInv, TypeOK
    <2>4. RegisterInv'
      BY <1>1, <1>2, <2>1, <2>2 DEF ClaimParts, RegisterInv, StorageInv, TypeOK,
        RegistersAsset
    <2>5. ClaimsInv'
      BY <1>1, <1>2, <2>1 DEF ClaimParts, ClaimsInv, Visible, StorageInv, TypeOK
    <2>6. EvidenceInv'
      BY <1>1, <1>2, <2>1 DEF ClaimParts, EvidenceInv, StorageInv, TypeOK
    <2>7. QED
      BY <2>3, <2>4, <2>5, <2>6 DEF ClaimParts
  <1>4. CASE ~Claimable(a)
    <2>1. reg' = [reg EXCEPT ![r] = Idle] /\ UNCHANGED claim
      BY <1>4 DEF claimAsset
    <2>2. QED
      BY <1>2, <2>1 DEF ClaimParts, OneWriter, RegisterInv, ClaimsInv, EvidenceInv,
        Visible, Idle, StorageInv, TypeOK
  <1>5. QED
    BY <1>3, <1>4

\* The commit adds the first evidence of an asset that the job is not releasing.
LEMMA Commits ==
  ASSUME StorageInv, ClaimParts, NEW r \in Register, commitEvidence(r)
  PROVE  ClaimParts'
  <1> DEFINE a == reg[r].asset
  <1>1. a \in Asset /\ reg[r].pc = "claimed"
    BY DEF commitEvidence, StorageInv, RegistersAsset
  <1>2. /\ reg' = [reg EXCEPT ![r].pc = "done"]
        /\ evidence' = evidence \cup {a}
        /\ UNCHANGED <<claim, sweep, todo, held>>
    BY DEF commitEvidence, job
  <1>3. a \notin evidence /\ claim[a] = "ORDER"
    BY <1>1 DEF ClaimParts, RegisterInv
  <1>4. \A q \in Register : reg'[q].pc \in {"writing", "claimed"} =>
          FALSE
    BY <1>1, <1>2 DEF ClaimParts, OneWriter, StorageInv, TypeOK
  <1>5. OneWriter' /\ RegisterInv'
    BY <1>4 DEF OneWriter, RegisterInv
  <1>6. ClaimsInv'
    <2>1. sweep = "claims" /\ held # "none" => held # a
      BY <1>1 DEF ClaimParts, ClaimsInv, Visible
    <2>2. QED
      BY <1>2, <1>4, <2>1 DEF ClaimParts, ClaimsInv, Visible, StorageInv, TypeOK
  <1>7. EvidenceInv'
    BY <1>1, <1>2, <1>3 DEF ClaimParts, EvidenceInv, StorageInv, TypeOK
  <1>8. QED
    BY <1>5, <1>6, <1>7 DEF ClaimParts

\* The orphan job releases only claims without an evidence.
LEMMA SweepClaims ==
  ASSUME StorageInv, ClaimParts, ~Overlap, Sweep \/ candidateFails \/ sweepDies
  PROVE  ClaimParts'
  <1> USE DEF ClaimParts, OneWriter, RegisterInv, ClaimsInv, EvidenceInv, Visible,
              order, job
  <1>1. CASE softDeleteUnclaimedOrphans
    <2>1. evidence \subseteq Asset
      BY DEF StorageInv, TypeOK
    <2>2. QED
      BY <1>1, <2>1 DEF softDeleteUnclaimedOrphans, Abandoned, StorageInv,
        RegistersAsset
  <1>2. CASE selectClaims
    <2>1. todo' \subseteq {a \in Asset : claim[a] = "ORDER"}
      BY <1>2 DEF selectClaims, Limit
    <2>2. held = "none"
      BY <1>2 DEF selectClaims, StorageInv, SelectInv
    <2>3. QED
      BY <1>2, <2>1, <2>2 DEF selectClaims
  <1>3. CASE releaseOrphanClaim
    <2>1. held \in Asset /\ held \notin evidence /\ held \notin todo
      BY <1>3 DEF releaseOrphanClaim, StorageInv, TypeOK
    <2>2. \A r \in Register : reg[r].pc = "claimed" =>
            reg[r].asset \in Asset \ {held}
      BY <1>3 DEF releaseOrphanClaim, StorageInv, RegistersAsset
    <2>3. claim' = [claim EXCEPT ![held] = "NULL"] /\ held' = "none"
      BY <1>3 DEF releaseOrphanClaim
    <2>4. UNCHANGED <<evidence, reg, sweep, todo>>
      BY <1>3 DEF releaseOrphanClaim
    <2>5. QED
      BY <2>1, <2>2, <2>3, <2>4 DEF StorageInv, TypeOK
  <1>4. CASE selectRetained
    BY <1>4 DEF selectRetained
  <1>5. CASE markDeleted
    BY <1>5 DEF markDeleted
  <1>6. CASE endSweep
    BY <1>6 DEF endSweep
  <1>7. ASSUME NEW a \in Asset, lookUpEvidence(a) PROVE ClaimParts'
    BY <1>7 DEF lookUpEvidence
  <1>8. ASSUME NEW a \in Asset, deleteObject(a) PROVE ClaimParts'
    BY <1>8 DEF deleteObject
  <1>9. CASE candidateFails
    BY <1>9 DEF candidateFails
  <1>10. CASE sweepDies
    BY <1>10 DEF sweepDies
  <1>11. QED
    BY <1>1, <1>2, <1>3, <1>4, <1>5, <1>6, <1>7, <1>8, <1>9, <1>10 DEF Sweep

\* Every step keeps the claim invariant.
LEMMA ClaimStep ==
  ASSUME ~Overlap
  PROVE  ClaimInv /\ [Next]_vars => ClaimInv'
  <1> SUFFICES ASSUME ClaimInv, [Next]_vars PROVE ClaimInv'
    OBVIOUS
  <1>1. StorageInv /\ ClaimParts
    BY DEF ClaimInv, ClaimParts
  <1>2. StorageInv'
    BY <1>1, StorageStep
  <1>3. CASE Next
    BY <1>1, <1>2, <1>3, OtherClaims, BeforeClaim, TakesClaim, Commits, SweepClaims,
       CloseClaims
    DEF Next, Registration, ClaimInv, ClaimParts
  <1>4. CASE UNCHANGED vars
    BY <1>1, <1>2, <1>4, ClaimFrame DEF vars, order, job, ClaimInv, ClaimParts
  <1>5. QED
    BY <1>3, <1>4

\* A committed evidence never loses its claim, its AVAILABLE asset or its object
\* to the orphan job, for any assets, registrations, crashes and batch size,
\* provided the job never looks for it between claimAsset and the COMMIT.
THEOREM EvidenceIsKept ==
  ASSUME ~Overlap
  PROVE  Spec => []EvidenceKeepsAsset
  <1>1. ClaimInv => EvidenceKeepsAsset
    BY DEF ClaimInv, StorageInv, TypeOK, StoreInv, EvidenceInv, EvidenceKeepsAsset
  <1>2. QED
    BY <1>1, InitEvidence, ClaimStep, PTL DEF Spec
=============================================================================
