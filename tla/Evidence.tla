------------------------------- MODULE Evidence -------------------------------
(***************************************************************************)
(* The evidence of one execution order: a file is uploaded to Media in     *)
(* three steps and two databases, analysed by a worker, and registered on  *)
(* the order.  The registration claims the asset over a connection of its  *)
(* own, so that a rollback of the order's transaction leaves the claim     *)
(* behind; a job that runs every six hours releases such claims, expires   *)
(* what nobody claimed and deletes it from the object store.               *)
(***************************************************************************)
EXTENDS Naturals, FiniteSets

CONSTANTS
  Asset,      \* the uploads, each with its intent and its media asset
  Register,   \* the registerEvidence commands
  Batch,      \* LIMIT of the job's queries
  MaxFaults,  \* bound: crashes and failed statements of the whole behaviour
  Overlap,    \* the job may look for evidence inside an open registration
  UnclearPut  \* putObject may fail after the store has taken the object

ASSUME EvidenceAssumption ==
  /\ "none" \notin Asset
  /\ Batch \in Nat \ {0} /\ MaxFaults \in Nat
  /\ Overlap \in BOOLEAN /\ UnclearPut \in BOOLEAN

VARIABLES
  upload,    \* what createEvidenceAssetReceipt is doing for the asset
  intent,    \* execution_order_evidence_upload_intents.status
  media,     \* asset_status of public.media_assets, "none" without a row
  object,    \* whether the object store holds the file
  analysis,  \* whether the analysis job is queued
  age,       \* 1: ten minutes, 2: a day, 3: the retention after the soft delete
  claim,     \* claim_ref
  open,      \* the order is mutable
  version,   \* the order's version
  reg,       \* the transaction of each registration
  evidence,  \* the assets with a committed row of execution_order_evidence
  sweep,     \* the phase of the orphan job
  todo,      \* the rows its query returned
  held,      \* the row between two statements of the job
  faults

uploading == <<upload, intent, analysis>>
store == <<media, object>>
order == <<open, version, evidence>>
job == <<sweep, todo, held>>
vars == <<uploading, store, age, claim, order, reg, job, faults>>

Idle == [pc |-> "idle", asset |-> "none", ver |-> 0]

TypeOK ==
  /\ upload \in [Asset -> {"idle", "reserved", "saved", "stored", "queued",
                           "ended"}]
  /\ intent \in [Asset -> {"none", "PENDING", "PENDING_ANALYSIS", "FAILED"}]
  /\ media \in [Asset -> {"none", "QUARANTINED", "AVAILABLE", "REJECTED",
                          "EXPIRED", "DELETED"}]
  /\ object \in [Asset -> BOOLEAN]
  /\ analysis \in [Asset -> BOOLEAN]
  /\ age \in [Asset -> 0 .. 3]
  /\ claim \in [Asset -> {"NULL", "ORDER", "ORPHAN"}]
  /\ open \in BOOLEAN
  /\ version \in Nat
  /\ reg \in [Register -> [pc: {"idle", "checked", "writing", "claimed", "done"},
                           asset: Asset \cup {"none"}, ver: Nat]]
  /\ evidence \in SUBSET Asset
  /\ sweep \in {"idle", "select", "claims", "objects"}
  /\ todo \in SUBSET Asset
  /\ held \in Asset \cup {"none"}
  /\ faults \in 0 .. MaxFaults

Init ==
  /\ upload = [a \in Asset |-> "idle"]
  /\ intent = [a \in Asset |-> "none"]
  /\ media = [a \in Asset |-> "none"]
  /\ object = [a \in Asset |-> FALSE]
  /\ analysis = [a \in Asset |-> FALSE]
  /\ age = [a \in Asset |-> 0]
  /\ claim = [a \in Asset |-> "NULL"]
  /\ open = TRUE
  /\ version = 1
  /\ reg = [r \in Register |-> Idle]
  /\ evidence = {}
  /\ sweep = "idle"
  /\ todo = {}
  /\ held = "none"
  /\ faults = 0

Fault == faults < MaxFaults /\ faults' = faults + 1

(***************************************************************************)
(* createEvidenceAssetReceipt and Media's createUploadIntent.              *)
(***************************************************************************)
reserveIntent(a) ==
  /\ upload[a] = "idle" /\ open
  /\ upload' = [upload EXCEPT ![a] = "reserved"]
  /\ intent' = [intent EXCEPT ![a] = "PENDING"]
  /\ UNCHANGED <<analysis, store, age, claim, order, reg, job, faults>>

saveRow(a) ==
  /\ upload[a] = "reserved"
  /\ upload' = [upload EXCEPT ![a] = "saved"]
  /\ media' = [media EXCEPT ![a] = "QUARANTINED"]
  /\ UNCHANGED <<intent, analysis, object, age, claim, order, reg, job, faults>>

putObject(a) ==
  /\ upload[a] = "saved"
  /\ upload' = [upload EXCEPT ![a] = "stored"]
  /\ object' = [object EXCEPT ![a] = TRUE]
  /\ UNCHANGED <<intent, analysis, media, age, claim, order, reg, job, faults>>

addAnalysis(a) ==
  /\ upload[a] = "stored"
  /\ upload' = [upload EXCEPT ![a] = "queued"]
  /\ analysis' = [analysis EXCEPT ![a] = TRUE]
  /\ UNCHANGED <<intent, store, age, claim, order, reg, job, faults>>

linkIntent(a) ==
  /\ upload[a] = "queued"
  /\ upload' = [upload EXCEPT ![a] = "ended"]
  /\ intent' = [intent EXCEPT ![a] = "PENDING_ANALYSIS"]
  /\ UNCHANGED <<analysis, store, age, claim, order, reg, job, faults>>

\* Mutant: the row is deleted whatever step of the upload failed.
compensateAlways(a) == [media EXCEPT ![a] = "none"]

\* The row is deleted when putObject fails; a failure of the queue leaves it.
compensate(a) ==
  [media EXCEPT ![a] = IF upload[a] = "saved" THEN "none" ELSE @]

\* What a putObject that throws has left in the store: nothing, or the object,
\* when only the answer of the store was lost.
failedPut(a) ==
  {object} \cup (IF UnclearPut /\ upload[a] = "saved"
                  THEN {[object EXCEPT ![a] = TRUE]} ELSE {})

\* Media throws; the compensation may fail too.  The intent is marked FAILED in a
\* transaction of its own, best effort.
UploadFails(a) ==
  /\ upload[a] \in {"reserved", "saved", "stored"}
  /\ Fault
  /\ upload' = [upload EXCEPT ![a] = "ended"]
  /\ object' \in failedPut(a)
  /\ media' \in {media, compensate(a)}
  /\ intent' \in {intent, [intent EXCEPT ![a] = "FAILED"]}
  /\ UNCHANGED <<analysis, age, claim, order, reg, job>>

\* The API process dies between two steps of an upload, or step 3 rolls back.
UploadDies(a) ==
  /\ upload[a] \notin {"idle", "ended"}
  /\ Fault
  /\ upload' = [upload EXCEPT ![a] = "ended"]
  /\ UNCHANGED <<intent, analysis, store, age, claim, order, reg, job>>

\* Retention: an intent that still carries expires_at goes once it is a day old.
purgeIntent(a) ==
  /\ upload[a] = "ended" /\ age[a] >= 2
  /\ intent[a] \in {"PENDING", "FAILED"}
  /\ intent' = [intent EXCEPT ![a] = "none"]
  /\ UNCHANGED <<upload, analysis, store, age, claim, order, reg, job, faults>>

\* Mutant: the job analyses the asset whatever has become of it.
analyseAgain(a) ==
  /\ analysis[a]
  /\ analysis' = [analysis EXCEPT ![a] = FALSE]
  /\ media' \in {[media EXCEPT ![a] = s] :
                  s \in {"REJECTED"} \cup (IF object[a] THEN {"AVAILABLE"} ELSE {})}
  /\ UNCHANGED <<upload, intent, object, age, claim, order, reg, job, faults>>

\* The analysis holds the row's lock from its SELECT ... FOR UPDATE to its COMMIT.
analyse(a) ==
  /\ analysis[a]
  /\ analysis' = [analysis EXCEPT ![a] = FALSE]
  /\ IF media[a] = "QUARANTINED"
       THEN \E s \in {"REJECTED"} \cup (IF object[a] THEN {"AVAILABLE"} ELSE {}) :
              media' = [media EXCEPT ![a] = s]
       ELSE UNCHANGED media
  /\ UNCHANGED <<upload, intent, object, age, claim, order, reg, job, faults>>

\* Three failed attempts: the job stays failed and nobody runs it again.
analysisLost(a) ==
  /\ analysis[a] /\ Fault
  /\ analysis' = [analysis EXCEPT ![a] = FALSE]
  /\ UNCHANGED <<upload, intent, store, age, claim, order, reg, job>>

\* Time passes; an upload takes less than ten minutes.
GrowOld(a) ==
  /\ upload[a] = "ended"
  /\ \/ age[a] < 2
     \/ age[a] = 2 /\ media[a] = "EXPIRED"
  /\ age' = [age EXCEPT ![a] = @ + 1]
  /\ UNCHANGED <<uploading, store, claim, order, reg, job, faults>>

(***************************************************************************)
(* registerEvidence: one transaction, which holds the order's row lock     *)
(* from its versioned UPDATE to its COMMIT.                                *)
(***************************************************************************)
Unlocked == \A q \in Register : reg[q].pc \notin {"writing", "claimed"}

\* The checks: order, version, intent of this order, status of the asset.
checkEvidence(r, a) ==
  /\ reg[r].pc = "idle" /\ open
  /\ intent[a] = "PENDING_ANALYSIS"
  /\ media[a] = "AVAILABLE"
  /\ reg' = [reg EXCEPT ![r] = [pc |-> "checked", asset |-> a, ver |-> version]]
  /\ UNCHANGED <<uploading, store, age, claim, order, job, faults>>

\* uq_execution_order_evidence_tenant_media_asset: a second row is refused.
Insertable(a) == a \notin evidence

\* persistOrderOptimistically and the insert of the evidence, not yet committed.
\* A registration of the same asset that is not committed holds the order's lock.
writeEvidence(r) ==
  /\ reg[r].pc = "checked" /\ Unlocked
  /\ reg' = [reg EXCEPT ![r] =
       IF @.ver = version /\ Insertable(@.asset)
         THEN [@ EXCEPT !.pc = "writing"] ELSE Idle]
  /\ UNCHANGED <<uploading, store, age, claim, order, job, faults>>

\* The WHERE of claimAsset; deleted_at is set with EXPIRED.
Claimable(a) == media[a] = "AVAILABLE" /\ claim[a] = "NULL"

\* On another connection: committed at once.  A refused claim rolls back the
\* transaction and with it the mark CLAIM_FAILED of the evidence.
claimAsset(r) ==
  /\ reg[r].pc = "writing"
  /\ IF Claimable(reg[r].asset)
       THEN /\ claim' = [claim EXCEPT ![reg[r].asset] = "ORDER"]
            /\ reg' = [reg EXCEPT ![r].pc = "claimed"]
       ELSE /\ reg' = [reg EXCEPT ![r] = Idle]
            /\ UNCHANGED claim
  /\ UNCHANGED <<uploading, store, age, order, job, faults>>

commitEvidence(r) ==
  /\ reg[r].pc = "claimed"
  /\ reg' = [reg EXCEPT ![r].pc = "done"]
  /\ evidence' = evidence \cup {reg[r].asset}
  /\ version' = version + 1
  /\ UNCHANGED <<uploading, store, age, claim, open, job, faults>>

\* A statement fails or the process dies: the transaction rolls back, the claim stays.
rollbackEvidence(r) ==
  /\ reg[r].pc \in {"checked", "writing", "claimed"}
  /\ Fault
  /\ reg' = [reg EXCEPT ![r] = Idle]
  /\ UNCHANGED <<uploading, store, age, claim, order, job>>

\* Any other command of the order that ends its mutability.
closeOrder ==
  /\ open /\ Unlocked
  /\ open' = FALSE
  /\ version' = version + 1
  /\ UNCHANGED <<uploading, store, age, claim, evidence, reg, job, faults>>

(***************************************************************************)
(* The orphan job: EvidenceOrphanDetectionProcessor.process.               *)
(***************************************************************************)
\* A query returns any Batch of its rows: the one for claims has no ORDER BY,
\* and the model does not tell apart when two rows were deleted.
Limit(rows) ==
  {s \in SUBSET rows : IF Cardinality(rows) <= Batch
                         THEN s = rows ELSE Cardinality(s) = Batch}

\* Mutant: the soft delete does not look at the claim.
AbandonedOrClaimed(a) == media[a] \in {"QUARANTINED", "AVAILABLE"} /\ age[a] >= 2

\* Mutant: an asset whose analysis never ran is not looked at.
AbandonedAvailable(a) == media[a] = "AVAILABLE" /\ age[a] >= 2 /\ claim[a] = "NULL"

Abandoned(a) ==
  media[a] \in {"QUARANTINED", "AVAILABLE"} /\ age[a] >= 2 /\ claim[a] = "NULL"

softDeleteUnclaimedOrphans ==
  /\ sweep = "idle"
  /\ sweep' = "select"
  /\ media' = [a \in Asset |-> IF Abandoned(a) THEN "EXPIRED" ELSE media[a]]
  /\ claim' = [a \in Asset |-> IF Abandoned(a) THEN "ORPHAN" ELSE claim[a]]
  /\ UNCHANGED <<uploading, object, age, order, reg, todo, held, faults>>

selectClaims ==
  /\ sweep = "select"
  /\ sweep' = "claims"
  /\ todo' \in Limit({a \in Asset :
       claim[a] = "ORDER" /\ media[a] # "DELETED" /\ age[a] >= 1})
  /\ UNCHANGED <<uploading, store, age, claim, order, reg, held, faults>>

\* Without Overlap no registration of the asset is between its claim and its end.
Visible(a) ==
  \A r \in Register : reg[r].pc = "claimed" => reg[r].asset # a

\* The job reads committed rows only.
lookUpEvidence(a) ==
  /\ sweep = "claims" /\ held = "none" /\ a \in todo
  /\ Overlap \/ Visible(a)
  /\ todo' = todo \ {a}
  /\ held' = IF a \in evidence THEN "none" ELSE a
  /\ UNCHANGED <<uploading, store, age, claim, order, reg, sweep, faults>>

\* Mutant: the claim is marked, not cleared.
releaseMarked ==
  /\ sweep = "claims" /\ held # "none"
  /\ claim' = [claim EXCEPT ![held] = "RELEASED"]
  /\ held' = "none"
  /\ UNCHANGED <<uploading, store, age, order, reg, sweep, todo, faults>>

\* UPDATE ... SET claim_ref = NULL WHERE id: whatever has happened since.
releaseOrphanClaim ==
  /\ sweep = "claims" /\ held # "none"
  /\ claim' = [claim EXCEPT ![held] = "NULL"]
  /\ held' = "none"
  /\ UNCHANGED <<uploading, store, age, order, reg, sweep, todo, faults>>

\* reconcileClaimFailed finds nothing: no CLAIM_FAILED row is ever committed.
selectRetained ==
  /\ sweep = "claims" /\ held = "none" /\ todo = {}
  /\ sweep' = "objects"
  /\ todo' \in Limit({a \in Asset : media[a] = "EXPIRED" /\ age[a] = 3})
  /\ UNCHANGED <<uploading, store, age, claim, order, reg, held, faults>>

deleteObject(a) ==
  /\ sweep = "objects" /\ held = "none" /\ a \in todo
  /\ object' = [object EXCEPT ![a] = FALSE]
  /\ todo' = todo \ {a}
  /\ held' = a
  /\ UNCHANGED <<uploading, media, age, claim, order, reg, sweep, faults>>

markDeleted ==
  /\ sweep = "objects" /\ held # "none"
  /\ media' = [media EXCEPT ![held] = "DELETED"]
  /\ held' = "none"
  /\ UNCHANGED <<uploading, object, age, claim, order, reg, sweep, todo, faults>>

\* The store or the UPDATE refuses one candidate; the job goes on with the next.
candidateFails ==
  /\ sweep = "objects" /\ Fault
  /\ \/ held # "none" /\ held' = "none" /\ UNCHANGED todo
     \/ held = "none" /\ (\E a \in todo : todo' = todo \ {a}) /\ UNCHANGED held
  /\ UNCHANGED <<uploading, store, age, claim, order, reg, sweep>>

endSweep ==
  /\ sweep = "objects" /\ held = "none" /\ todo = {}
  /\ sweep' = "idle"
  /\ UNCHANGED <<uploading, store, age, claim, order, reg, todo, held, faults>>

\* A phase throws or the worker dies; the next run of the job starts over.
sweepDies ==
  /\ sweep # "idle" /\ Fault
  /\ sweep' = "idle" /\ todo' = {} /\ held' = "none"
  /\ UNCHANGED <<uploading, store, age, claim, order, reg>>

(***************************************************************************)
(* The specification.                                                      *)
(***************************************************************************)
Uploading(a) ==
  reserveIntent(a) \/ saveRow(a) \/ putObject(a) \/ addAnalysis(a) \/ linkIntent(a)

Registration(r) == writeEvidence(r) \/ claimAsset(r) \/ commitEvidence(r)

Sweep ==
  \/ softDeleteUnclaimedOrphans \/ selectClaims \/ releaseOrphanClaim
  \/ selectRetained \/ markDeleted \/ endSweep
  \/ \E a \in Asset : lookUpEvidence(a) \/ deleteObject(a)

Next ==
  \/ \E a \in Asset :
       \/ Uploading(a) \/ UploadFails(a) \/ UploadDies(a) \/ purgeIntent(a)
       \/ analyse(a) \/ analysisLost(a) \/ GrowOld(a)
  \/ \E r \in Register :
       \/ \E a \in Asset : checkEvidence(r, a)
       \/ Registration(r) \/ rollbackEvidence(r)
  \/ closeOrder
  \/ Sweep \/ candidateFails \/ sweepDies

Spec == Init /\ [][Next]_vars

\* Transactions end, the repeatable job goes on, time passes.
FairSpec ==
  /\ Spec
  /\ \A a \in Asset : WF_vars(GrowOld(a))
  /\ \A r \in Register : WF_vars(Registration(r))
  /\ WF_vars(Sweep)

(***************************************************************************)
(* Properties.                                                             *)
(***************************************************************************)
\* A committed evidence keeps its claim, its AVAILABLE asset and its object,
\* whatever the orphan job releases, expires and deletes meanwhile
\* (registerEvidence against releaseOrphanClaims and softDeleteUnclaimedOrphans).
EvidenceKeepsAsset ==
  \A a \in evidence :
    media[a] = "AVAILABLE" /\ claim[a] = "ORDER" /\ object[a]

\* Every object of the store has a row by which the cleanup can find it, and no
\* row is DELETED before its object (compensation of createUploadIntent,
\* physicalDeleteRetained).  It needs a store whose failures are clear: the
\* compensation does not look whether a failed putObject has stored the object.
ObjectsHaveRows ==
  \A a \in Asset : object[a] => media[a] \notin {"none", "DELETED"}

\* What no evidence refers to is deleted in the end: failed uploads, crashes,
\* lost analyses and claims that survived a rollback leave no asset behind.  A
\* REJECTED asset stays: the soft delete does not look at it.
OrphansAreRemoved ==
  \A a \in Asset : upload[a] = "ended" ~>
    media[a] \in {"none", "REJECTED", "DELETED"} \/ a \in evidence

\* An asset that was rejected, expired or deleted never becomes usable again: an
\* analysis that is delayed or retried until the orphan job has been there finds
\* its row no longer QUARANTINED (process of the analysis, FOR UPDATE, against
\* softDeleteUnclaimedOrphans and physicalDeleteRetained).
UnusableIsFinal ==
  [][\A a \in Asset :
       /\ media[a] \in {"REJECTED", "DELETED"} => media'[a] = media[a]
       /\ media[a] = "EXPIRED" => media'[a] \in {"EXPIRED", "DELETED"}]_vars
=============================================================================
