------------------------ MODULE GenerationCutoverProofs ------------------------
(***************************************************************************)
(* Proofs about cutover and rebuild, for any number of documents, chunks   *)
(* and generations and any number of faults and losses.                    *)
(***************************************************************************)
EXTENDS GenerationCutover, FiniteSetTheorems, TLAPS

\* No job knows of a generation that is still to come.
NothingAhead ==
  /\ \A g \in Generations : g > active => job[g].status = "none"
  /\ \A d \in Docs : ingest[d].gen <= active

\* A document settles with its ingestion job, so nothing but an activation
\* changes which documents are live.
IngestSettles ==
  \A d \in Docs : /\ ingest[d].status \in Pending => docs[d] = "processing"
                  /\ ingest[d].status = "failed" => docs[d] = "failed"

\* What a rebuild has counted stays until it is reported.
CountedIsThere ==
  \A g \in Generations :
    worker[g].pc = "finalize" => PointsOfAll(worker[g].targets) \subseteq points[g]

IInv == RebuildSafe /\ NothingAhead /\ IngestSettles /\ CountedIsThere

-----------------------------------------------------------------------------
(* What the proofs of the steps share.                                      *)

\* The points of the documents can be counted.
LEMMA PointTotalNat == \A D \in SUBSET Docs : Cardinality(PointsOfAll(D)) \in Nat
<1>1. ASSUME NEW d \in Docs PROVE IsFiniteSet(PointsOf(d))
  <2>1. Chunks[d] \in Nat
    BY DocsAssumption
  <2>2. IsFiniteSet(1 .. Chunks[d])
    BY <2>1, FS_Interval
  <2>3. [k \in 1 .. Chunks[d] |-> <<d, k>>] \in Surjection(1 .. Chunks[d], PointsOf(d))
    BY DEF PointsOf, Surjection
  <2> QED
    BY <2>2, <2>3, FS_Surjection
<1>2. ASSUME NEW D \in SUBSET Docs PROVE IsFiniteSet(PointsOfAll(D))
  <2>1. IsFiniteSet(D)
    BY DocsAssumption, FS_Subset
  <2> DEFINE sets == {PointsOf(d) : d \in D}
  <2>2. [d \in D |-> PointsOf(d)] \in Surjection(D, sets)
    BY DEF Surjection
  <2>3. IsFiniteSet(sets)
    BY <2>1, <2>2, FS_Surjection
  <2>4. \A T \in sets : IsFiniteSet(T)
    BY <1>1
  <2> QED
    BY <2>3, <2>4, FS_UNION DEF PointsOfAll
<1> QED
  BY <1>2, FS_CardinalityType

LEMMA PointsOfAllGrows ==
  ASSUME NEW D, NEW E, D \subseteq E
  PROVE  PointsOfAll(D) \subseteq PointsOfAll(E)
BY DEF PointsOfAll

LEMMA RowFields ==
  ASSUME TypeOK
  PROVE  /\ \A g \in Generations :
              /\ job[g] \in RebuildJobRow /\ job[g].status \in JobStatus
              /\ worker[g] \in RebuildWorker /\ worker[g].targets \in SUBSET Docs
              /\ points[g] \subseteq PointsOfAll(Docs)
              /\ worker[g].pc # "idle" => job[g].status = "running"
         /\ \A d \in Docs : ingest[d] \in IngestJobRow /\ ingest[d].gen \in Generations \cup {0}
         /\ active \in Generations /\ rev \in Nat /\ PointTotal \in Nat
<1>1. Live \in SUBSET Docs
  BY DEF Live
<1>2. PointTotal \in Nat
  BY <1>1, PointTotalNat DEF PointTotal
<1> QED
  BY <1>2, BoundsAssumption DEF TypeOK, RebuildJobRow, RebuildWorker, IngestJobRow

LEMMA EmptyRows ==
  /\ NoJob \in RebuildJobRow /\ NoJob.status = "none"
  /\ NoWorker \in RebuildWorker /\ NoWorker.pc = "idle"
  /\ NoIngest \in IngestJobRow
BY DEF NoJob, NoWorker, NoIngest, RebuildJobRow, RebuildWorker, IngestJobRow, JobStatus

LEMMA NewRebuild ==
  ASSUME NEW total \in Nat, NEW target \in Nat
  PROVE  /\ RebuildJob(total, target) \in RebuildJobRow
         /\ RebuildJob(total, target).status = "queued"
         /\ RebuildJob(total, target).total = total /\ RebuildJob(total, target).target = target
BY EmptyRows DEF RebuildJob, RebuildJobRow, JobStatus

\* What becomes of a job after an error.
LEMMA EndedRows ==
  ASSUME NEW j \in RebuildJobRow
  PROVE  /\ Retryable(j) \in RebuildJobRow /\ Retryable(j).status \in {"queued", "failed"}
         /\ Retryable(j).target = j.target /\ Retryable(j).total = j.total
         /\ Permanent(j) \in RebuildJobRow /\ Permanent(j).status = "failed"
BY DEF Retryable, Permanent, RebuildJobRow, JobStatus

LEMMA ResetRow ==
  ASSUME NEW j \in RebuildJobRow, rev \in Nat, PointTotal \in Nat
  PROVE  /\ ResetTarget(j) \in RebuildJobRow /\ ResetTarget(j).status \in {"queued", "failed"}
         /\ ResetTarget(j).target = rev /\ ResetTarget(j).total = PointTotal
<1> DEFINE k == [j EXCEPT !.target = rev, !.stage = "indexing", !.progress = 0,
                          !.total = PointTotal]
<1>1. k \in RebuildJobRow /\ k.target = rev /\ k.total = PointTotal
  BY DEF RebuildJobRow
<1>2. ResetTarget(j) = Retryable(k)
  BY DEF ResetTarget
<1> HIDE DEF k
<1> QED
  BY <1>1, <1>2, EndedRows

-----------------------------------------------------------------------------
(* Two kinds of steps.                                                      *)

\* A step of ingestion that makes no document live: points are added, and a job
\* becomes pending only in a collection that no rebuild has.
LEMMA StepIngestion ==
  ASSUME IInv, UNCHANGED <<index, lost, job, worker, admin>>,
         docs' \in [Docs -> {"absent", "processing", "active", "failed"}], Live' = Live,
         ingest' \in [Docs -> IngestJobRow],
         \A d \in Docs : /\ ingest'[d].gen = ingest[d].gen
                         /\ ingest'[d].status \in Pending =>
                              \/ ingest[d].status \in Pending
                              \/ ~ActiveRepairExists(ingest[d].gen),
         points' \in [Generations -> SUBSET PointsOfAll(Docs)],
         \A g \in Generations : points[g] \subseteq points'[g],
         IngestSettles'
  PROVE  IInv'
<1> USE DEF index
<1>0. TypeOK
  BY DEF IInv, RebuildSafe
<1>1. TypeOK'
  BY <1>0 DEF TypeOK
<1>2. LiveDocumentsEnrolled' /\ TargetsStable'
  BY DEF IInv, RebuildSafe, LiveDocumentsEnrolled, TargetsStable, ActiveRepairExists, PointTotal
<1>3. IndexComplete'
  BY <1>0, RowFields DEF IInv, RebuildSafe, IndexComplete
<1>4. RebuildExcludesIngestion'
  BY DEF IInv, RebuildSafe, RebuildExcludesIngestion, ActiveRepairExists, ActiveIngestionExists
<1>5. NothingAhead' /\ CountedIsThere'
  BY DEF IInv, NothingAhead, CountedIsThere
<1> QED
  BY <1>1, <1>2, <1>3, <1>4, <1>5 DEF IInv, RebuildSafe

\* A step of a rebuild that goes on or gives up: points are added, and what the
\* job aims at is what the rows say.
LEMMA StepRebuild ==
  ASSUME IInv, NEW g \in Generations, NEW j \in RebuildJobRow, NEW v \in RebuildWorker,
         UNCHANGED <<index, docs, ingest, lost, admin>>,
         job' = [job EXCEPT ![g] = j], worker' = [worker EXCEPT ![g] = v],
         job[g].status \in Pending, j.status \in Pending \cup {"failed"},
         v.pc # "idle" => j.status = "running",
         g = active /\ j.status \in Pending => j.target = rev /\ j.total = PointTotal,
         points' \in [Generations -> SUBSET PointsOfAll(Docs)],
         \A h \in Generations : points[h] \subseteq points'[h],
         v.pc = "finalize" => PointsOfAll(v.targets) \subseteq points'[g]
  PROVE  IInv'
<1> USE DEF index
<1>0. TypeOK
  BY DEF IInv, RebuildSafe
<1>1. /\ job' \in [Generations -> RebuildJobRow] /\ worker' \in [Generations -> RebuildWorker]
      /\ \A h \in Generations : /\ job'[h] = IF h = g THEN j ELSE job[h]
                                /\ worker'[h] = IF h = g THEN v ELSE worker[h]
  BY <1>0 DEF TypeOK
<1>2. Live' = Live /\ PointTotal' = PointTotal
  BY DEF Live, PointTotal
<1>3. TypeOK'
  BY <1>0, <1>1 DEF TypeOK
<1>4. LiveDocumentsEnrolled'
  BY <1>2 DEF IInv, RebuildSafe, LiveDocumentsEnrolled
<1>5. IndexComplete'
  BY <1>0, <1>1, <1>2, RowFields DEF IInv, RebuildSafe, IndexComplete
<1>6. RebuildExcludesIngestion'
  BY <1>1 DEF IInv, RebuildSafe, RebuildExcludesIngestion, ActiveRepairExists, ActiveIngestionExists
<1>7. TargetsStable'
  BY <1>0, <1>1, <1>2, RowFields DEF IInv, RebuildSafe, TargetsStable, ActiveRepairExists
<1>8. NothingAhead' /\ IngestSettles'
  BY <1>1 DEF IInv, NothingAhead, IngestSettles, Pending
<1>9. CountedIsThere'
  BY <1>1 DEF IInv, CountedIsThere
<1> QED
  BY <1>3, <1>4, <1>5, <1>6, <1>7, <1>8, <1>9 DEF IInv, RebuildSafe

-----------------------------------------------------------------------------
(* Ingestion.                                                               *)

\* The document and the ingestion job of d are replaced.
LEMMA IngestRows ==
  ASSUME TypeOK, NEW d \in Docs, NEW r \in IngestJobRow,
         NEW status \in {"absent", "processing", "active", "failed"},
         ingest' = [ingest EXCEPT ![d] = r], docs' = [docs EXCEPT ![d] = status]
  PROVE  /\ ingest' \in [Docs -> IngestJobRow]
         /\ docs' \in [Docs -> {"absent", "processing", "active", "failed"}]
         /\ \A e \in Docs : /\ ingest'[e] = IF e = d THEN r ELSE ingest[e]
                            /\ docs'[e] = IF e = d THEN status ELSE docs[e]
         /\ docs[d] # "active" /\ status # "active" => Live' = Live
BY DEF TypeOK, Live

\* Steps of the worker of a document.
LEMMA ActClaimIngest ==
  ASSUME IInv, NEW d \in Docs, ClaimIngest(d)
  PROVE  IInv'
<1>0. TypeOK /\ ingest[d].status = "queued" /\ UNCHANGED <<index, docs, lost, job, worker, admin, points>>
  BY DEF IInv, RebuildSafe, ClaimIngest, outside
<1> DEFINE r == [ingest[d] EXCEPT !.status = "running", !.pc = "upsert"]
<1>1. ingest[d] \in IngestJobRow
  BY <1>0, RowFields
<1>2. r \in IngestJobRow /\ r.status = "running" /\ r.gen = ingest[d].gen
  BY <1>1 DEF IngestJobRow, JobStatus
<1>3. ingest' = [ingest EXCEPT ![d] = r]
  BY <1>0, <1>1 DEF ClaimIngest, TypeOK
<1> HIDE DEF r
<1>4. docs[d] = "processing" /\ docs' = [docs EXCEPT ![d] = "processing"]
  BY <1>0 DEF IInv, IngestSettles, Pending, TypeOK
<1>5. IngestSettles'
  BY <1>0, <1>2, <1>3, <1>4, IngestRows DEF IInv, IngestSettles, Pending
<1>6. /\ ingest' \in [Docs -> IngestJobRow]
      /\ docs' \in [Docs -> {"absent", "processing", "active", "failed"}]
      /\ Live' = Live
      /\ \A e \in Docs : ingest'[e] = IF e = d THEN r ELSE ingest[e]
  BY <1>0, <1>2, <1>3, <1>4, IngestRows
<1>7. points' \in [Generations -> SUBSET PointsOfAll(Docs)]
  BY <1>0 DEF TypeOK
<1> QED
  BY <1>0, <1>2, <1>5, <1>6, <1>7, StepIngestion DEF Pending

LEMMA ActUpsertDocument ==
  ASSUME IInv, NEW d \in Docs, UpsertDocument(d)
  PROVE  IInv'
<1>0. TypeOK /\ UNCHANGED <<index, docs, lost, job, worker, admin>>
  BY DEF IInv, RebuildSafe, UpsertDocument, outside
<1>1. PointsOf(d) \subseteq PointsOfAll(Docs)
  BY DEF PointsOfAll
<1>2. /\ points' \in [Generations -> SUBSET PointsOfAll(Docs)]
      /\ \A g \in Generations : points[g] \subseteq points'[g]
  BY <1>0, <1>1 DEF UpsertDocument, TypeOK
<1>3. /\ ingest' \in [Docs -> IngestJobRow]
      /\ \A e \in Docs : ingest'[e].gen = ingest[e].gen /\ ingest'[e].status = ingest[e].status
  BY <1>0 DEF UpsertDocument, TypeOK, IngestJobRow
<1>4. IngestSettles' /\ Live' = Live
  BY <1>0, <1>3 DEF IInv, IngestSettles, Live
<1> QED
  BY <1>0, <1>2, <1>3, <1>4, StepIngestion DEF TypeOK

LEMMA ActAbandon ==
  ASSUME IInv, NEW d \in Docs, AbandonIngestion(d)
  PROVE  IInv'
<1>0. TypeOK /\ UNCHANGED <<index, docs, lost, job, worker, admin, points>>
  BY DEF IInv, RebuildSafe, AbandonIngestion, outside
<1>3. /\ ingest' \in [Docs -> IngestJobRow]
      /\ \A e \in Docs : ingest'[e].gen = ingest[e].gen /\ ingest'[e].status = ingest[e].status
  BY <1>0 DEF AbandonIngestion, TypeOK, IngestJobRow
<1>4. IngestSettles' /\ Live' = Live
  BY <1>0, <1>3 DEF IInv, IngestSettles, Live
<1> QED
  BY <1>0, <1>3, <1>4, StepIngestion DEF TypeOK

\* The document fails with its job.
LEMMA ActIngestFails ==
  ASSUME IInv, NEW d \in Docs, FailIngestion(d) \/ ExhaustIngestion(d)
  PROVE  IInv'
<1>0. TypeOK /\ ingest[d].status = "running" /\ UNCHANGED <<index, lost, job, worker, admin, points>>
      /\ docs' = [docs EXCEPT ![d] = "failed"]
  BY DEF IInv, RebuildSafe, FailIngestion, ExhaustIngestion, outside
<1>1. ingest[d] \in IngestJobRow
  BY <1>0, RowFields
<1>2. PICK r \in IngestJobRow : /\ ingest' = [ingest EXCEPT ![d] = r]
                                /\ r.status = "failed" /\ r.gen = ingest[d].gen
  <2>1. CASE FailIngestion(d)
    <3> DEFINE r == [ingest[d] EXCEPT !.status = "failed", !.pc = "idle"]
    <3>1. r \in IngestJobRow /\ r.status = "failed" /\ r.gen = ingest[d].gen
      BY <1>1 DEF IngestJobRow, JobStatus
    <3>2. ingest' = [ingest EXCEPT ![d] = r]
      BY <1>0, <2>1 DEF FailIngestion, TypeOK
    <3> QED
      BY <3>1, <3>2
  <2>2. CASE ExhaustIngestion(d)
    <3>1. PICK pc \in {"idle", ingest[d].pc} :
            ingest' = [ingest EXCEPT ![d].status = "failed", ![d].retryable = TRUE, ![d].pc = pc]
      BY <2>2 DEF ExhaustIngestion
    <3> DEFINE r == [ingest[d] EXCEPT !.status = "failed", !.retryable = TRUE, !.pc = pc]
    <3>2. r \in IngestJobRow /\ r.status = "failed" /\ r.gen = ingest[d].gen
      BY <1>1 DEF IngestJobRow, JobStatus
    <3>3. ingest' = [ingest EXCEPT ![d] = r]
      BY <1>0, <3>1 DEF TypeOK
    <3> QED
      BY <3>2, <3>3
  <2> QED
    BY <2>1, <2>2
<1>3. docs[d] = "processing"
  BY <1>0 DEF IInv, IngestSettles, Pending
<1>4. IngestSettles'
  BY <1>0, <1>2, IngestRows DEF IInv, IngestSettles, Pending
<1>6. /\ ingest' \in [Docs -> IngestJobRow]
      /\ docs' \in [Docs -> {"absent", "processing", "active", "failed"}]
      /\ Live' = Live
      /\ \A e \in Docs : ingest'[e] = IF e = d THEN r ELSE ingest[e]
  BY <1>0, <1>2, <1>3, IngestRows
<1>7. points' \in [Generations -> SUBSET PointsOfAll(Docs)]
  BY <1>0 DEF TypeOK
<1> QED
  BY <1>0, <1>2, <1>4, <1>6, <1>7, StepIngestion DEF Pending

LEMMA ActRetryIngestion ==
  ASSUME IInv, NEW d \in Docs, RetryIngestion(d)
  PROVE  IInv'
<1>0. /\ TypeOK /\ ingest[d].status = "failed" /\ ~ActiveRepairExists(ingest[d].gen)
      /\ UNCHANGED <<index, lost, job, worker, admin, points>>
      /\ docs' = [docs EXCEPT ![d] = "processing"]
  BY DEF IInv, RebuildSafe, RetryIngestion, outside
<1> DEFINE r == [ingest[d] EXCEPT !.status = "queued", !.retryable = FALSE]
<1>1. ingest[d] \in IngestJobRow
  BY <1>0, RowFields
<1>2. r \in IngestJobRow /\ r.status = "queued" /\ r.gen = ingest[d].gen
  BY <1>1 DEF IngestJobRow, JobStatus
<1>3. ingest' = [ingest EXCEPT ![d] = r]
  BY <1>0 DEF RetryIngestion, TypeOK
<1> HIDE DEF r
<1>4. docs[d] = "failed"
  BY <1>0 DEF IInv, IngestSettles
<1>5. IngestSettles'
  BY <1>0, <1>2, <1>3, IngestRows DEF IInv, IngestSettles, Pending
<1>6. /\ ingest' \in [Docs -> IngestJobRow]
      /\ docs' \in [Docs -> {"absent", "processing", "active", "failed"}]
      /\ Live' = Live
      /\ \A e \in Docs : ingest'[e] = IF e = d THEN r ELSE ingest[e]
  BY <1>0, <1>2, <1>3, <1>4, IngestRows
<1>7. points' \in [Generations -> SUBSET PointsOfAll(Docs)]
  BY <1>0 DEF TypeOK
<1> QED
  BY <1>0, <1>2, <1>5, <1>6, <1>7, StepIngestion

\* A document is uploaded: the revision rises, which no pending rebuild sees.
LEMMA ActReserveUpload ==
  ASSUME IInv, NEW d \in Docs, ReserveUpload(d)
  PROVE  IInv'
<1>0. /\ TypeOK /\ docs[d] = "absent" /\ ~ActiveRepairExists(active)
      /\ rev' = rev + 1 /\ rev < MaxRevision /\ docs' = [docs EXCEPT ![d] = "processing"]
      /\ UNCHANGED <<active, states, points, lost, job, worker, admin>>
  BY DEF IInv, RebuildSafe, ReserveUpload, outside, NoRepairInProgress
<1> DEFINE r == [NoIngest EXCEPT !.status = "queued", !.gen = active]
<1>1. r \in IngestJobRow /\ r.status = "queued" /\ r.gen = active /\ active \in Generations
  BY <1>0, EmptyRows DEF IngestJobRow, JobStatus, TypeOK
<1>2. ingest' = [ingest EXCEPT ![d] = r]
  BY DEF ReserveUpload
<1> HIDE DEF r
<1>3. /\ ingest' \in [Docs -> IngestJobRow] /\ Live' = Live
      /\ docs' \in [Docs -> {"absent", "processing", "active", "failed"}]
      /\ \A e \in Docs : /\ ingest'[e] = IF e = d THEN r ELSE ingest[e]
                         /\ docs'[e] = IF e = d THEN "processing" ELSE docs[e]
  BY <1>0, <1>1, <1>2, IngestRows
<1>4. rev' \in 1 .. MaxRevision
  BY <1>0, BoundsAssumption DEF TypeOK
<1>5. TypeOK'
  BY <1>0, <1>3, <1>4 DEF TypeOK
<1>6. LiveDocumentsEnrolled' /\ IndexComplete' /\ TargetsStable'
  BY <1>0, <1>3 DEF IInv, RebuildSafe, LiveDocumentsEnrolled, IndexComplete, TargetsStable,
     ActiveRepairExists
<1>7. RebuildExcludesIngestion'
  BY <1>0, <1>1, <1>3 DEF IInv, RebuildSafe, RebuildExcludesIngestion, ActiveRepairExists,
     ActiveIngestionExists
<1>8. NothingAhead'
  BY <1>0, <1>1, <1>3, GenerationsAssumption DEF IInv, NothingAhead
<1>9. IngestSettles' /\ CountedIsThere'
  BY <1>0, <1>1, <1>3 DEF IInv, IngestSettles, CountedIsThere, Pending
<1> QED
  BY <1>5, <1>6, <1>7, <1>8, <1>9 DEF IInv, RebuildSafe

\* commit_activation: the document joins the live ones with its index state and
\* its points, and no rebuild of this collection is pending.
LEMMA ActActivateDocument ==
  ASSUME IInv, NEW d \in Docs, ActivateDocument(d)
  PROVE  IInv'
<1>0. /\ TypeOK /\ ingest[d].status = "running" /\ ingest[d].gen = active
      /\ rev' = rev + 1 /\ rev < MaxRevision /\ docs' = [docs EXCEPT ![d] = "active"]
      /\ PointsOf(d) \subseteq points[active] /\ states' = [states EXCEPT ![active] = @ \cup {d}]
      /\ UNCHANGED <<active, points, lost, job, worker, admin>>
  BY DEF IInv, RebuildSafe, ActivateDocument, outside, StageGraphValid
<1> DEFINE r == [ingest[d] EXCEPT !.status = "succeeded", !.pc = "idle"]
<1>1. ingest[d] \in IngestJobRow /\ active \in Generations
  BY <1>0, RowFields
<1>2. r \in IngestJobRow /\ r.status = "succeeded" /\ r.gen = active
  BY <1>0, <1>1 DEF IngestJobRow, JobStatus
<1>3. ingest' = [ingest EXCEPT ![d] = r]
  BY <1>0 DEF ActivateDocument, TypeOK
<1> HIDE DEF r
<1>4. /\ ingest' \in [Docs -> IngestJobRow]
      /\ docs' \in [Docs -> {"absent", "processing", "active", "failed"}]
      /\ \A e \in Docs : /\ ingest'[e] = IF e = d THEN r ELSE ingest[e]
                         /\ docs'[e] = IF e = d THEN "active" ELSE docs[e]
  BY <1>0, <1>2, <1>3, IngestRows
<1>5. Live' = Live \cup {d}
  BY <1>4 DEF Live
<1>6. ~ActiveRepairExists(active)
  BY <1>0, <1>1 DEF IInv, RebuildSafe, RebuildExcludesIngestion, ActiveIngestionExists, Pending
<1>7. TypeOK'
  <2>1. rev' \in 1 .. MaxRevision
    BY <1>0, BoundsAssumption DEF TypeOK
  <2> QED
    BY <1>0, <1>4, <2>1 DEF TypeOK
<1>8. LiveDocumentsEnrolled'
  BY <1>0, <1>1, <1>5 DEF IInv, RebuildSafe, LiveDocumentsEnrolled, TypeOK
<1>9. IndexComplete'
  <2>1. PointsOfAll(Live') = PointsOfAll(Live) \cup PointsOf(d)
    BY <1>5 DEF PointsOfAll
  <2> QED
    BY <1>0, <2>1 DEF IInv, RebuildSafe, IndexComplete
<1>10. TargetsStable'
  BY <1>0, <1>6 DEF TargetsStable, ActiveRepairExists
<1>11. RebuildExcludesIngestion'
  BY <1>0, <1>2, <1>4 DEF IInv, RebuildSafe, RebuildExcludesIngestion, ActiveRepairExists,
     ActiveIngestionExists, Pending
<1>12. NothingAhead'
  BY <1>0, <1>2, <1>4 DEF IInv, NothingAhead
<1>13. IngestSettles' /\ CountedIsThere'
  BY <1>0, <1>2, <1>4 DEF IInv, IngestSettles, CountedIsThere, Pending
<1> QED
  BY <1>7, <1>8, <1>9, <1>10, <1>11, <1>12, <1>13 DEF IInv, RebuildSafe

-----------------------------------------------------------------------------
(* Cutover, loss and the reservation of a repair.                           *)

\* _activate: the successor starts with every live document enrolled and, if
\* there is one, with a pending rebuild.
LEMMA ActCutover ==
  ASSUME IInv, Cutover
  PROVE  IInv'
<1> DEFINE g == active + 1
           j == IF Live = {} THEN NoJob ELSE RebuildJob(PointTotal, rev + 1)
<1>0. /\ TypeOK /\ g \in Generations /\ active' = g /\ rev' = rev + 1 /\ rev < MaxRevision
      /\ states' = [states EXCEPT ![g] = Live] /\ job' = [job EXCEPT ![g] = j]
      /\ UNCHANGED <<docs, ingest, points, lost, worker, admin>>
  BY DEF IInv, RebuildSafe, Cutover, outside, EnrolLiveVersions
<1>1. active \in Generations /\ active \in Nat /\ rev \in Nat /\ PointTotal \in Nat
  BY <1>0, RowFields, GenerationsAssumption
<1>2. j \in RebuildJobRow /\ (Live = {} \/ (j.status = "queued" /\ j.target = rev + 1 /\ j.total = PointTotal))
      /\ (Live = {} => j.status = "none")
  BY <1>1, EmptyRows, NewRebuild
<1> HIDE DEF j
<1>3. g > active /\ job[g].status = "none"
  BY <1>0, <1>1 DEF IInv, NothingAhead
<1>4. worker[g].pc = "idle"
  BY <1>0, <1>3, RowFields
<1>5. /\ job' \in [Generations -> RebuildJobRow]
      /\ \A h \in Generations : job'[h] = IF h = g THEN j ELSE job[h]
      /\ states' \in [Generations -> SUBSET Docs] /\ states'[g] = Live
  BY <1>0, <1>2 DEF TypeOK, Live
<1>6. Live' = Live /\ PointTotal' = PointTotal
  BY <1>0 DEF Live, PointTotal
<1>7. TypeOK'
  <2>1. rev' \in 1 .. MaxRevision
    BY <1>0, BoundsAssumption DEF TypeOK
  <2> QED
    BY <1>0, <1>4, <1>5, <2>1 DEF TypeOK
<1>8. LiveDocumentsEnrolled'
  BY <1>0, <1>5, <1>6 DEF LiveDocumentsEnrolled
<1>9. IndexComplete'
  <2>1. CASE Live = {}
    BY <1>6, <2>1 DEF IndexComplete, PointsOfAll
  <2>2. CASE Live # {}
    BY <1>0, <1>2, <1>5, <2>2 DEF IndexComplete, Pending
  <2> QED
    BY <2>1, <2>2
<1>10. \A d \in Docs : ingest[d].gen \in Nat /\ ingest[d].gen <= active
  <2>1. ASSUME NEW d \in Docs PROVE ingest[d].gen \in Generations \cup {0}
    BY <1>0, RowFields
  <2>2. Generations \cup {0} \subseteq Nat
    BY GenerationsAssumption
  <2>3. \A d \in Docs : ingest[d].gen <= active
    BY DEF IInv, NothingAhead
  <2> QED
    BY <2>1, <2>2, <2>3
<1>11. RebuildExcludesIngestion'
  <2>1. \A d \in Docs : ingest[d].gen # g
    BY <1>1, <1>10
  <2> QED
    BY <1>0, <1>5, <2>1 DEF IInv, RebuildSafe, RebuildExcludesIngestion, ActiveRepairExists,
       ActiveIngestionExists
<1>12. TargetsStable'
  BY <1>0, <1>2, <1>5, <1>6 DEF TargetsStable, ActiveRepairExists, Pending
<1>13. NothingAhead'
  <2>1. \A h \in Generations : h \in Nat /\ (h > g => h > active /\ h # g)
    BY <1>1, GenerationsAssumption
  <2>3. \A d \in Docs : ingest[d].gen <= g
    BY <1>1, <1>10
  <2> QED
    BY <1>0, <1>5, <2>1, <2>3 DEF IInv, NothingAhead
<1>14. IngestSettles' /\ CountedIsThere'
  BY <1>0 DEF IInv, IngestSettles, CountedIsThere
<1> QED
  BY <1>7, <1>8, <1>9, <1>11, <1>12, <1>13, <1>14 DEF IInv, RebuildSafe

LEMMA ActLoseCollection ==
  ASSUME IInv, NEW g \in Generations, LoseCollection(g)
  PROVE  IInv'
<1> USE DEF index
<1>0. /\ TypeOK /\ worker[g].pc # "finalize" /\ points' = [points EXCEPT ![g] = {}]
      /\ lost' = lost \cup {g} /\ UNCHANGED <<index, docs, ingest, job, worker, admin>>
  BY DEF IInv, RebuildSafe, LoseCollection
<1>1. /\ points' \in [Generations -> SUBSET PointsOfAll(Docs)]
      /\ \A h \in Generations : points'[h] = IF h = g THEN {} ELSE points[h]
  BY <1>0 DEF TypeOK
<1>2. Live' = Live /\ PointTotal' = PointTotal
  BY <1>0 DEF Live, PointTotal
<1>3. TypeOK'
  BY <1>0, <1>1 DEF TypeOK
<1>4. LiveDocumentsEnrolled' /\ RebuildExcludesIngestion' /\ TargetsStable'
  BY <1>0, <1>2 DEF IInv, RebuildSafe, LiveDocumentsEnrolled, RebuildExcludesIngestion,
     TargetsStable, ActiveRepairExists, ActiveIngestionExists
<1>5. IndexComplete'
  BY <1>0, <1>1, <1>2, RowFields DEF IInv, RebuildSafe, IndexComplete
<1>6. NothingAhead' /\ IngestSettles' /\ CountedIsThere'
  BY <1>0, <1>1 DEF IInv, NothingAhead, IngestSettles, CountedIsThere
<1> QED
  BY <1>3, <1>4, <1>5, <1>6 DEF IInv, RebuildSafe

\* A rebuild of the active generation becomes pending, with the rows as they are
\* and no ingestion of the collection.
LEMMA StepPending ==
  ASSUME IInv, NEW j \in RebuildJobRow, j.status = "queued", j.target = rev,
         j.total = PointTotal, job' = [job EXCEPT ![active] = j],
         job[active].status \notin Pending, ~ActiveIngestionExists(active),
         UNCHANGED <<index, docs, ingest, points, lost, worker>>,
         admin'.pc \in {"idle", "reserve"} /\ admin'.gen \in Generations \cup {0}
  PROVE  IInv'
<1> USE DEF index
<1>0. TypeOK /\ active \in Generations
  BY RowFields DEF IInv, RebuildSafe
<1>1. /\ job' \in [Generations -> RebuildJobRow]
      /\ \A h \in Generations : job'[h] = IF h = active THEN j ELSE job[h]
  BY <1>0 DEF TypeOK
<1>2. Live' = Live /\ PointTotal' = PointTotal
  BY DEF Live, PointTotal
<1>3. worker[active].pc = "idle"
  BY <1>0, RowFields DEF Pending
<1>4. TypeOK'
  BY <1>0, <1>1, <1>3 DEF TypeOK
<1>5. LiveDocumentsEnrolled' /\ IndexComplete' /\ TargetsStable'
  BY <1>0, <1>1, <1>2 DEF IInv, RebuildSafe, LiveDocumentsEnrolled, IndexComplete,
     TargetsStable, Pending
<1>6. RebuildExcludesIngestion'
  BY <1>0, <1>1 DEF IInv, RebuildSafe, RebuildExcludesIngestion, ActiveRepairExists,
     ActiveIngestionExists
<1>7. NothingAhead'
  BY <1>0, <1>1, GenerationsAssumption DEF IInv, NothingAhead
<1>8. IngestSettles' /\ CountedIsThere'
  BY DEF IInv, IngestSettles, CountedIsThere
<1> QED
  BY <1>4, <1>5, <1>6, <1>7, <1>8 DEF IInv, RebuildSafe

\* Nothing but the administrator's request changes.
LEMMA StepAdmin ==
  ASSUME IInv, UNCHANGED <<index, docs, ingest, points, lost, job, worker>>,
         admin'.pc \in {"idle", "reserve"} /\ admin'.gen \in Generations \cup {0}
  PROVE  IInv'
<1> USE DEF index
<1>1. TypeOK'
  BY DEF IInv, RebuildSafe, TypeOK
<1>2. RebuildSafe'
  BY <1>1 DEF IInv, RebuildSafe, LiveDocumentsEnrolled, IndexComplete, RebuildExcludesIngestion,
     TargetsStable, ActiveRepairExists, ActiveIngestionExists, Live, PointTotal
<1> QED
  BY <1>2 DEF IInv, NothingAhead, IngestSettles, CountedIsThere

LEMMA ActRepair ==
  ASSUME IInv, StartRepair \/ ReserveRepair \/ \E g \in Generations : RetryRebuild(g)
  PROVE  IInv'
<1>0. TypeOK /\ active \in Generations /\ rev \in Nat /\ PointTotal \in Nat
  BY RowFields DEF IInv, RebuildSafe
<1>1. NoAdmin.pc = "idle" /\ NoAdmin.gen = 0
  BY DEF NoAdmin
<1>2. CASE StartRepair
  BY <1>0, <1>2, StepAdmin DEF StartRepair
<1>3. CASE ReserveRepair
  <2> DEFINE granted == /\ ~ActiveRepairExists(admin.gen) /\ ~ActiveIngestionExists(admin.gen)
                        /\ SnapshotValid(admin.gen) /\ rev = admin.rev
                        /\ CollectionEmpty(admin.gen)
  <2>1. /\ admin' = NoAdmin /\ UNCHANGED <<index, docs, ingest, points, lost, worker>>
        /\ job' = IF granted THEN [job EXCEPT ![admin.gen] = RebuildJob(PointTotal, rev)] ELSE job
    BY <1>3 DEF ReserveRepair
  <2>2. CASE granted
    <3>1. admin.gen = active
      BY <2>2 DEF SnapshotValid
    <3>2. /\ RebuildJob(PointTotal, rev) \in RebuildJobRow
          /\ RebuildJob(PointTotal, rev).status = "queued"
          /\ RebuildJob(PointTotal, rev).target = rev
          /\ RebuildJob(PointTotal, rev).total = PointTotal
      BY <1>0, NewRebuild
    <3>3. job' = [job EXCEPT ![active] = RebuildJob(PointTotal, rev)]
      BY <2>1, <2>2, <3>1
    <3>4. job[active].status \notin Pending /\ ~ActiveIngestionExists(active)
      BY <2>2, <3>1 DEF ActiveRepairExists
    <3>5. admin'.pc \in {"idle", "reserve"} /\ admin'.gen \in Generations \cup {0}
      BY <1>1, <2>1
    <3> QED
      BY <2>1, <3>2, <3>3, <3>4, <3>5, StepPending
  <2>3. CASE ~granted
    BY <1>1, <2>1, <2>3, StepAdmin
  <2> QED
    BY <2>2, <2>3
<1>4. ASSUME NEW g \in Generations, RetryRebuild(g) PROVE IInv'
  <2>1. /\ g = active /\ job[active].status = "failed" /\ ~ActiveIngestionExists(active)
        /\ job[active].target = rev /\ job[active].total = PointTotal
        /\ UNCHANGED <<index, docs, ingest, points, lost, worker, admin>>
    BY <1>4 DEF RetryRebuild, outside
  <2> DEFINE j == [job[active] EXCEPT !.status = "queued", !.attempts = 0, !.retryable = FALSE]
  <2>2. /\ j \in RebuildJobRow /\ j.status = "queued"
        /\ j.target = job[active].target /\ j.total = job[active].total
    <3>1. job[active] \in RebuildJobRow
      BY <1>0, RowFields
    <3> QED
      BY <3>1 DEF RebuildJobRow, JobStatus
  <2>3. job' = [job EXCEPT ![active] = j]
    <3>1. job' = [job EXCEPT ![active].status = "queued", ![active].attempts = 0,
                             ![active].retryable = FALSE]
      BY <1>4, <2>1 DEF RetryRebuild
    <3>2. job \in [Generations -> RebuildJobRow]
      BY <1>0 DEF TypeOK
    <3> QED
      BY <1>0, <3>1, <3>2
  <2> HIDE DEF j
  <2>4. admin'.pc \in {"idle", "reserve"} /\ admin'.gen \in Generations \cup {0}
    BY <1>0, <2>1 DEF TypeOK
  <2> QED
    BY <2>1, <2>2, <2>3, <2>4, StepPending DEF Pending
<1> QED
  BY <1>2, <1>3, <1>4

-----------------------------------------------------------------------------
(* The rebuild job.                                                         *)

\* The worker of g is at work: its job is running, and aims at the rows as they
\* are if g is active.
LEMMA AtWork ==
  ASSUME IInv, NEW g \in Generations, worker[g].pc # "idle"
  PROVE  /\ TypeOK /\ job[g] \in RebuildJobRow /\ worker[g] \in RebuildWorker
         /\ job[g].status = "running" /\ job[g].status \in Pending
         /\ g = active => job[g].target = rev /\ job[g].total = PointTotal
         /\ rev \in Nat /\ PointTotal \in Nat
BY RowFields DEF IInv, RebuildSafe, TargetsStable, ActiveRepairExists, Pending

LEMMA StepStop ==
  ASSUME IInv, NEW g \in Generations, worker[g].pc # "idle", NEW j \in RebuildJobRow,
         j.status \in {"queued", "failed"},
         g = active /\ j.status = "queued" => j.target = rev /\ j.total = PointTotal,
         job' = [job EXCEPT ![g] = j], worker' = [worker EXCEPT ![g] = NoWorker],
         UNCHANGED <<index, docs, ingest, points, lost, admin>>
  PROVE  IInv'
<1>1. TypeOK /\ job[g].status \in Pending
  BY AtWork
<1>2. NoWorker \in RebuildWorker /\ NoWorker.pc = "idle"
  BY EmptyRows
<1>3. points' \in [Generations -> SUBSET PointsOfAll(Docs)]
  BY <1>1 DEF TypeOK
<1> QED
  BY <1>1, <1>2, <1>3, StepRebuild DEF Pending

LEMMA DriftRow ==
  ASSUME IInv, NEW g \in Generations, worker[g].pc # "idle"
  PROVE  /\ AfterDrift(g) \in RebuildJobRow /\ AfterDrift(g).status \in {"queued", "failed"}
         /\ AfterDrift(g).status = "queued" =>
              AfterDrift(g).target = rev /\ AfterDrift(g).total = PointTotal
BY AtWork, ResetRow, EndedRows DEF AfterDrift

LEMMA ActClaimRebuild ==
  ASSUME IInv, NEW g \in Generations, ClaimRebuild(g)
  PROVE  IInv'
<1> DEFINE j == [job[g] EXCEPT !.status = "running", !.attempts = @ + 1]
           v == [worker[g] EXCEPT !.pc = "load"]
<1>0. TypeOK /\ job[g].status = "queued"
      /\ UNCHANGED <<index, docs, ingest, points, lost, admin>>
  BY DEF IInv, RebuildSafe, ClaimRebuild, outside
<1>1. job[g] \in RebuildJobRow /\ worker[g] \in RebuildWorker
  BY <1>0, RowFields
<1>2. j \in RebuildJobRow /\ j.status = "running" /\ j.target = job[g].target /\ j.total = job[g].total
  <2>1. job[g].attempts + 1 \in Nat
    BY <1>1 DEF RebuildJobRow
  <2> QED
    BY <1>1, <2>1 DEF RebuildJobRow, JobStatus
<1>3. v \in RebuildWorker /\ v.pc = "load"
  BY <1>1 DEF RebuildWorker
<1>4. job' = [job EXCEPT ![g] = j] /\ worker' = [worker EXCEPT ![g] = v]
  <2>1. job \in [Generations -> RebuildJobRow] /\ worker \in [Generations -> RebuildWorker]
    BY <1>0 DEF TypeOK
  <2> QED
    BY <2>1 DEF ClaimRebuild
<1> HIDE DEF j, v
<1>5. g = active => job[g].target = rev /\ job[g].total = PointTotal
  BY <1>0 DEF IInv, RebuildSafe, TargetsStable, ActiveRepairExists, Pending
<1>6. points' \in [Generations -> SUBSET PointsOfAll(Docs)]
  BY <1>0 DEF TypeOK
<1> QED
  BY <1>0, <1>2, <1>3, <1>4, <1>5, <1>6, StepRebuild DEF Pending

\* The job stays and the worker goes on; points may be added.
LEMMA StepWork ==
  ASSUME IInv, NEW g \in Generations, worker[g].pc # "idle", NEW v \in RebuildWorker,
         worker' = [worker EXCEPT ![g] = v],
         UNCHANGED <<index, docs, ingest, lost, job, admin>>,
         points' \in [Generations -> SUBSET PointsOfAll(Docs)],
         \A h \in Generations : points[h] \subseteq points'[h],
         v.pc = "finalize" => PointsOfAll(v.targets) \subseteq points'[g]
  PROVE  IInv'
<1>1. job' = [job EXCEPT ![g] = job[g]]
  BY AtWork DEF TypeOK
<1>2. /\ TypeOK /\ job[g] \in RebuildJobRow /\ job[g].status = "running"
      /\ g = active => job[g].target = rev /\ job[g].total = PointTotal
  BY AtWork
<1> QED
  BY <1>1, <1>2, StepRebuild DEF Pending

LEMMA ActLoadSnapshot ==
  ASSUME IInv, NEW g \in Generations, LoadSnapshot(g)
  PROVE  IInv'
<1>0. worker[g].pc # "idle"
  BY DEF LoadSnapshot
<1>1. TypeOK /\ job[g] \in RebuildJobRow /\ rev \in Nat
  BY <1>0, AtWork
<1> DEFINE current == SnapshotValid(g) /\ rev = job[g].target /\ job[g].total = PointTotal
<1>2. CASE current
  <2> DEFINE v == [pc |-> IF job[g].stage = "indexing" THEN "embed" ELSE "count",
                   targets |-> Live, rev |-> rev]
  <2>1. /\ worker' = [worker EXCEPT ![g] = v]
        /\ UNCHANGED <<index, docs, ingest, points, lost, job, admin>>
    BY <1>2 DEF LoadSnapshot, outside
  <2>2. v \in RebuildWorker /\ v.pc # "finalize"
    <3>1. Live \in SUBSET Docs
      BY DEF Live
    <3> QED
      BY <1>1, <3>1 DEF RebuildWorker
  <2>3. points' \in [Generations -> SUBSET PointsOfAll(Docs)]
    BY <1>1, <2>1 DEF TypeOK
  <2> HIDE DEF v
  <2> QED
    BY <1>0, <2>1, <2>2, <2>3, StepWork
<1>3. CASE ~current
  <2>1. Stop(g, IF rev # job[g].target THEN AfterDrift(g) ELSE Permanent(job[g]))
    BY <1>3 DEF LoadSnapshot
  <2>2. CASE rev # job[g].target
    BY <1>0, <2>1, <2>2, DriftRow, StepStop DEF Stop, outside
  <2>3. CASE rev = job[g].target
    BY <1>0, <1>1, <2>1, <2>3, EndedRows, StepStop DEF Stop, outside
  <2> QED
    BY <2>2, <2>3
<1> QED
  BY <1>2, <1>3

LEMMA ActEmbedBatch ==
  ASSUME IInv, NEW g \in Generations, EmbedBatch(g)
  PROVE  IInv'
<1> DEFINE v == [worker[g] EXCEPT !.pc = "checkpoint"]
           batch == BatchAt(worker[g].targets, job[g].progress)
<1>0. /\ worker[g].pc # "idle" /\ points' = [points EXCEPT ![g] = @ \cup batch]
      /\ UNCHANGED <<index, docs, ingest, lost, job, admin>>
  BY DEF EmbedBatch, outside
<1>1. TypeOK /\ worker[g] \in RebuildWorker
  BY <1>0, AtWork
<1>2. v \in RebuildWorker /\ v.pc = "checkpoint"
  BY <1>1 DEF RebuildWorker
<1>3. worker' = [worker EXCEPT ![g] = v]
  BY <1>1 DEF EmbedBatch, TypeOK
<1> HIDE DEF v
<1>4. batch \subseteq PointsOfAll(Docs)
  <2>1. worker[g].targets \subseteq Docs
    BY <1>1, RowFields
  <2>2. batch \subseteq PointsOfAll(worker[g].targets)
    BY DEF BatchAt
  <2> QED
    BY <2>1, <2>2, PointsOfAllGrows
<1> HIDE DEF batch
<1>5. /\ points' \in [Generations -> SUBSET PointsOfAll(Docs)]
      /\ \A h \in Generations : points[h] \subseteq points'[h]
  BY <1>0, <1>1, <1>4 DEF TypeOK
<1> QED
  BY <1>0, <1>2, <1>3, <1>5, StepWork

\* _advance: under the control plane the worker saw, or drift ends the attempt.
LEMMA StepAdvance ==
  ASSUME IInv, NEW g \in Generations, worker[g].pc # "idle", NEW n \in Nat,
         NEW stage \in {"indexing", "validating", "complete"}, Advance(g, stage, n)
  PROVE  IInv'
<1>0. /\ TypeOK /\ job[g] \in RebuildJobRow /\ worker[g] \in RebuildWorker
      /\ job[g].status = "running" /\ job[g].status \in Pending
      /\ g = active => job[g].target = rev /\ job[g].total = PointTotal
  BY AtWork
<1>1. CASE ~ControlPlaneCurrent(g)
  BY <1>1, DriftRow, StepStop DEF Advance, Stop, outside
<1>2. CASE ControlPlaneCurrent(g)
  <2> DEFINE j == [job[g] EXCEPT !.stage = stage, !.progress = n]
             v == [worker[g] EXCEPT !.pc = IF stage = job[g].stage THEN "embed" ELSE "load"]
  <2>1. /\ j \in RebuildJobRow /\ j.status = "running"
        /\ j.target = job[g].target /\ j.total = job[g].total
    BY <1>0 DEF RebuildJobRow, JobStatus
  <2>2. v \in RebuildWorker /\ v.pc # "finalize"
    BY <1>0 DEF RebuildWorker
  <2>3. /\ job' = [job EXCEPT ![g] = j] /\ worker' = [worker EXCEPT ![g] = v]
        /\ UNCHANGED <<index, docs, ingest, points, lost, admin>>
    <3>1. job \in [Generations -> RebuildJobRow] /\ worker \in [Generations -> RebuildWorker]
      BY <1>0 DEF TypeOK
    <3> QED
      BY <1>2, <3>1 DEF Advance, outside
  <2> HIDE DEF j, v
  <2>4. points' \in [Generations -> SUBSET PointsOfAll(Docs)]
    BY <1>0, <2>3 DEF TypeOK
  <2> QED
    BY <1>0, <2>1, <2>2, <2>3, <2>4, StepRebuild
<1> QED
  BY <1>1, <1>2

LEMMA ActAdvances ==
  ASSUME IInv, NEW g \in Generations, Checkpoint(g) \/ AdvanceToComplete(g)
  PROVE  IInv'
<1>0. worker[g].pc # "idle"
  BY DEF Checkpoint, AdvanceToComplete
<1>1. job[g].progress \in Nat /\ job[g].total \in Nat
  BY <1>0, AtWork DEF RebuildJobRow
<1>2. CASE AdvanceToComplete(g)
  BY <1>0, <1>1, <1>2, StepAdvance DEF AdvanceToComplete
<1>3. CASE Checkpoint(g)
  <2> DEFINE a == job[g].progress + 1
             b == job[g].total
             n == Min({a, b})
             stage == IF n = b THEN "validating" ELSE "indexing"
  <2>1. a \in Nat /\ b \in Nat
    BY <1>1
  <2>2. Advance(g, stage, n)
    BY <1>3 DEF Checkpoint
  <2>3. n \in Nat
    <3> HIDE DEF a, b
    <3>1. \E x \in {a, b} : \A y \in {a, b} : x <= y
      BY <2>1
    <3> QED
      BY <2>1, <3>1 DEF Min
  <2>4. stage \in {"indexing", "validating", "complete"}
    OBVIOUS
  <2> HIDE DEF n, stage
  <2> QED
    BY <1>0, <2>2, <2>3, <2>4, StepAdvance
<1> QED
  BY <1>2, <1>3

\* _validate_qdrant: what was counted is what the targets have.
LEMMA ActCountPoints ==
  ASSUME IInv, NEW g \in Generations, CountPoints(g)
  PROVE  IInv'
<1>0. worker[g].pc # "idle"
  BY DEF CountPoints
<1>1. TypeOK /\ job[g] \in RebuildJobRow /\ worker[g] \in RebuildWorker
  BY <1>0, AtWork
<1>2. CASE ~PointsValid(g)
  BY <1>0, <1>1, <1>2, EndedRows, StepStop DEF CountPoints, Stop, outside
<1>3. CASE PointsValid(g)
  <2> DEFINE v == [worker[g] EXCEPT !.pc = IF job[g].stage = "validating" THEN "complete" ELSE "finalize"]
  <2>1. v \in RebuildWorker /\ v.targets = worker[g].targets
    BY <1>1 DEF RebuildWorker
  <2>2. /\ worker' = [worker EXCEPT ![g] = v]
        /\ UNCHANGED <<index, docs, ingest, points, lost, job, admin>>
    <3>1. worker \in [Generations -> RebuildWorker]
      BY <1>1 DEF TypeOK
    <3> QED
      BY <1>3, <3>1 DEF CountPoints, outside
  <2> HIDE DEF v
  <2>3. PointsOfAll(v.targets) \subseteq points'[g]
    BY <1>3, <2>1, <2>2 DEF PointsValid
  <2>4. points' \in [Generations -> SUBSET PointsOfAll(Docs)]
    BY <1>1, <2>2 DEF TypeOK
  <2> QED
    BY <1>0, <2>1, <2>2, <2>3, <2>4, StepWork
<1> QED
  BY <1>2, <1>3

\* _finalize_success: the job is reported as succeeded and the collection is no
\* longer lost.
LEMMA ActFinalize ==
  ASSUME IInv, NEW g \in Generations, FinalizeSuccess(g)
  PROVE  IInv'
<1> USE DEF index
<1>0. worker[g].pc = "finalize" /\ worker[g].pc # "idle"
  BY DEF FinalizeSuccess
<1>1. TypeOK /\ job[g] \in RebuildJobRow /\ job[g].status = "running"
  BY <1>0, AtWork
<1>2. CASE ~LockedSnapshotCurrent(g)
  BY <1>0, <1>2, DriftRow, StepStop DEF FinalizeSuccess, Stop, outside
<1>3. CASE LockedSnapshotCurrent(g)
  <2> DEFINE j == [job[g] EXCEPT !.status = "succeeded"]
  <2>1. j \in RebuildJobRow /\ j.status = "succeeded"
    BY <1>1 DEF RebuildJobRow, JobStatus
  <2>2. /\ job' = [job EXCEPT ![g] = j] /\ worker' = [worker EXCEPT ![g] = NoWorker]
        /\ lost' = lost \ {g} /\ UNCHANGED <<index, docs, ingest, points, admin>>
    <3>1. job \in [Generations -> RebuildJobRow]
      BY <1>1 DEF TypeOK
    <3> QED
      BY <1>3, <3>1 DEF FinalizeSuccess, outside
  <2> HIDE DEF j
  <2>3. g = active /\ Live = worker[g].targets
    BY <1>3 DEF LockedSnapshotCurrent, SnapshotValid
  <2>4. /\ job' \in [Generations -> RebuildJobRow] /\ worker' \in [Generations -> RebuildWorker]
        /\ \A h \in Generations : /\ job'[h] = IF h = g THEN j ELSE job[h]
                                  /\ worker'[h] = IF h = g THEN NoWorker ELSE worker[h]
        /\ NoWorker.pc = "idle"
    BY <1>1, <2>1, <2>2, EmptyRows DEF TypeOK
  <2>5. TypeOK'
    BY <1>1, <2>2, <2>4 DEF TypeOK
  <2>6. LiveDocumentsEnrolled' /\ Live' = Live /\ PointTotal' = PointTotal
    BY <2>2 DEF IInv, RebuildSafe, LiveDocumentsEnrolled, Live, PointTotal
  <2>7. IndexComplete'
    BY <1>0, <2>2, <2>3, <2>6 DEF IInv, CountedIsThere, IndexComplete
  <2>8. RebuildExcludesIngestion' /\ TargetsStable'
    BY <2>1, <2>2, <2>3, <2>4, <2>6 DEF IInv, RebuildSafe, RebuildExcludesIngestion,
       TargetsStable, ActiveRepairExists, ActiveIngestionExists, Pending
  <2>9. NothingAhead'
    BY <1>1, <2>2, <2>4 DEF IInv, NothingAhead
  <2>10. IngestSettles' /\ CountedIsThere'
    BY <2>2, <2>4 DEF IInv, IngestSettles, CountedIsThere
  <2> QED
    BY <2>5, <2>6, <2>7, <2>8, <2>9, <2>10 DEF IInv, RebuildSafe
<1> QED
  BY <1>2, <1>3

\* The attempt fails in a way that may pass, or for good.
LEMMA ActRebuildFails ==
  ASSUME IInv, NEW g \in Generations, RebuildFault(g) \/ RebuildRefused(g)
  PROVE  IInv'
<1>0. worker[g].pc # "idle" /\ UNCHANGED <<index, docs, ingest, points, lost, admin>>
      /\ worker' = [worker EXCEPT ![g] = NoWorker]
  BY DEF RebuildFault, RebuildRefused
<1>1. /\ TypeOK /\ job[g] \in RebuildJobRow
      /\ g = active => job[g].target = rev /\ job[g].total = PointTotal
  BY <1>0, AtWork
<1>2. CASE RebuildFault(g)
  BY <1>0, <1>1, <1>2, EndedRows, StepStop DEF RebuildFault
<1>3. CASE RebuildRefused(g)
  BY <1>0, <1>1, <1>3, EndedRows, StepStop DEF RebuildRefused
<1> QED
  BY <1>2, <1>3

-----------------------------------------------------------------------------
(* The theorems.                                                            *)

LEMMA InitIInv == Init => IInv
<1> SUFFICES ASSUME NEW E \in Existing, InitWith(E) PROVE IInv
  BY DEF Init
<1> USE DEF InitWith
<1>0. E \subseteq Docs /\ 1 \in Generations
  BY DocsAssumption, GenerationsAssumption
<1>1. rev \in 1 .. MaxRevision
  <2>1. IsFiniteSet(E)
    BY <1>0, DocsAssumption, FS_Subset
  <2>2. Cardinality(E) \in Nat
    BY <2>1, FS_CardinalityType
  <2> QED
    BY <2>2, BoundsAssumption
<1>2. Live = E
  BY <1>0 DEF Live
<1>3. /\ ingest \in [Docs -> IngestJobRow]
      /\ \A d \in Docs : ingest[d].status \in {"none", "succeeded"} /\ ingest[d].gen \in {0, 1}
  <2> DEFINE r == [NoIngest EXCEPT !.status = "succeeded", !.gen = 1]
  <2>1. r \in IngestJobRow /\ r.status = "succeeded" /\ r.gen = 1
    BY <1>0, EmptyRows DEF IngestJobRow, JobStatus
  <2>2. NoIngest \in IngestJobRow /\ NoIngest.status = "none" /\ NoIngest.gen = 0
    BY EmptyRows DEF NoIngest
  <2> HIDE DEF r
  <2>3. ingest = [d \in Docs |-> IF d \in E THEN r ELSE NoIngest]
    BY DEF r
  <2> QED
    BY <2>1, <2>2, <2>3
<1>4. PointsOfAll(E) \subseteq PointsOfAll(Docs)
  BY <1>0, PointsOfAllGrows
<1>5. TypeOK
  <2>1. docs \in [Docs -> {"absent", "processing", "active", "failed"}]
    OBVIOUS
  <2>2. states \in [Generations -> SUBSET Docs] /\ points \in [Generations -> SUBSET PointsOfAll(Docs)]
    BY <1>0, <1>4
  <2>3. admin.pc = "idle" /\ admin.gen = 0
    BY DEF NoAdmin
  <2> QED
    BY <1>0, <1>1, <1>3, <2>1, <2>2, <2>3, EmptyRows DEF TypeOK
<1>6. LiveDocumentsEnrolled /\ IndexComplete
  BY <1>0, <1>2 DEF LiveDocumentsEnrolled, IndexComplete
<1>7. RebuildExcludesIngestion /\ TargetsStable
  BY <1>0, EmptyRows DEF RebuildExcludesIngestion, TargetsStable, ActiveRepairExists, Pending
<1>8. NothingAhead
  BY <1>3, EmptyRows DEF NothingAhead
<1>9. IngestSettles /\ CountedIsThere
  BY <1>3, EmptyRows DEF IngestSettles, CountedIsThere, Pending
<1> QED
  BY <1>5, <1>6, <1>7, <1>8, <1>9 DEF IInv, RebuildSafe

LEMMA NextIInv == IInv /\ [Next]_vars => IInv'
<1> SUFFICES ASSUME IInv, [Next]_vars PROVE IInv'
  OBVIOUS
<1>1. CASE UNCHANGED vars
  <2>1. /\ UNCHANGED <<index, docs, ingest, points, lost, job, worker>>
        /\ admin'.pc \in {"idle", "reserve"} /\ admin'.gen \in Generations \cup {0}
    BY <1>1 DEF vars, index, IInv, RebuildSafe, TypeOK
  <2> QED
    BY <2>1, StepAdmin
<1>2. ASSUME NEW d \in Docs,
             ReserveUpload(d) \/ Ingestion(d) \/ ExhaustIngestion(d) \/ RetryIngestion(d)
      PROVE  IInv'
  BY <1>2, ActReserveUpload, ActClaimIngest, ActUpsertDocument, ActActivateDocument,
     ActIngestFails, ActAbandon, ActRetryIngestion DEF Ingestion
<1>3. CASE Cutover \/ StartRepair \/ ReserveRepair
  BY <1>3, ActCutover, ActRepair
<1>4. ASSUME NEW g \in Generations,
             \/ Rebuild(g) \/ RebuildFault(g) \/ RebuildRefused(g)
             \/ RetryRebuild(g) \/ LoseCollection(g)
      PROVE  IInv'
  BY <1>4, ActClaimRebuild, ActLoadSnapshot, ActEmbedBatch, ActAdvances, ActCountPoints,
     ActFinalize, ActRebuildFails, ActRepair, ActLoseCollection DEF Rebuild
<1> QED
  BY <1>1, <1>2, <1>3, <1>4 DEF Next

\* The invariant the others follow from.
THEOREM CutoverInductive == Spec => []IInv
BY InitIInv, NextIInv, PTL DEF Spec

\* Through cutovers, activations, losses, faults and retries the serving
\* generation knows every live document and finds it unless its collection was
\* lost or is being rebuilt, a rebuild never shares its collection with an
\* ingestion, and its targets do not move (_activate, _canonical_targets,
\* reserve_manual_retry).
THEOREM RebuildAlwaysSafe == Spec => []RebuildSafe
<1>1. IInv => RebuildSafe
  BY DEF IInv
<1> QED
  BY <1>1, CutoverInductive, PTL

\* A job that is replaced by one that has not succeeded is not reported.
LEMMA NotReported ==
  ASSUME TypeOK, NEW h \in Generations, NEW j, j.status # "succeeded",
         job' = [job EXCEPT ![h] = j], NEW g \in Generations, job'[g].status = "succeeded"
  PROVE  job[g].status = "succeeded"
BY DEF TypeOK

\* The steps of a rebuild report success nowhere but in _finalize_success.
LEMMA RebuildReports ==
  ASSUME IInv, NEW h \in Generations, Rebuild(h) \/ RebuildFault(h) \/ RebuildRefused(h),
         NEW g \in Generations, job[g].status # "succeeded", job'[g].status = "succeeded"
  PROVE  h = g /\ FinalizeSuccess(g) /\ LockedSnapshotCurrent(g)
<1>0. TypeOK /\ job \in [Generations -> RebuildJobRow] /\ job[h] \in RebuildJobRow
  BY DEF IInv, RebuildSafe, TypeOK
<1>1. Retryable(job[h]).status # "succeeded" /\ Permanent(job[h]).status # "succeeded"
  BY <1>0, EndedRows
<1>2. ASSUME worker[h].pc # "idle" PROVE AfterDrift(h).status # "succeeded"
  BY <1>2, DriftRow
<1>3. job' # job
  OBVIOUS
<1>4. ASSUME NEW j, Stop(h, j), j.status # "succeeded" PROVE FALSE
  BY <1>0, <1>4, NotReported DEF Stop
<1>5. CASE ClaimRebuild(h)
  BY <1>0, <1>5 DEF ClaimRebuild, RebuildJobRow
<1>6. CASE LoadSnapshot(h)
  BY <1>1, <1>2, <1>3, <1>4, <1>6 DEF LoadSnapshot
<1>7. CASE EmbedBatch(h)
  BY <1>3, <1>7 DEF EmbedBatch
<1>8. ASSUME NEW stage, NEW n, Advance(h, stage, n), worker[h].pc # "idle" PROVE FALSE
  <2>1. CASE ControlPlaneCurrent(h)
    BY <1>0, <1>8, <2>1 DEF Advance, RebuildJobRow
  <2>2. CASE ~ControlPlaneCurrent(h)
    BY <1>2, <1>4, <1>8, <2>2 DEF Advance
  <2> QED
    BY <2>1, <2>2
<1>9. CASE Checkpoint(h) \/ AdvanceToComplete(h)
  BY <1>8, <1>9 DEF Checkpoint, AdvanceToComplete
<1>10. CASE CountPoints(h)
  BY <1>1, <1>3, <1>4, <1>10 DEF CountPoints
<1>11. CASE FinalizeSuccess(h)
  <2>1. LockedSnapshotCurrent(h)
    BY <1>2, <1>4, <1>11 DEF FinalizeSuccess
  <2>2. h = g
    BY <1>0, <1>11, <2>1 DEF FinalizeSuccess
  <2> QED
    BY <1>11, <2>1, <2>2
<1>12. CASE RebuildFault(h) \/ RebuildRefused(h)
  BY <1>0, <1>1, <1>12, NotReported DEF RebuildFault, RebuildRefused
<1> QED
  BY <1>5, <1>6, <1>7, <1>9, <1>10, <1>11, <1>12 DEF Rebuild

\* Nor does any other step.
LEMMA OnlyFinalizeReports ==
  ASSUME IInv, Next, NEW g \in Generations,
         job[g].status # "succeeded", job'[g].status = "succeeded"
  PROVE  FinalizeSuccess(g) /\ LockedSnapshotCurrent(g)
<1>0. TypeOK /\ job \in [Generations -> RebuildJobRow] /\ rev \in Nat /\ PointTotal \in Nat
  BY RowFields DEF IInv, RebuildSafe, TypeOK
<1>1. job' # job
  OBVIOUS
<1>2. ASSUME NEW d \in Docs,
             ReserveUpload(d) \/ Ingestion(d) \/ ExhaustIngestion(d) \/ RetryIngestion(d)
      PROVE  FALSE
  BY <1>1, <1>2 DEF ReserveUpload, Ingestion, ClaimIngest, UpsertDocument, ActivateDocument,
     FailIngestion, AbandonIngestion, ExhaustIngestion, RetryIngestion
<1>3. CASE Cutover
  <2>1. NoJob.status # "succeeded" /\ RebuildJob(PointTotal, rev + 1).status # "succeeded"
    BY <1>0, EmptyRows, NewRebuild
  <2>2. active + 1 \in Generations
    BY <1>3 DEF Cutover
  <2> QED
    BY <1>0, <1>3, <2>1, <2>2, NotReported DEF Cutover
<1>4. CASE StartRepair
  BY <1>1, <1>4 DEF StartRepair
<1>5. CASE ReserveRepair
  <2>1. RebuildJob(PointTotal, rev).status # "succeeded"
    BY <1>0, NewRebuild
  <2>2. job' = [job EXCEPT ![admin.gen] = RebuildJob(PointTotal, rev)] /\ admin.gen \in Generations
    BY <1>0, <1>1, <1>5 DEF ReserveRepair, SnapshotValid, TypeOK
  <2> QED
    BY <1>0, <2>1, <2>2, NotReported
<1>6. ASSUME NEW h \in Generations, RetryRebuild(h) \/ LoseCollection(h) PROVE FALSE
  BY <1>0, <1>1, <1>6 DEF RetryRebuild, LoseCollection, RebuildJobRow
<1> QED
  BY <1>2, <1>3, <1>4, <1>5, <1>6, RebuildReports DEF Next

\* A rebuild reported as succeeded has left every point of every live document in
\* the collection that is served (_validate_qdrant, _finalize_success).
THEOREM RebuiltAlwaysComplete == Spec => RebuiltIsComplete
<1> DEFINE A == \A g \in Generations :
                  job[g].status # "succeeded" /\ job'[g].status = "succeeded" =>
                    g = active /\ PointsOfAll(Live) \subseteq points'[g]
<1>1. ASSUME IInv, [Next]_vars PROVE [A]_vars
  <2>1. SUFFICES ASSUME Next, NEW g \in Generations, job[g].status # "succeeded",
                        job'[g].status = "succeeded"
                 PROVE  g = active /\ PointsOfAll(Live) \subseteq points'[g]
    BY <1>1
  <2>2. FinalizeSuccess(g) /\ LockedSnapshotCurrent(g)
    BY <1>1, <2>1, OnlyFinalizeReports
  <2> QED
    BY <1>1, <2>2 DEF FinalizeSuccess, LockedSnapshotCurrent, SnapshotValid, IInv, CountedIsThere
<1> QED
  BY <1>1, CutoverInductive, PTL DEF Spec, RebuiltIsComplete
================================================================================
