--------------------------- MODULE GenerationCutover ---------------------------
(***************************************************************************)
(* What happens to the documents of a knowledge base when its index        *)
(* generation changes or its vectors are lost: the cutover that enrols     *)
(* them in the successor (indexing/generation_services.py), the            *)
(* rebuild_generation job that fills a collection from the stored chunk    *)
(* manifests and validates it (indexing/repair.py), the ingestion jobs     *)
(* and manual retries that compete with it for the same collection         *)
(* (ingestion/repositories.py, jobs/repositories.py).                      *)
(*                                                                         *)
(* A transaction that locks the knowledge base row first is one step.  The *)
(* stages of an ingestion job are DocumentIngestion's subject; here a job  *)
(* writes its points, then commits.  Leases are JobQueue's subject; here a *)
(* job whose worker is gone is queued again.                               *)
(***************************************************************************)
EXTENDS Integers, FiniteSets, FiniteSetsExt

CONSTANTS
  Docs,         \* documents, in the order of their ids
  Existing,     \* the sets of documents that may have been ingested at the start
  Chunks,       \* Chunks[d]: how many chunks the manifest of d lists
  Generations,  \* index generations, 1..n in the order of their creation
  MaxAttempts,  \* max_attempts of a rebuild job
  MaxFaults,    \* bound on failures of workers and providers
  MaxLosses,    \* bound on losses of a collection
  MaxRevision   \* bound on mutation_revision

ASSUME DocsAssumption ==
  /\ Docs \subseteq Nat /\ IsFiniteSet(Docs) /\ Existing \subseteq SUBSET Docs
  /\ Chunks \in [Docs -> Nat \ {0}]
ASSUME GenerationsAssumption == Generations \subseteq Nat \ {0} /\ 1 \in Generations
ASSUME BoundsAssumption ==
  /\ MaxAttempts \in Nat \ {0} /\ MaxRevision \in Nat
  /\ \A E \in Existing : 1 + 2 * Cardinality(E) <= MaxRevision

VARIABLES
  active,  \* knowledge_bases.active_index_generation_id
  rev,     \* knowledge_bases.mutation_revision
  docs,    \* docs[d]: status of the document
  ingest,  \* ingest[d]: its ingestion job and the worker that has it
  states,  \* states[g]: documents with a validated index state in g
  points,  \* points[g]: the points of the collection of g
  lost,    \* generations whose collection was lost and not rebuilt since
  job,     \* job[g]: the rebuild_generation job of g
  worker,  \* worker[g]: what the worker that has job[g] is doing
  admin,   \* a reservation of a repair under way
  faults,
  losses

vars == <<active, rev, docs, ingest, states, points, lost, job, worker, admin,
          faults, losses>>
index == <<active, rev, states>>
outside == <<admin, faults, losses>>

PointsOf(d) == {<<d, k>> : k \in 1..Chunks[d]}
PointsOfAll(D) == UNION {PointsOf(d) : d \in D}
Pending == {"queued", "running"}

NoJob == [status |-> "none", stage |-> "none", progress |-> 0, total |-> 0,
          target |-> 0, attempts |-> 0, retryable |-> FALSE]
NoWorker == [pc |-> "idle", targets |-> {}, rev |-> 0]
NoIngest == [status |-> "none", gen |-> 0, pc |-> "idle", retryable |-> FALSE]
NoAdmin == [pc |-> "idle", gen |-> 0, rev |-> 0]

\* The documents in E were ingested before.
InitWith(E) ==
  /\ active = 1 /\ rev = 1 + 2 * Cardinality(E)
  /\ docs = [d \in Docs |-> IF d \in E THEN "active" ELSE "absent"]
  /\ ingest = [d \in Docs |-> IF d \in E THEN [NoIngest EXCEPT !.status = "succeeded", !.gen = 1]
                            ELSE NoIngest]
  /\ states = [g \in Generations |-> IF g = 1 THEN E ELSE {}]
  /\ points = [g \in Generations |-> IF g = 1 THEN PointsOfAll(E) ELSE {}]
  /\ lost = {}
  /\ job = [g \in Generations |-> NoJob]
  /\ worker = [g \in Generations |-> NoWorker]
  /\ admin = NoAdmin
  /\ faults = 0 /\ losses = 0

Init == \E E \in Existing : InitWith(E)

ActiveRepairExists(g) == job[g].status \in Pending
ActiveIngestionExists(g) == \E d \in Docs : ingest[d].gen = g /\ ingest[d].status \in Pending
Live == {d \in Docs : docs[d] = "active"}

\* live_point_total, and the sum over the canonical targets of a repair.
PointTotal == Cardinality(PointsOfAll(Live))

-----------------------------------------------------------------------------
(* Uploads and ingestion jobs *)

NoRepairInProgress == ~ActiveRepairExists(active)

\* reserve: under the lock of the knowledge base, while no repair of its active
\* generation is pending.
ReserveUpload(d) ==
  /\ docs[d] = "absent"
  /\ NoRepairInProgress
  /\ rev < MaxRevision
  /\ docs' = [docs EXCEPT ![d] = "processing"]
  /\ ingest' = [ingest EXCEPT ![d] = [NoIngest EXCEPT !.status = "queued", !.gen = active]]
  /\ rev' = rev + 1
  /\ UNCHANGED <<active, states, points, lost, job, worker, outside>>

\* A worker that lost its lease may still be writing while another one, or
\* nobody, has the job: only one worker per document is kept.
ClaimIngest(d) ==
  /\ ingest[d].status = "queued" /\ ingest[d].pc = "idle"
  /\ ingest' = [ingest EXCEPT ![d].status = "running", ![d].pc = "upsert"]
  /\ UNCHANGED <<index, docs, points, lost, job, worker, outside>>

\* Reads and writes outside a transaction: the check that the generation is
\* still active came earlier.
UpsertDocument(d) ==
  /\ ingest[d].pc = "upsert"
  /\ points' = [points EXCEPT ![ingest[d].gen] = @ \cup PointsOf(d)]
  /\ ingest' = [ingest EXCEPT ![d].pc = "commit"]
  /\ UNCHANGED <<index, docs, lost, job, worker, outside>>

\* Mutant of StageGraphValid: any generation will do.
StageGraphUnchecked(d) == TRUE

\* The generation of the job is still the active one.
StageGraphValid(d) == ingest[d].gen = active

\* commit_activation in the final stage: the index state is validated, the
\* document active and the revision raised, if the generation of the job is
\* still the active one.
ActivateDocument(d) ==
  /\ ingest[d].pc = "commit" /\ ingest[d].status = "running"
  /\ StageGraphValid(d)
  /\ rev < MaxRevision
  /\ PointsOf(d) \subseteq points[ingest[d].gen]
  /\ docs' = [docs EXCEPT ![d] = "active"]
  /\ states' = [states EXCEPT ![ingest[d].gen] = @ \cup {d}]
  /\ ingest' = [ingest EXCEPT ![d].status = "succeeded", ![d].pc = "idle"]
  /\ rev' = rev + 1
  /\ UNCHANGED <<active, points, lost, job, worker, outside>>

\* INGESTION_STAGE_CONFLICT, or fewer points than chunks: permanent.
FailIngestion(d) ==
  /\ ingest[d].pc = "commit" /\ ingest[d].status = "running"
  /\ ~StageGraphValid(d) \/ ~(PointsOf(d) \subseteq points[ingest[d].gen])
  /\ docs' = [docs EXCEPT ![d] = "failed"]
  /\ ingest' = [ingest EXCEPT ![d].status = "failed", ![d].pc = "idle"]
  /\ UNCHANGED <<index, points, lost, job, worker, outside>>

\* The attempts of the job are used up while its worker, if it still runs,
\* does not know: the reaper settles the document as failed, retryable.
ExhaustIngestion(d) ==
  /\ ingest[d].status = "running" /\ faults < MaxFaults
  /\ docs' = [docs EXCEPT ![d] = "failed"]
  /\ \E pc \in {"idle", ingest[d].pc} :
       ingest' = [ingest EXCEPT ![d].status = "failed", ![d].retryable = TRUE, ![d].pc = pc]
  /\ faults' = faults + 1
  /\ UNCHANGED <<index, points, lost, job, worker, admin, losses>>

\* A worker that finds its lease lost stops.
AbandonIngestion(d) ==
  /\ ingest[d].pc = "commit" /\ ingest[d].status # "running"
  /\ ingest' = [ingest EXCEPT ![d].pc = "idle"]
  /\ UNCHANGED <<index, docs, points, lost, job, worker, outside>>

\* reserve_manual_retry of an ingestion job.
RetryIngestion(d) ==
  /\ ingest[d].status = "failed" /\ ingest[d].retryable /\ ingest[d].pc = "idle"
  /\ ingest[d].gen = active
  /\ ~ActiveRepairExists(active)
  /\ docs' = [docs EXCEPT ![d] = "processing"]
  /\ ingest' = [ingest EXCEPT ![d].status = "queued", ![d].retryable = FALSE]
  /\ UNCHANGED <<index, points, lost, job, worker, outside>>

-----------------------------------------------------------------------------
(* The cutover *)

EnrolLiveVersions == Live

RebuildJob(total, target) ==
  [NoJob EXCEPT !.status = "queued", !.stage = "indexing", !.total = total, !.target = target]

\* _activate of a successor: the swap, the enrolment of the documents and the
\* job that fills the new collection are one transaction.
Cutover ==
  LET g == active + 1
  IN /\ g \in Generations /\ rev < MaxRevision
     /\ active' = g /\ rev' = rev + 1
     /\ states' = [states EXCEPT ![g] = EnrolLiveVersions]
     /\ job' = [job EXCEPT ![g] = IF EnrolLiveVersions = {} THEN NoJob
                                  ELSE RebuildJob(PointTotal, rev + 1)]
     /\ UNCHANGED <<docs, ingest, points, lost, worker, outside>>

-----------------------------------------------------------------------------
(* Repair of a lost collection *)

\* A disk is lost, or a volume is replaced; a loss after the last count of a
\* rebuild is a loss of the rebuilt collection.
LoseCollection(g) ==
  /\ losses < MaxLosses /\ points[g] # {}
  /\ worker[g].pc # "finalize"
  /\ points' = [points EXCEPT ![g] = {}]
  /\ lost' = lost \cup {g}
  /\ losses' = losses + 1
  /\ UNCHANGED <<index, docs, ingest, job, worker, admin, faults>>

\* _canonical_targets: every live document has a validated index state in g.
AnchoredTargets(g) == Live \subseteq states[g]

SnapshotValid(g) == g = active /\ AnchoredTargets(g)

CollectionEmpty(g) == points[g] = {}

\* reserve: a first look without locks, and a probe of the collection.
StartRepair ==
  /\ admin.pc = "idle"
  /\ SnapshotValid(active) /\ ~ActiveRepairExists(active)
  /\ CollectionEmpty(active)
  /\ admin' = [pc |-> "reserve", gen |-> active, rev |-> rev]
  /\ UNCHANGED <<index, docs, ingest, points, lost, job, worker, faults, losses>>

\* Then, under the locks: no other writer of the collection, the snapshot as it
\* was, and the collection still empty.
ReserveRepair ==
  LET g == admin.gen
      granted == /\ ~ActiveRepairExists(g) /\ ~ActiveIngestionExists(g)
                 /\ SnapshotValid(g) /\ rev = admin.rev
                 /\ CollectionEmpty(g)
  IN /\ admin.pc = "reserve"
     /\ job' = IF granted THEN [job EXCEPT ![g] = RebuildJob(PointTotal, rev)] ELSE job
     /\ admin' = NoAdmin
     /\ UNCHANGED <<index, docs, ingest, points, lost, worker, faults, losses>>

\* reserve_manual_retry of a rebuild: the progress must still fit.
RetryRebuild(g) ==
  /\ job[g].status = "failed" /\ job[g].retryable
  /\ g = active
  /\ ~ActiveIngestionExists(g)
  /\ AnchoredTargets(g)
  /\ job[g].target = rev /\ job[g].total = PointTotal
  /\ IF job[g].stage = "indexing" THEN job[g].progress <= PointTotal
     ELSE job[g].progress = PointTotal
  /\ job' = [job EXCEPT ![g].status = "queued", ![g].attempts = 0, ![g].retryable = FALSE]
  /\ UNCHANGED <<index, docs, ingest, points, lost, worker, outside>>

-----------------------------------------------------------------------------
(* The rebuild_generation job *)

ClaimRebuild(g) ==
  /\ job[g].status = "queued" /\ worker[g].pc = "idle"
  /\ job' = [job EXCEPT ![g].status = "running", ![g].attempts = @ + 1]
  /\ worker' = [worker EXCEPT ![g].pc = "load"]
  /\ UNCHANGED <<index, docs, ingest, points, lost, outside>>

\* The job after an error: queued again while attempts are left.
Retryable(j) ==
  IF j.attempts < MaxAttempts THEN [j EXCEPT !.status = "queued"]
  ELSE [j EXCEPT !.status = "failed", !.retryable = TRUE]

\* Mutant of Permanent: the job is queued anew.
PermanentRequeued(j) == [j EXCEPT !.status = "queued", !.attempts = 0]

\* An error that is not retryable ends the job.
Permanent(j) == [j EXCEPT !.status = "failed", !.retryable = FALSE]

\* reset_rebuild_target, and the retryable error after it.
ResetTarget(j) ==
  Retryable([j EXCEPT !.target = rev, !.stage = "indexing", !.progress = 0, !.total = PointTotal])

\* _refresh_target under the locks: a generation that is not active any more,
\* or has a document without an index state, ends the job.
AfterDrift(g) == IF SnapshotValid(g) THEN ResetTarget(job[g]) ELSE Permanent(job[g])

Stop(g, j) ==
  /\ job' = [job EXCEPT ![g] = j]
  /\ worker' = [worker EXCEPT ![g] = NoWorker]
  /\ UNCHANGED <<index, docs, ingest, points, lost, outside>>

\* _expected_snapshot at the start of every stage.
LoadSnapshot(g) ==
  /\ worker[g].pc = "load"
  /\ IF SnapshotValid(g) /\ rev = job[g].target /\ job[g].total = PointTotal
     THEN /\ worker' = [worker EXCEPT ![g] =
               [pc |-> IF job[g].stage = "indexing" THEN "embed" ELSE "count",
                targets |-> Live, rev |-> rev]]
          /\ UNCHANGED <<index, docs, ingest, points, lost, job, outside>>
     ELSE Stop(g, IF rev # job[g].target THEN AfterDrift(g) ELSE Permanent(job[g]))

\* Targets are visited in the order of the documents' ids and their chunks in
\* the order of the manifest.
Precedes(b, c) == b[1] < c[1] \/ (b[1] = c[1] /\ b[2] < c[2])

\* The batch, of one chunk, that comes after the first n.
BatchAt(D, n) ==
  {c \in PointsOfAll(D) : Cardinality({b \in PointsOfAll(D) : Precedes(b, c)}) = n}

\* The next batch is read from the manifest, embedded and upserted; a job with
\* nothing left to write goes straight to the next stage.
EmbedBatch(g) ==
  /\ worker[g].pc = "embed"
  /\ points' = [points EXCEPT ![g] = @ \cup BatchAt(worker[g].targets, job[g].progress)]
  /\ worker' = [worker EXCEPT ![g].pc = "checkpoint"]
  /\ UNCHANGED <<index, docs, ingest, lost, job, outside>>

\* _assert_control_plane_current reads without locks inside the transaction of
\* the checkpoint.
ControlPlaneCurrent(g) == g = active /\ rev = worker[g].rev

Advance(g, stage, progress) ==
  IF ControlPlaneCurrent(g)
  THEN /\ job' = [job EXCEPT ![g].stage = stage, ![g].progress = progress]
       /\ worker' = [worker EXCEPT ![g].pc = IF stage = job[g].stage THEN "embed" ELSE "load"]
       /\ UNCHANGED <<index, docs, ingest, points, lost, outside>>
  ELSE Stop(g, AfterDrift(g))

Checkpoint(g) ==
  /\ worker[g].pc = "checkpoint"
  /\ LET progress == Min({job[g].progress + 1, job[g].total})
     IN Advance(g, IF progress = job[g].total THEN "validating" ELSE "indexing", progress)

\* Mutant of PointsValid: nothing is counted.
PointsUnchecked(g) == TRUE

\* _validate_qdrant: the count of the collection, then every version's points.
PointsValid(g) == points[g] = PointsOfAll(worker[g].targets)

CountPoints(g) ==
  /\ worker[g].pc = "count"
  /\ IF PointsValid(g)
     THEN /\ worker' = [worker EXCEPT ![g].pc =
               IF job[g].stage = "validating" THEN "complete" ELSE "finalize"]
          /\ UNCHANGED <<index, docs, ingest, points, lost, job, outside>>
     ELSE Stop(g, Permanent(job[g]))

AdvanceToComplete(g) ==
  /\ worker[g].pc = "complete"
  /\ Advance(g, "complete", job[g].progress)

LockedSnapshotCurrent(g) ==
  SnapshotValid(g) /\ rev = job[g].target /\ Live = worker[g].targets

\* _finalize_success under the locks of the knowledge base, the generation and
\* the job: the fingerprint of the targets is compared once more.
FinalizeSuccess(g) ==
  /\ worker[g].pc = "finalize"
  /\ IF LockedSnapshotCurrent(g)
     THEN /\ job' = [job EXCEPT ![g].status = "succeeded"]
          /\ worker' = [worker EXCEPT ![g] = NoWorker]
          /\ lost' = lost \ {g}
          /\ UNCHANGED <<index, docs, ingest, points, outside>>
     ELSE Stop(g, AfterDrift(g))

\* The worker dies, or the provider, the object store or Qdrant fails in a way
\* that may pass.
RebuildFault(g) ==
  /\ worker[g].pc # "idle" /\ faults < MaxFaults
  /\ job' = [job EXCEPT ![g] = Retryable(@)]
  /\ worker' = [worker EXCEPT ![g] = NoWorker]
  /\ faults' = faults + 1
  /\ UNCHANGED <<index, docs, ingest, points, lost, admin, losses>>

\* The configuration the generation was built with is not the one on record, or
\* is switched off, the manifest does not fit its checksum, or the provider
\* refuses.
RebuildRefused(g) ==
  /\ worker[g].pc \in {"load", "embed"} /\ faults < MaxFaults
  /\ job' = [job EXCEPT ![g] = Permanent(@)]
  /\ worker' = [worker EXCEPT ![g] = NoWorker]
  /\ faults' = faults + 1
  /\ UNCHANGED <<index, docs, ingest, points, lost, admin, losses>>

-----------------------------------------------------------------------------
Ingestion(d) ==
  \/ ClaimIngest(d) \/ UpsertDocument(d) \/ ActivateDocument(d) \/ FailIngestion(d)
  \/ AbandonIngestion(d)

Rebuild(g) ==
  \/ ClaimRebuild(g) \/ LoadSnapshot(g) \/ EmbedBatch(g) \/ Checkpoint(g)
  \/ CountPoints(g) \/ AdvanceToComplete(g) \/ FinalizeSuccess(g)

Next ==
  \/ \E d \in Docs : \/ ReserveUpload(d) \/ Ingestion(d) \/ ExhaustIngestion(d)
                     \/ RetryIngestion(d)
  \/ Cutover \/ StartRepair \/ ReserveRepair
  \/ \E g \in Generations : \/ Rebuild(g) \/ RebuildFault(g) \/ RebuildRefused(g)
                            \/ RetryRebuild(g) \/ LoseCollection(g)

\* Slots keep claiming and running jobs; users, administrators and faults owe
\* nothing.
Fairness ==
  /\ \A d \in Docs : WF_vars(Ingestion(d))
  /\ \A g \in Generations : WF_vars(Rebuild(g))

Spec == Init /\ [][Next]_vars
FairSpec == Spec /\ Fairness

-----------------------------------------------------------------------------
(* Properties *)

JobStatus == {"none", "queued", "running", "failed", "succeeded"}

RebuildJobRow ==
  [status : JobStatus, stage : {"none", "indexing", "validating", "complete"},
   progress : Nat, total : Nat, target : Nat, attempts : Nat, retryable : BOOLEAN]

RebuildWorker ==
  [pc : {"idle", "load", "embed", "checkpoint", "count", "complete", "finalize"},
   targets : SUBSET Docs, rev : Nat]

IngestJobRow ==
  [status : JobStatus, gen : Generations \cup {0}, pc : {"idle", "upsert", "commit"},
   retryable : BOOLEAN]

\* Values of the right kind, and a worker only where a job is running.
TypeOK ==
  /\ active \in Generations /\ rev \in 1..MaxRevision
  /\ docs \in [Docs -> {"absent", "processing", "active", "failed"}]
  /\ ingest \in [Docs -> IngestJobRow]
  /\ states \in [Generations -> SUBSET Docs]
  /\ points \in [Generations -> SUBSET PointsOfAll(Docs)]
  /\ lost \subseteq Generations
  /\ job \in [Generations -> RebuildJobRow]
  /\ worker \in [Generations -> RebuildWorker]
  /\ admin.pc \in {"idle", "reserve"} /\ admin.gen \in Generations \cup {0}
  /\ \A g \in Generations : worker[g].pc # "idle" => job[g].status = "running"

\* Every live document has its index state in the active generation, through
\* cutovers, activations and repairs (enrol_live_versions, _canonical_targets).
LiveDocumentsEnrolled == Live \subseteq states[active]

\* The live documents are all in the collection that searches read, unless it
\* was lost or its rebuild is not finished: no cutover leaves a generation that
\* looks healthy and finds nothing (_activate).
IndexComplete ==
  \/ PointsOfAll(Live) \subseteq points[active]
  \/ active \in lost
  \/ job[active].status \in Pending \cup {"failed"}

\* A rebuild and an ingestion never have the same collection: the counts that
\* a rebuild validates would not be its own.
RebuildExcludesIngestion == \A g \in Generations : ~(ActiveRepairExists(g) /\ ActiveIngestionExists(g))

\* Under a pending rebuild of the active generation the documents do not move:
\* the drift the pipeline is prepared for is only ever another cutover.
TargetsStable == ActiveRepairExists(active) => job[active].target = rev /\ job[active].total = PointTotal

\* A cutover, the ingestions around it and a rebuild leave each other's rows and
\* points alone, and the generation that serves knows and finds every live
\* document.
RebuildSafe ==
  /\ TypeOK
  /\ LiveDocumentsEnrolled
  /\ IndexComplete
  /\ RebuildExcludesIngestion
  /\ TargetsStable

\* A rebuild that is reported as succeeded has left in the collection every
\* point of every live document, whatever was lost, refused or retried on the
\* way.
RebuiltIsComplete ==
  [][ \A g \in Generations :
        job[g].status # "succeeded" /\ job'[g].status = "succeeded" =>
          g = active /\ PointsOfAll(Live) \subseteq points'[g] ]_vars

\* Every rebuild job ends.
RebuildEnds == \A g \in Generations : job[g].status \in Pending ~> job[g].status \notin Pending

================================================================================
