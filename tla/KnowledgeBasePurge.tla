------------------------ MODULE KnowledgeBasePurge -------------------------
(***************************************************************************)
(* Deleting a knowledge base: delete_knowledge_base marks the row and      *)
(* enqueues a purge_knowledge_base job, whose handler destroys the Qdrant  *)
(* collections, then the MinIO objects, then every row.  Uploads, document *)
(* ingestion and the creation of generations that were under way when the  *)
(* deletion began go on writing to MinIO and Qdrant; only their            *)
(* transactions are refused.  What they add after the purge has passed is  *)
(* left to the orphan reconcilers.  That of collections works under a      *)
(* durable claim, which outlives the rows and, once completed, is final;   *)
(* its leases and owners are GenerationLifecycle's subject.                *)
(*                                                                         *)
(* The handler holds no lock and is not fenced: a worker whose lease ran   *)
(* out may still be purging beside the one that took over.  The job row    *)
(* keeps what decides whether it runs again; module JobQueue has the rest. *)
(***************************************************************************)
EXTENDS Naturals, FiniteSets

CONSTANTS
  Workers,        \* run_once tasks
  Generations,    \* index generations, each with its collection
  Established,    \* those that were activated before
  MaxCreators,    \* requests with the same key that create a generation at once
  Documents,      \* documents, each with an object under the prefix
  MaxAttempts,    \* jobs.max_attempts
  Interruptions,  \* crashes and leases that run out under a live worker or
                  \* reconciler
  Outages         \* calls of Qdrant, MinIO or the database that fail

ASSUME BoundsAssumption ==
  MaxAttempts \in Nat \ {0} /\ MaxCreators \in Nat /\ Interruptions \in Nat /\ Outages \in Nat
ASSUME EstablishedAssumption == Established \subseteq Generations

VARIABLES
  kb,           \* knowledge_bases.status; "gone" once the row is deleted
  gens,         \* knowledge_base_index_generations rows
  failed,       \* those of them whose status is "failed"
  rows,         \* documents and document_versions rows
  collections,  \* per generation, its collection: created before or after
                \* the deletion began, or absent
  objects,      \* per document, its object, likewise
  claims,       \* index_generation_cleanup_claims per generation
  creating,     \* per generation, the requests that have reserved it and not
                \* ensured its collection yet
  writing,      \* documents being uploaded or ingested
  job,          \* the purge job
  workers,      \* what each worker holds
  spare,        \* the interruptions and outages still to come
  overtaken     \* history: generations whose collection a reconciler deleted
                \* while a request was about to ensure it

databaseRows == <<kb, gens, failed, rows>>
cleanup == <<claims, overtaken>>
outside == <<collections, objects>>
writers == <<creating, writing>>
purgeVars == <<databaseRows, cleanup, outside, writers, job, workers, spare>>

-----------------------------------------------------------------------------
Age == {"absent", "early", "late"}
Born == IF kb = "active" THEN "early" ELSE "late"

\* No claim; a claim held by a reconciler; the same with the collection deleted;
\* a claim with completed_at, for ever.
ClaimState == {"none", "held", "deleted", "completed"}

JobRow == [status : {"absent", "queued", "running", "succeeded", "failed"},
           epoch : Nat, live : BOOLEAN, attempt : 0 .. MaxAttempts]

Worker == [pc : {"idle", "start", "collections", "objects", "finish", "failing"},
           epoch : Nat,
           names : SUBSET Generations,   \* collections still to delete
           keys : SUBSET Documents]      \* listed objects still to delete

IdleWorker == [pc |-> "idle", epoch |-> 0, names |-> {}, keys |-> {}]

PurgeInit ==
  /\ kb = "active" /\ gens = Established /\ failed = {} /\ rows = {}
  /\ claims = [g \in Generations |-> "none"] /\ overtaken = {}
  /\ collections = [g \in Generations |-> IF g \in Established THEN "early" ELSE "absent"]
  /\ objects = [d \in Documents |-> "absent"]
  /\ creating = [g \in Generations |-> 0] /\ writing = {}
  /\ job = [status |-> "absent", epoch |-> 0, live |-> FALSE, attempt |-> 0]
  /\ workers = [w \in Workers |-> IdleWorker]
  /\ spare = [interruptions |-> Interruptions, outages |-> Outages]

-----------------------------------------------------------------------------
(* The writers a deletion finds under way.                                  *)

BeingCreated(g) == creating[g] > 0

\* _reserve of a generation, by a first request or a replay of its key: the row
\* is committed before the collection exists.  A claim turns both away, and a
\* request that succeeded is only answered again.  A generation that failed may be
\* tried again here; in the code an abandoned one may, one marked failed not.
ReserveGeneration(g) ==
  /\ kb = "active" /\ claims[g] = "none" /\ g \notin Established
  /\ creating[g] < MaxCreators
  /\ gens' = gens \cup {g} /\ creating' = [creating EXCEPT ![g] = @ + 1]
  /\ UNCHANGED <<kb, failed, rows, cleanup, outside, writing, job, workers, spare>>

\* ensure_collection, in no transaction; what follows adds nothing here.
EnsureCollection(g) ==
  /\ BeingCreated(g)
  /\ creating' = [creating EXCEPT ![g] = @ - 1]
  /\ collections' = [collections EXCEPT ![g] = IF @ = "absent" THEN Born ELSE @]
  /\ UNCHANGED <<databaseRows, cleanup, objects, writing, job, workers, spare>>

\* The creation fails or dies before that.
CreationEnds(g) ==
  /\ BeingCreated(g)
  /\ creating' = [creating EXCEPT ![g] = @ - 1]
  /\ UNCHANGED <<databaseRows, cleanup, outside, writing, job, workers, spare>>

\* _mark_failed, or an operator abandons the generation; not one that serves.
GenerationFails(g) ==
  /\ g \in gens \ (failed \cup Established)
  /\ failed' = failed \cup {g}
  /\ UNCHANGED <<kb, gens, rows, cleanup, outside, writers, job, workers, spare>>

UploadStarts(d) ==
  /\ kb = "active" /\ d \notin writing
  /\ writing' = writing \cup {d}
  /\ UNCHANGED <<databaseRows, cleanup, outside, creating, job, workers, spare>>

\* publish_temp of an upload or of an ingestion stage.
PublishObject(d) ==
  /\ d \in writing /\ objects[d] = "absent"
  /\ objects' = [objects EXCEPT ![d] = Born]
  /\ UNCHANGED <<databaseRows, cleanup, collections, writers, job, workers, spare>>

\* SqlAlchemyUploadRepository.reserve, under the row lock.
ReserveDocument(d) ==
  /\ d \in writing /\ d \notin rows /\ objects[d] # "absent"
  /\ kb = "active"
  /\ rows' = rows \cup {d}
  /\ UNCHANGED <<kb, gens, failed, cleanup, outside, writers, job, workers, spare>>

WritingEnds(d) ==
  /\ d \in writing
  /\ writing' = writing \ {d}
  /\ UNCHANGED <<databaseRows, cleanup, outside, creating, job, workers, spare>>

-----------------------------------------------------------------------------
(* The deletion.                                                            *)

\* delete_knowledge_base; a second call finds the status and enqueues nothing.
DeleteKnowledgeBase ==
  /\ kb = "active" /\ kb' = "deleting"
  /\ job' = [job EXCEPT !.status = "queued"]
  /\ UNCHANGED <<gens, failed, rows, cleanup, outside, writers, workers, spare>>

Put(w, v) == workers' = [workers EXCEPT ![w] = v]

\* Mutant of Claimable: an expired lease is not taken over.
ClaimableQueued == job.status = "queued"

Claimable == job.status = "queued" \/ (job.status = "running" /\ ~job.live)
Fence(w) == job.status = "running" /\ job.live /\ job.epoch = workers[w].epoch

\* claim_next.
Claim(w) ==
  /\ workers[w].pc = "idle" /\ Claimable /\ job.attempt < MaxAttempts
  /\ job' = [status |-> "running", epoch |-> job.epoch + 1, live |-> TRUE,
             attempt |-> job.attempt + 1]
  /\ Put(w, [IdleWorker EXCEPT !.pc = "start", !.epoch = job.epoch + 1])
  /\ UNCHANGED <<databaseRows, cleanup, outside, writers, spare>>

\* finalize_exhausted.
Exhaust(w) ==
  /\ workers[w].pc = "idle" /\ Claimable /\ job.attempt = MaxAttempts
  /\ job' = [job EXCEPT !.status = "failed", !.live = FALSE]
  /\ UNCHANGED <<databaseRows, cleanup, outside, writers, workers, spare>>

\* _collections: a knowledge base that is gone leaves nothing to do.
ReadCollections(w) ==
  /\ workers[w].pc = "start"
  /\ Put(w, IF kb = "deleting"
            THEN [workers[w] EXCEPT !.pc = "collections", !.names = gens]
            ELSE [workers[w] EXCEPT !.pc = "finish"])
  /\ UNCHANGED <<databaseRows, cleanup, outside, writers, job, spare>>

\* delete_collection; one that does not exist is no error.
DeleteCollection(w, g) ==
  /\ workers[w].pc = "collections" /\ g \in workers[w].names
  /\ collections' = [collections EXCEPT ![g] = "absent"]
  /\ Put(w, [workers[w] EXCEPT !.names = @ \ {g}])
  /\ UNCHANGED <<databaseRows, cleanup, objects, writers, job, spare>>

\* list_older_than of _delete_objects, when no collection is left.
ListObjects(w) ==
  /\ workers[w].pc = "collections" /\ workers[w].names = {}
  /\ Put(w, [workers[w] EXCEPT
               !.pc = "objects", !.keys = {d \in Documents : objects[d] # "absent"}])
  /\ UNCHANGED <<databaseRows, cleanup, outside, writers, job, spare>>

\* delete_best_effort of a listed key: an object that stays is not noticed.
DeleteObject(w, d) ==
  /\ workers[w].pc = "objects" /\ d \in workers[w].keys
  /\ \/ objects' = [objects EXCEPT ![d] = "absent"] /\ UNCHANGED spare
     \/ /\ spare.outages > 0 /\ spare' = [spare EXCEPT !.outages = @ - 1]
        /\ UNCHANGED objects
  /\ Put(w, [workers[w] EXCEPT !.keys = @ \ {d}])
  /\ UNCHANGED <<databaseRows, cleanup, collections, writers, job>>

\* _delete_rows and _delete_children, in one transaction.
DeleteRows(w) ==
  /\ workers[w].pc = "objects" /\ workers[w].keys = {}
  /\ kb' = "gone" /\ gens' = {} /\ failed' = {} /\ rows' = {}
  /\ Put(w, [workers[w] EXCEPT !.pc = "finish"])
  /\ UNCHANGED <<cleanup, outside, writers, job, spare>>

\* mark_succeeded.
Finish(w) ==
  /\ workers[w].pc = "finish"
  /\ job' = IF Fence(w) THEN [job EXCEPT !.status = "succeeded", !.live = FALSE]
            ELSE job
  /\ Put(w, IdleWorker)
  /\ UNCHANGED <<databaseRows, cleanup, outside, writers, spare>>

\* Mutant of CallFails: a failure in Qdrant is passed over.
CallFailsIgnored(w) ==
  /\ workers[w].pc = "collections" /\ spare.outages > 0
  /\ spare' = [spare EXCEPT !.outages = @ - 1]
  /\ Put(w, [workers[w] EXCEPT !.names = {}])
  /\ UNCHANGED <<databaseRows, cleanup, outside, writers, job>>

\* Qdrant, the object listing or the database raises; the handler translates
\* nothing.
CallFails(w) ==
  /\ workers[w].pc \in {"start", "collections", "objects"} /\ spare.outages > 0
  /\ spare' = [spare EXCEPT !.outages = @ - 1]
  /\ Put(w, [workers[w] EXCEPT !.pc = "failing"])
  /\ UNCHANGED <<databaseRows, cleanup, outside, writers, job>>

\* run_once records JOB_HANDLER_FAILED, which is not retried; a job without a
\* knowledge base is hidden from the manual retry.
RecordFailure(w) ==
  /\ workers[w].pc = "failing"
  /\ job' = IF Fence(w) THEN [job EXCEPT !.status = "failed", !.live = FALSE] ELSE job
  /\ Put(w, IdleWorker)
  /\ UNCHANGED <<databaseRows, cleanup, outside, writers, spare>>

-----------------------------------------------------------------------------
Interrupt == spare.interruptions > 0
             /\ spare' = [spare EXCEPT !.interruptions = @ - 1]

Crash(w) ==
  /\ workers[w].pc # "idle" /\ Interrupt
  /\ Put(w, IdleWorker)
  /\ UNCHANGED <<databaseRows, cleanup, outside, writers, job>>

\* A lease runs out, of a worker that is slow or one that is gone.
LeaseExpires ==
  /\ job.status = "running" /\ job.live
  /\ IF \E w \in Workers : workers[w].pc # "idle" /\ Fence(w)
     THEN Interrupt ELSE UNCHANGED spare
  /\ job' = [job EXCEPT !.live = FALSE]
  /\ UNCHANGED <<databaseRows, cleanup, outside, writers, workers>>

\* Mutant of Orphan: a generation that has no row is taken for one not created yet.
OrphanFailedOnly(g) == g \in failed

\* collection_statuses knows no row of that name, or a failed one.
Orphan(g) == g \notin gens \/ g \in failed

\* _claim_orphan_cleanup of a listed collection.  Nobody claims a second time
\* what was completed.
ClaimCleanup(g) ==
  /\ Orphan(g) /\ collections[g] # "absent" /\ claims[g] = "none"
  /\ claims' = [claims EXCEPT ![g] = "held"]
  /\ UNCHANGED <<databaseRows, overtaken, outside, writers, job, workers, spare>>

\* _authorize_orphan_cleanup and delete_collection.
DeleteOrphan(g) ==
  /\ claims[g] = "held" /\ Orphan(g)
  /\ collections' = [collections EXCEPT ![g] = "absent"]
  /\ claims' = [claims EXCEPT ![g] = "deleted"]
  /\ overtaken' = IF BeingCreated(g) THEN overtaken \cup {g} ELSE overtaken
  /\ UNCHANGED <<databaseRows, objects, writers, job, workers, spare>>

\* The reconciler is gone before it completes, and another takes the claim over
\* when the lease has run out.
TakeOverCleanup(g) ==
  /\ claims[g] = "deleted" /\ Orphan(g) /\ Interrupt
  /\ claims' = [claims EXCEPT ![g] = "held"]
  /\ UNCHANGED <<databaseRows, overtaken, outside, writers, job, workers>>

\* _complete_orphan_cleanup.
CompleteCleanup(g) ==
  /\ claims[g] = "deleted"
  /\ claims' = [claims EXCEPT ![g] = "completed"]
  /\ UNCHANGED <<databaseRows, overtaken, outside, writers, job, workers, spare>>

\* reconcile_orphan_collections.
ReconcileCollection(g) == ClaimCleanup(g) \/ DeleteOrphan(g) \/ CompleteCleanup(g)

\* reconcile_orphan_objects.
ReconcileObject(d) ==
  /\ objects[d] # "absent" /\ d \notin rows
  /\ objects' = [objects EXCEPT ![d] = "absent"]
  /\ UNCHANGED <<databaseRows, cleanup, collections, writers, job, workers, spare>>

-----------------------------------------------------------------------------
PurgeStep(w) ==
  \/ ReadCollections(w) \/ ListObjects(w) \/ DeleteRows(w) \/ Finish(w)
  \/ RecordFailure(w)
  \/ \E g \in Generations : DeleteCollection(w, g)
  \/ \E d \in Documents : DeleteObject(w, d)

PurgeNext ==
  \/ DeleteKnowledgeBase \/ LeaseExpires
  \/ \E w \in Workers :
       Claim(w) \/ Exhaust(w) \/ PurgeStep(w) \/ CallFails(w) \/ Crash(w)
  \/ \E g \in Generations :
       \/ ReserveGeneration(g) \/ EnsureCollection(g) \/ CreationEnds(g)
       \/ GenerationFails(g) \/ ReconcileCollection(g) \/ TakeOverCleanup(g)
  \/ \E d \in Documents :
       \/ UploadStarts(d) \/ PublishObject(d) \/ ReserveDocument(d)
       \/ WritingEnds(d) \/ ReconcileObject(d)

\* Workers poll and run, a lease nobody renews runs out, requests end and the
\* reconcilers sweep.
Fairness ==
  /\ \A w \in Workers : WF_purgeVars(Claim(w) \/ Exhaust(w) \/ PurgeStep(w))
  /\ WF_purgeVars(LeaseExpires /\ UNCHANGED spare)
  /\ \A g \in Generations : WF_purgeVars(CreationEnds(g)) /\ WF_purgeVars(ReconcileCollection(g))
  /\ \A d \in Documents : WF_purgeVars(WritingEnds(d)) /\ WF_purgeVars(ReconcileObject(d))

PurgeSpec == PurgeInit /\ [][PurgeNext]_purgeVars
FairSpec == PurgeSpec /\ Fairness

-----------------------------------------------------------------------------
(* Properties.                                                              *)

PurgeTypeOK ==
  /\ kb \in {"active", "deleting", "gone"}
  /\ gens \subseteq Generations /\ failed \subseteq gens /\ rows \subseteq Documents
  /\ claims \in [Generations -> ClaimState] /\ overtaken \subseteq Generations
  /\ collections \in [Generations -> Age] /\ objects \in [Documents -> Age]
  /\ creating \in [Generations -> 0 .. MaxCreators] /\ writing \subseteq Documents
  /\ job \in JobRow
  /\ workers \in [Workers -> Worker]
  /\ spare \in [interruptions : 0 .. Interruptions, outages : 0 .. Outages]

\* The rows, the only record of what is to be destroyed, go last: once they are
\* gone no collection from before the deletion is left, whichever workers
\* crashed, failed or purged side by side, and an object is left only when its
\* own delete failed.
VectorsGoFirst ==
  kb = "gone" =>
    /\ \A g \in Generations : collections[g] # "early"
    /\ spare.outages = Outages => \A d \in Documents : objects[d] # "early"

\* A collection is out of every reconciler's reach, by a completed claim, only
\* when a request that was already under way made it once more.
OnlyOvertakenEscape ==
  \A g \in Generations :
    claims[g] = "completed" /\ collections[g] # "absent" => g \in overtaken

\* The purge keeps its order, and its rows their types, whatever is interrupted,
\* and what reconcilers finished with comes back only through an old request.
PurgeInOrder == PurgeTypeOK /\ VectorsGoFirst /\ OnlyOvertakenEscape

\* Every deletion settles: the rows go, or the failure of the job is on record,
\* and that only because a call failed or every attempt was interrupted.
DeletionSettles ==
  kb = "deleting" ~>
    \/ kb = "gone"
    \/ /\ job.status = "failed"
       /\ spare.outages < Outages \/ Interruptions - spare.interruptions >= MaxAttempts

\* What writers add to a deleted knowledge base late is collected, with one
\* exception: a collection that a request with the same key ensures again, after
\* a reconciler deleted it under that request's feet.  The completed claim keeps
\* every reconciler away from it (claim_collection_cleanup), and the rows that
\* named it are gone.
NothingRemains ==
  kb = "gone" ~>
    [](/\ \A g \in Generations :
            BeingCreated(g) \/ collections[g] = "absent" \/ g \in overtaken
       /\ \A d \in Documents : d \in writing \/ objects[d] = "absent")
=============================================================================
