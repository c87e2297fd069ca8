------------------------- MODULE DocumentIngestion -------------------------
(***************************************************************************)
(* The ingestion pipeline of one document version: the five stages parse,  *)
(* chunk, embed_index, validate and activate, run by workers that may lose *)
(* their lease, fail, crash and resume, next to the orphan object          *)
(* reconciler and the manual retry API.                                    *)
(*                                                                         *)
(* A stage reads its input in one transaction, then works on MinIO, the    *)
(* embedding provider and Qdrant without any lock, and commits its facts   *)
(* together with the job's checkpoint in a last, fenced transaction.  Only *)
(* that transaction is protected: whatever a worker wrote outside          *)
(* PostgreSQL may be repeated, may come from a worker whose lease is gone, *)
(* and may be found unreferenced by the reconciler.                        *)
(*                                                                         *)
(* The job rows keep what the pipeline reads of them; module JobQueue has  *)
(* the queue itself, with heartbeats, cancellation and the compare-and-set *)
(* on an exhausted job, which is one step here.                            *)
(***************************************************************************)
EXTENDS Naturals, FiniteSets

CONSTANTS
  Workers,      \* run_once tasks
  JobIds,       \* 1 .. n: the upload's job and its manual retries
  MaxAttempts,  \* jobs.max_attempts
  ChunkCount,   \* chunks the document is cut into
  BatchSize     \* chunks embedded and upserted at once

ASSUME JobIdsAssumption == JobIds \subseteq Nat \ {0} /\ 1 \in JobIds
ASSUME SizesAssumption ==
  /\ MaxAttempts \in Nat \ {0}
  /\ ChunkCount \in Nat \ {0} /\ BatchSize \in Nat \ {0}

VARIABLES
  kb,        \* the knowledge base is active on this version's generation
  doc,       \* documents.status; the version is pending until it is active
  version,   \* the document_versions row
  state,     \* the document_index_states row of the generation
  jobs,      \* the ingest_document jobs of this version
  objects,   \* objects under the version's canonical keys in MinIO
  copies,    \* per artifact, the copy call a timed out publish left behind, and
             \* whether the cleanup of such a copy has deleted it (history)
  points,    \* chunk indexes of the version's points in Qdrant
  workers    \* what each worker holds

domain == <<kb, doc, version, state>>
external == <<objects, copies, points>>
vars == <<kb, doc, version, state, jobs, objects, copies, points, workers>>

-----------------------------------------------------------------------------
Chunks == 0 .. ChunkCount - 1
None == ChunkCount + 1           \* NULL in a count column
Stages == {"parse", "chunk", "embed_index", "validate", "activate"}
Artifacts == {"parsed", "manifest"}
Unsettled == {"queued", "running", "retry_wait"}

VersionRow == [status : {"uploaded", "parsing", "chunking", "embedding",
                         "indexing", "ready", "failed"},
               parsed : BOOLEAN,      \* parsed_object_key IS NOT NULL
               manifest : BOOLEAN]    \* manifest key and chunk_count set

StateRow == [status : {"queued", "embedding", "indexing", "validated", "failed"},
             actual : 0 .. None,      \* actual_point_count
             next : 0 .. ChunkCount,  \* next_chunk_index
             validated : BOOLEAN]     \* validated_at IS NOT NULL

JobRow == [status : Unsettled \cup {"absent", "succeeded", "failed"},
           epoch : Nat, live : BOOLEAN, attempt : 0 .. MaxAttempts,
           stage : Stages, progress : 0 .. ChunkCount, retryable : BOOLEAN,
           error : {"none", "stage", "exhausted", "handler"}]

\* What a stage's load returned, as far as a later commit compares it.
Loaded == [version : VersionRow, state : StateRow]

Pc == {"idle", "load", "started", "publish", "commit", "upsert", "checkpoint",
       "count", "commitCount", "verify", "commitValidated", "activating",
       "failing", "raising"}

Worker == [pc : Pc, job : JobIds, epoch : Nat, attempt : 0 .. MaxAttempts,
           stage : Stages,
           exp : Loaded,              \* the stage input read by the load
           batch : 0 .. ChunkCount,   \* end of the batch in hand
           counted : 0 .. None,       \* what Qdrant counted
           retryable : BOOLEAN, cause : {"none", "external", "conflict"}]

Absent == [status |-> "absent", epoch |-> 0, live |-> FALSE, attempt |-> 0,
           stage |-> "parse", progress |-> 0, retryable |-> FALSE, error |-> "none"]

\* The rows the upload reservation inserts.
NewVersion == [status |-> "uploaded", parsed |-> FALSE, manifest |-> FALSE]
NewState == [status |-> "queued", actual |-> None, next |-> 0, validated |-> FALSE]
NewJob == [Absent EXCEPT !.status = "queued", !.retryable = TRUE]

Idle == [pc |-> "idle", job |-> 1, epoch |-> 0, attempt |-> 0,
         stage |-> "parse",
         exp |-> [version |-> NewVersion, state |-> NewState],
         batch |-> 0, counted |-> None, retryable |-> FALSE, cause |-> "none"]

Init ==
  /\ kb = "active"
  /\ doc = "processing"
  /\ version = NewVersion
  /\ state = NewState
  /\ jobs = [j \in JobIds |-> IF j = 1 THEN NewJob ELSE Absent]
  /\ objects = {"source"}
  /\ copies = [o \in Artifacts |-> "none"]
  /\ points = {}
  /\ workers = [w \in Workers |-> Idle]

-----------------------------------------------------------------------------
Job(w) == jobs[workers[w].job]
Put(w, r) == workers' = [workers EXCEPT ![w] = r]
Goto(w, pc) == Put(w, [workers[w] EXCEPT !.pc = pc])
SetJob(w, r) == jobs' = [jobs EXCEPT ![workers[w].job] = r]

\* The lease fence with the stage, of advance_stage and its siblings, which
\* commit_activation and commit_terminal_failure spell out.
StageFence(w) ==
  /\ Job(w).status = "running" /\ Job(w).live
  /\ Job(w).epoch = workers[w].epoch /\ Job(w).stage = workers[w].stage

\* Worker w under its lease at a stage, with nothing read yet.
AtStage(w, stage) ==
  [Idle EXCEPT !.job = workers[w].job, !.epoch = workers[w].epoch,
               !.attempt = workers[w].attempt, !.stage = stage]

\* The error leaves _dispatch_stage: the handler finalises the failure itself
\* when it is permanent or the last attempt, and else leaves it to the runner.
Raise(w, retryable, cause) ==
  Put(w, [AtStage(w, workers[w].stage) EXCEPT
            !.pc = IF retryable /\ workers[w].attempt < MaxAttempts
                   THEN "raising" ELSE "failing",
            !.retryable = retryable, !.cause = cause])

\* A ValueError: INGESTION_STAGE_CONFLICT.
Conflict(w) == Raise(w, FALSE, "conflict")

\* A fenced stage transaction: LostLeaseError ends run_once, a domain conflict
\* rolls back, and otherwise Facts commits with the job row r and the worker
\* goes on as v.
Commit(w, valid, Facts, r, v) ==
  IF StageFence(w)
  THEN IF valid
       THEN Facts /\ SetJob(w, r) /\ Put(w, v)
       ELSE Conflict(w) /\ UNCHANGED <<domain, jobs>>
  ELSE Put(w, Idle) /\ UNCHANGED <<domain, jobs>>

\* advance_stage: the next stage's handle call starts under the same lease.
Advanced(w, stage, progress) == [Job(w) EXCEPT !.stage = stage, !.progress = progress]
NextStage(w, stage) == [AtStage(w, stage) EXCEPT !.pc = "load"]

\* _lock_stage_graph: the whole graph is locked and still being ingested.
GraphValid == kb = "active" /\ doc = "processing"

-----------------------------------------------------------------------------
(* Claiming.                                                               *)

\* Mutant of Claimable: an expired lease is not taken over.
ClaimableWaiting(j) == jobs[j].status \in {"queued", "retry_wait"}

\* The eligibility of claim_next.
Claimable(j) ==
  \/ jobs[j].status \in {"queued", "retry_wait"}
  \/ jobs[j].status = "running" /\ ~jobs[j].live

Claim(w, j) ==
  /\ workers[w].pc = "idle" /\ Claimable(j) /\ jobs[j].attempt < MaxAttempts
  /\ jobs' = [jobs EXCEPT ![j].status = "running", ![j].live = TRUE,
                          ![j].epoch = @ + 1, ![j].attempt = @ + 1,
                          ![j].error = "none"]
  /\ Put(w, [Idle EXCEPT !.pc = "load", !.job = j, !.epoch = jobs[j].epoch + 1,
                         !.attempt = jobs[j].attempt + 1, !.stage = jobs[j].stage])
  /\ UNCHANGED <<domain, external>>

\* _apply_terminal_failure on the domain rows.  A version that is current is
\* never touched.
ApplyTerminalFailure ==
  IF doc = "active"
  THEN UNCHANGED <<doc, version, state>>
  ELSE /\ doc' = "failed"
       /\ version' = [version EXCEPT !.status = "failed"]
       /\ state' = [state EXCEPT !.status = "failed"]

Terminated(r, retryable, error) ==
  [r EXCEPT !.status = "failed", !.live = FALSE, !.retryable = retryable,
            !.error = error]

\* commit_exhausted_failure: job and document fail in one transaction.
ExhaustedFailure(w, j) ==
  /\ workers[w].pc = "idle" /\ Claimable(j) /\ jobs[j].attempt = MaxAttempts
  /\ jobs' = [jobs EXCEPT ![j] = Terminated(jobs[j], FALSE, "exhausted")]
  /\ ApplyTerminalFailure
  /\ UNCHANGED <<kb, external, workers>>

-----------------------------------------------------------------------------
(* Loading a stage's input: a transaction of its own, without locks.        *)

\* load_embed_index_stage, which also serves validate.
Indexable ==
  /\ kb = "active" /\ version.parsed /\ version.manifest
  /\ version.status \in {"embedding", "indexing"}
  /\ state.status \in {"embedding", "indexing"}

StageReady(stage) ==
  CASE stage = "parse"       -> version.status \in {"uploaded", "parsing"}
    [] stage = "chunk"       -> version.parsed /\ version.status = "chunking"
    [] stage = "embed_index" -> Indexable
    [] stage = "validate"    -> /\ Indexable /\ version.status = "indexing"
                                /\ state.status = "indexing"
                                /\ state.next = ChunkCount
    [] stage = "activate"    -> version.manifest /\ state.actual # None

FirstStep(stage) ==
  CASE stage = "parse"       -> IF version.status = "uploaded"
                                THEN "started" ELSE "publish"
    [] stage = "chunk"       -> "publish"
    [] stage = "embed_index" -> IF state.next = ChunkCount
                                THEN "checkpoint" ELSE "upsert"
    [] stage = "validate"    -> "count"
    [] stage = "activate"    -> "activating"

Load(w) ==
  /\ workers[w].pc = "load"
  /\ IF StageReady(workers[w].stage)
     THEN Put(w, [workers[w] EXCEPT
                    !.pc = FirstStep(workers[w].stage),
                    !.exp = IF workers[w].stage \in {"parse", "embed_index"}
                            THEN [version |-> version, state |-> state] ELSE @,
                    !.batch = IF workers[w].stage = "embed_index" THEN state.next ELSE @])
     ELSE Conflict(w)
  /\ UNCHANGED <<domain, jobs, external>>

-----------------------------------------------------------------------------
(* parse and chunk: publish an object, then reference it.                   *)

\* commit_parse_started.
CommitParseStarted(w) ==
  /\ workers[w].pc = "started"
  /\ Commit(w,
            /\ GraphValid /\ version.status \in {"uploaded", "parsing"}
            /\ ~version.parsed,
            version' = [version EXCEPT !.status = "parsing"]
              /\ UNCHANGED <<kb, doc, state>>,
            Job(w),
            [workers[w] EXCEPT !.pc = "publish",
                               !.exp.version.status = "parsing"])
  /\ UNCHANGED external

InputOf(stage) == IF stage = "parse" THEN "source" ELSE "parsed"
OutputOf(stage) == IF stage = "parse" THEN "parsed" ELSE "manifest"

\* The input is read and transformed, written under a temporary key of this
\* lease and published under the canonical key; the output is deterministic,
\* so an object already there is found equal.
PublishArtifact(w) ==
  /\ workers[w].pc = "publish" /\ InputOf(workers[w].stage) \in objects
  /\ objects' = objects \cup {OutputOf(workers[w].stage)}
  /\ Goto(w, "commit")
  /\ UNCHANGED <<domain, jobs, copies, points>>

\* publish_temp is left while its copy runs: at operation_timeout_seconds with
\* the retryable OBJECT_STORE_UNAVAILABLE, or cancelled because the lease was
\* lost.  The SDK thread goes on and _schedule_eventual_cleanup waits for it.
\* One such copy of each artifact at a time is modelled, and none after a late
\* cleanup.
CopyDetached(w) ==
  LET o == OutputOf(workers[w].stage) IN
  /\ workers[w].pc = "publish" /\ InputOf(workers[w].stage) \in objects
  /\ o \notin objects /\ copies[o] = "none"
  /\ copies' = [copies EXCEPT ![o] = "copying"]
  /\ Raise(w, TRUE, "external") \/ Put(w, Idle)
  /\ UNCHANGED <<domain, jobs, objects, points>>

\* The copy ends late; with If-None-Match it fails on an object that exists.
LateCopy(o) ==
  /\ copies[o] = "copying"
  /\ objects' = objects \cup {o}
  /\ copies' = [copies EXCEPT ![o] = IF o \in objects THEN "none" ELSE "copied"]
  /\ UNCHANGED <<domain, jobs, points, workers>>

\* finalize of _schedule_eventual_cleanup: a late success is deleted.
LateCleanup(o) ==
  /\ copies[o] = "copied"
  /\ objects' = objects \ {o}
  /\ copies' = [copies EXCEPT ![o] = "cleaned"]
  /\ UNCHANGED <<domain, jobs, points, workers>>

\* The late copy fails, or the process that waits for it ends.
CopyForgotten(o) ==
  /\ copies[o] \in {"copying", "copied"}
  /\ copies' = [copies EXCEPT ![o] = "none"]
  /\ UNCHANGED <<domain, jobs, objects, points, workers>>

\* commit_parse_stage.
CommitParseStage(w) ==
  /\ workers[w].pc = "commit" /\ workers[w].stage = "parse"
  /\ Commit(w,
            /\ GraphValid /\ version.status = "parsing"
            /\ workers[w].exp.version.status = "parsing",
            version' = [version EXCEPT !.parsed = TRUE, !.status = "chunking"]
              /\ UNCHANGED <<kb, doc, state>>,
            Advanced(w, "chunk", 0), NextStage(w, "chunk"))
  /\ UNCHANGED external

\* commit_chunk_stage.
CommitChunkStage(w) ==
  /\ workers[w].pc = "commit" /\ workers[w].stage = "chunk"
  /\ Commit(w,
            /\ GraphValid /\ version.status = "chunking" /\ version.parsed
            /\ state = NewState,
            /\ version' = [version EXCEPT !.manifest = TRUE, !.status = "embedding"]
            /\ state' = [state EXCEPT !.status = "embedding", !.next = 0]
            /\ UNCHANGED <<kb, doc>>,
            Advanced(w, "embed_index", 0), NextStage(w, "embed_index"))
  /\ UNCHANGED external

-----------------------------------------------------------------------------
(* embed_index: upsert a batch, then check it in.                           *)

\* Where the batch that starts at n ends.
BatchEnd(n) == IF n + BatchSize < ChunkCount THEN n + BatchSize ELSE ChunkCount

\* The batch after exp.next is embedded and its points upserted.  Point ids
\* are derived from version, index and chunk hash: an upsert is idempotent.
UpsertBatch(w) ==
  /\ workers[w].pc = "upsert" /\ "manifest" \in objects
  /\ points' = points \cup (workers[w].batch .. BatchEnd(workers[w].batch) - 1)
  /\ Put(w, [workers[w] EXCEPT !.pc = "checkpoint", !.batch = BatchEnd(@)])
  /\ UNCHANGED <<domain, jobs, objects, copies>>

\* The facts commit_embed_index_batch stores; the job's progress with them.
CheckpointState(w) == [state EXCEPT !.status = "indexing", !.next = workers[w].batch]

\* Mutant of CheckpointJob: the progress is only stored by the last batch.
CheckpointJobLate(w) == Job(w)

\* commit_stage_checkpoint.
CheckpointJob(w) == [Job(w) EXCEPT !.progress = workers[w].batch]

\* commit_embed_index_batch, by advance_stage for the last batch and by
\* commit_stage_checkpoint for the others; the worker goes on from there.
CommitEmbedProgress(w) ==
  LET final == workers[w].batch = ChunkCount
      e == workers[w].exp
      indexing == [version |-> [version EXCEPT !.status = "indexing"],
                   state |-> CheckpointState(w)] IN
  /\ workers[w].pc = "checkpoint"
  /\ Commit(w,
            /\ GraphValid
            /\ version = e.version
            /\ state.status = e.state.status /\ state.next = e.state.next
            /\ \/ state.next < workers[w].batch
               \/ state.next = ChunkCount,
            /\ version' = indexing.version
            /\ state' = indexing.state
            /\ UNCHANGED <<kb, doc>>,
            IF final THEN Advanced(w, "validate", ChunkCount) ELSE CheckpointJob(w),
            IF final THEN NextStage(w, "validate")
            ELSE [workers[w] EXCEPT !.pc = "upsert", !.exp = indexing])
  /\ UNCHANGED external

-----------------------------------------------------------------------------
(* validate and activate.                                                   *)

CountPoints(w) ==
  /\ workers[w].pc = "count"
  /\ Put(w, [workers[w] EXCEPT !.pc = "commitCount", !.counted = Cardinality(points)])
  /\ UNCHANGED <<domain, jobs, external>>

\* _validate_indexed_snapshot.
IndexedSnapshotValid ==
  /\ GraphValid /\ version.manifest /\ version.status = "indexing"
  /\ state.status = "indexing" /\ state.next = ChunkCount /\ ~state.validated

\* commit_validate_count; a wrong count is stored and then fails for good.
CommitValidateCount(w) ==
  /\ workers[w].pc = "commitCount"
  /\ Commit(w,
            IndexedSnapshotValid /\ state.actual \in {None, workers[w].counted},
            state' = [state EXCEPT !.actual = workers[w].counted]
              /\ UNCHANGED <<kb, doc, version>>,
            Job(w),
            IF workers[w].counted = ChunkCount
            THEN [workers[w] EXCEPT !.pc = "verify"]
            ELSE [AtStage(w, "validate") EXCEPT !.pc = "failing", !.cause = "external"])
  /\ UNCHANGED external

\* Every chunk of the manifest is retrieved and compared.
VerifyPoints(w) ==
  /\ workers[w].pc = "verify" /\ "manifest" \in objects
  /\ IF points = Chunks THEN Goto(w, "commitValidated") ELSE Raise(w, FALSE, "external")
  /\ UNCHANGED <<domain, jobs, external>>

\* commit_validate_stage.
CommitValidateStage(w) ==
  /\ workers[w].pc = "commitValidated"
  /\ Commit(w,
            /\ IndexedSnapshotValid /\ workers[w].counted = ChunkCount
            /\ state.actual = workers[w].counted,
            state' = [state EXCEPT !.status = "validated", !.validated = TRUE]
              /\ UNCHANGED <<kb, doc, version>>,
            Advanced(w, "activate", ChunkCount), NextStage(w, "activate"))
  /\ UNCHANGED external

\* commit_activation: version, document and job turn in one transaction; a
\* mismatch is DOCUMENT_ACTIVATION_CONFLICT.
CommitActivation(w) ==
  /\ workers[w].pc = "activating"
  /\ Commit(w,
            /\ GraphValid /\ version.status = "indexing" /\ version.manifest
            /\ state.status = "validated" /\ state.validated
            /\ state.actual = ChunkCount /\ state.next = ChunkCount,
            /\ doc' = "active"
            /\ version' = [version EXCEPT !.status = "ready"]
            /\ UNCHANGED <<kb, state>>,
            [Job(w) EXCEPT !.status = "succeeded", !.live = FALSE,
                           !.retryable = FALSE],
            Idle)
  /\ UNCHANGED external

-----------------------------------------------------------------------------
(* Failures.                                                                *)

\* MinIO, the provider or Qdrant fails, or the document is refused.
StageError(w, retryable) ==
  /\ workers[w].pc \in {"publish", "upsert", "count", "verify"}
  /\ Raise(w, retryable, "external")
  /\ UNCHANGED <<domain, jobs, external>>

\* The object to be read is gone: OBJECT_VERIFICATION_FAILED is permanent.
ObjectMissing(w) ==
  /\ \/ workers[w].pc = "publish" /\ InputOf(workers[w].stage) \notin objects
     \/ workers[w].pc \in {"upsert", "verify"} /\ "manifest" \notin objects
  /\ Raise(w, FALSE, "external")
  /\ UNCHANGED <<domain, jobs, external>>

\* _terminal_failure: commit_terminal_failure in finalize_domain.
TerminalFailure(w) ==
  /\ workers[w].pc = "failing"
  /\ IF StageFence(w)
     THEN /\ ApplyTerminalFailure
          /\ SetJob(w, Terminated(Job(w), workers[w].retryable, "stage"))
     ELSE UNCHANGED <<doc, version, state, jobs>>
  /\ Put(w, Idle)
  /\ UNCHANGED <<kb, external>>

\* The runner records a retryable error of an attempt that is not the last.
RecordRetryable(w) ==
  /\ workers[w].pc = "raising"
  /\ IF Job(w).epoch = workers[w].epoch /\ Job(w).status = "running" /\ Job(w).live
     THEN SetJob(w, [Job(w) EXCEPT !.status = "retry_wait", !.live = FALSE,
                                   !.retryable = TRUE, !.error = "stage"])
     ELSE UNCHANGED jobs
  /\ Put(w, Idle)
  /\ UNCHANGED <<domain, external>>

\* An exception _dispatch_stage does not translate, such as a database error:
\* the runner records JOB_HANDLER_FAILED on the job alone.
UnexpectedError(w) ==
  /\ workers[w].pc # "idle"
  /\ Job(w).epoch = workers[w].epoch /\ Job(w).status = "running" /\ Job(w).live
  /\ SetJob(w, Terminated(Job(w), FALSE, "handler"))
  /\ Put(w, Idle)
  /\ UNCHANGED <<domain, external>>

\* The process dies or the lease was found lost; nothing is written.
Crash(w) ==
  /\ workers[w].pc # "idle"
  /\ Put(w, Idle)
  /\ UNCHANGED <<domain, jobs, external>>

LeaseExpires(j) ==
  /\ jobs[j].status = "running" /\ jobs[j].live
  /\ jobs' = [jobs EXCEPT ![j].live = FALSE]
  /\ UNCHANGED <<domain, external, workers>>

\* The knowledge base is deleted or cut over to another generation.
KnowledgeBaseCloses ==
  /\ kb = "active" /\ kb' = "closed"
  /\ UNCHANGED <<doc, version, state, jobs, external, workers>>

-----------------------------------------------------------------------------
(* The orphan object reconciler.                                            *)

Referenced(o) ==
  \/ o = "source"
  \/ o = "parsed" /\ version.parsed
  \/ o = "manifest" /\ version.manifest

\* A job that may still publish or reference the artifact of its stage.
Recoverable(j) ==
  \/ jobs[j].status \in Unsettled
  \/ jobs[j].status = "failed" /\ jobs[j].retryable

\* Mutant of CleanupAllowed: only references keep an object.
CleanupUnreferenced(o) == ~Referenced(o)

\* object_key_cleanup_is_allowed, under locks on the knowledge base, the
\* version and its jobs.
CleanupAllowed(o) ==
  /\ ~Referenced(o)
  /\ LET stage == IF o = "parsed" THEN "parse" ELSE "chunk"
         recoverable == IF o = "parsed" THEN {"uploaded", "parsing", "failed"}
                        ELSE {"chunking", "failed"} IN
     ~(/\ version.status \in recoverable
       /\ \E j \in JobIds : Recoverable(j) /\ jobs[j].stage = stage)

\* reconcile_orphan_objects: the object is deleted before the locks go.
ReconcileObject(o) ==
  /\ o \in objects /\ CleanupAllowed(o)
  /\ objects' = objects \ {o}
  /\ UNCHANGED <<domain, jobs, copies, points, workers>>

-----------------------------------------------------------------------------
(* Manual retry.                                                            *)

\* What the parse and the chunk stage left behind is complete
\* (_valid_parsed_snapshot, _valid_manifest_snapshot).
ValidParsedSnapshot == version.parsed
ValidManifestSnapshot == version.manifest /\ state.next <= ChunkCount

\* No later stage has left anything.
NothingIndexed ==
  ~version.manifest /\ state.actual = None /\ state.next = 0 /\ ~state.validated

FullyIndexed(r) == state.next = ChunkCount /\ r.progress = ChunkCount

\* The facts each stage must have left, and the statuses to resume with, of
\* _reset_ingestion_retry.
RetryCompatible(r) ==
  /\ r.stage \notin {"parse", "chunk"} => ValidParsedSnapshot /\ ValidManifestSnapshot
  /\ CASE r.stage = "parse"       -> r.progress = 0 /\ ~version.parsed /\ NothingIndexed
       [] r.stage = "chunk"       -> r.progress = 0 /\ ValidParsedSnapshot /\ NothingIndexed
       [] r.stage = "embed_index" -> r.progress = state.next /\ state.actual = None
       [] r.stage = "validate"    -> /\ FullyIndexed(r) /\ ~state.validated
                                     /\ state.actual \in {None, ChunkCount}
       [] r.stage = "activate"    -> /\ FullyIndexed(r) /\ state.validated
                                     /\ state.actual = ChunkCount

ResumeStatus(stage) ==
  CASE stage = "parse"       -> [version |-> "uploaded", state |-> "queued"]
    [] stage = "chunk"       -> [version |-> "chunking", state |-> "queued"]
    [] stage = "embed_index" -> IF state.next = 0
                                THEN [version |-> "embedding", state |-> "embedding"]
                                ELSE [version |-> "indexing", state |-> "indexing"]
    [] stage = "validate"    -> [version |-> "indexing", state |-> "indexing"]
    [] stage = "activate"    -> [version |-> "indexing", state |-> "validated"]

\* _active_manual_retry_conflict.
RetryConflict == \E k \in JobIds : jobs[k].status \in Unsettled

RetryAllowed(j) ==
  /\ jobs[j].status = "failed" /\ jobs[j].retryable
  /\ kb = "active" /\ ~RetryConflict
  /\ doc = "failed" /\ version.status = "failed" /\ state.status = "failed"

\* reserve_manual_retry of job j: its child is job k.
ReserveManualRetry(j, k) ==
  /\ jobs[k].status = "absent" /\ \A i \in JobIds : i < k => jobs[i].status # "absent"
  /\ RetryAllowed(j) /\ RetryCompatible(jobs[j])
  /\ doc' = "processing"
  /\ version' = [version EXCEPT !.status = ResumeStatus(jobs[j].stage).version]
  /\ state' = [state EXCEPT !.status = ResumeStatus(jobs[j].stage).state]
  /\ jobs' = [jobs EXCEPT ![k] = [NewJob EXCEPT !.stage = jobs[j].stage,
                                                !.progress = jobs[j].progress]]
  /\ UNCHANGED <<kb, external, workers>>

-----------------------------------------------------------------------------
\* The steps of a worker that keeps running.
StageStep(w) ==
  \/ Load(w) \/ CommitParseStarted(w) \/ PublishArtifact(w)
  \/ CommitParseStage(w) \/ CommitChunkStage(w)
  \/ UpsertBatch(w) \/ CommitEmbedProgress(w)
  \/ CountPoints(w) \/ CommitValidateCount(w) \/ VerifyPoints(w)
  \/ CommitValidateStage(w) \/ CommitActivation(w)
  \/ ObjectMissing(w) \/ TerminalFailure(w) \/ RecordRetryable(w)

ClaimStep(w) == \E j \in JobIds : Claim(w, j) \/ ExhaustedFailure(w, j)

Next ==
  \/ \E w \in Workers :
       \/ ClaimStep(w) \/ StageStep(w) \/ UnexpectedError(w) \/ Crash(w)
       \/ CopyDetached(w)
       \/ \E retryable \in BOOLEAN : StageError(w, retryable)
  \/ \E j \in JobIds : LeaseExpires(j) \/ \E k \in JobIds : ReserveManualRetry(j, k)
  \/ \E o \in objects : ReconcileObject(o)
  \/ \E o \in Artifacts : LateCopy(o) \/ LateCleanup(o) \/ CopyForgotten(o)
  \/ KnowledgeBaseCloses

\* No worker executes the job's current lease.
Orphaned(j) ==
  \A w \in Workers :
    workers[w].pc # "idle" /\ workers[w].job = j => workers[w].epoch # jobs[j].epoch

\* Workers poll and run, and a lease nobody renews runs out.
Fairness ==
  /\ \A w \in Workers : WF_vars(ClaimStep(w)) /\ WF_vars(StageStep(w))
  /\ \A j \in JobIds : WF_vars(Orphaned(j) /\ LeaseExpires(j))

Spec == Init /\ [][Next]_vars
FairSpec == Spec /\ Fairness

-----------------------------------------------------------------------------
(* Properties.                                                              *)

TypeOK ==
  /\ kb \in {"active", "closed"}
  /\ doc \in {"processing", "active", "failed"}
  /\ version \in VersionRow
  /\ state \in StateRow
  /\ jobs \in [JobIds -> JobRow]
  /\ objects \subseteq {"source"} \cup Artifacts
  /\ copies \in [Artifacts -> {"none", "copying", "copied", "cleaned"}]
  /\ points \subseteq Chunks
  /\ workers \in [Workers -> Worker]

\* The key a version row references is never without its object by the hand of
\* the reconciler or of another worker: between publish_temp and the commit that
\* references it, across lost leases, repeated stages and manual retries, nobody
\* removes an artifact but the cleanup of a copy that landed late.
OnlyLateCleanupLoses ==
  \A o \in Artifacts : Referenced(o) => o \in objects \/ copies[o] = "cleaned"

\* A committed checkpoint is backed by Qdrant: every chunk before
\* next_chunk_index has its point, whoever wrote it and whoever crashed, so
\* resuming from the checkpoint skips nothing.
CheckpointBacked == \A c \in Chunks : c < state.next => c \in points

\* Job and document settle together: the document is active exactly when one
\* of its jobs succeeded, a failed document has no unsettled job, and a document
\* in processing has one unless an untranslated exception failed the job alone.
SettledTogether ==
  /\ doc = "active" <=> \E j \in JobIds : jobs[j].status = "succeeded"
  /\ doc # "processing" => \A j \in JobIds : jobs[j].status \notin Unsettled
  /\ doc = "processing" => \E j \in JobIds : \/ jobs[j].status \in Unsettled
                                             \/ jobs[j].error = "handler"

Holds(w) ==
  /\ workers[w].pc # "idle" /\ Job(w).status = "running"
  /\ Job(w).epoch = workers[w].epoch

\* A worker that holds its lease on an active knowledge base never meets
\* INGESTION_STAGE_CONFLICT: whatever crashed before it, and after any manual
\* retry, the rows it resumes from are the ones its stage expects.
ResumeConsistent ==
  \A w \in Workers :
    Holds(w) /\ workers[w].cause = "conflict" => kb # "active"

\* The newest job of a failed document, when it is retryable, can be retried:
\* reserve_manual_retry never answers JOB_RETRY_STATE_MISMATCH for it while the
\* knowledge base is active.
RetryNeverMismatched ==
  \A j \in JobIds :
    /\ RetryAllowed(j)
    /\ \A k \in JobIds : k > j => jobs[k].status = "absent"
    => RetryCompatible(jobs[j])

\* Rows, checkpoint and points tell one story at any moment: a crash, a lost
\* lease, an exhausted job or a manual retry finds progress it can go on from
\* (_save_checkpoint, finalize_exhausted_job, reserve_manual_retry).
ProgressConsistent ==
  /\ TypeOK
  /\ CheckpointBacked
  /\ SettledTogether
  /\ ResumeConsistent
  /\ RetryNeverMismatched

\* An upload ends, and so does every manual retry of it: the document becomes
\* active or failed, or its job is recorded as JOB_HANDLER_FAILED.
DocumentSettles ==
  doc = "processing" ~>
    (doc \in {"active", "failed"} \/ \E j \in JobIds : jobs[j].error = "handler")
=============================================================================
