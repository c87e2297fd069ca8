# VeloxRAG in TLA+

VeloxRAG (`src/`) is a retrieval service: an HTTP API, one or more worker processes, PostgreSQL for every durable
fact, MinIO for document bytes, Qdrant for vectors, Redis for wake-ups and rate limits, and remote embedding
providers. What makes it hard is that only PostgreSQL has transactions. Everything a request or a worker does in MinIO,
Qdrant or at a provider happens between two transactions, under no lock, and may be repeated, late, or done by
somebody whose lease is gone. These modules model that: what is committed together, what lies between, who else can
run there, and what the next one finds.

Paths below are relative to `src/src/rag_service/`. `PROJECT.json` maps every definition to its lines, and lists runs,
mutants, hazards and theorems.

## 1. Inventory

| component | state it keeps | operations | hard behaviour | what makes it correct |
|---|---|---|---|---|
| job queue (`jobs/repositories.py`, `jobs/runner.py`) | `jobs` rows: status, attempt, lease owner, epoch and expiry, stage, cancellation | claim, heartbeat, advance stage, finalise, succeed, fail, cancel, release, finalise exhausted | leases run out under live workers; heartbeat and handler tasks of one slot race; shutdown | one holder per epoch, bounded starts, terminal rows final, every job ends |
| ingestion pipeline (`ingestion/pipeline.py`, `ingestion/repositories.py`) | document, version and index state rows; artifacts in MinIO; points in Qdrant | five stages, terminal failure, manual retry, orphan object reconciliation | work outside transactions repeated by a second worker, late copies | references and checkpoints are backed; document and job settle together |
| uploads (`ingestion/services.py`, `ingestion/repositories.py`) | temporary and source objects, document rows, idempotency rows | stage, publish, reserve, answer, clean up | client disconnect against a shielded transaction, unknown commit | a reserved document has its source; a retry is answered once |
| index generations (`indexing/generation_services.py`, `generation_repositories.py`) | generation rows, creation requests, pointers of the knowledge base, cleanup claims, collections | create, replay, activate, fail, abandon, reconcile orphan collections | saga over three systems with replays beside lease-based cleanup | pointers agree, the served collection exists, failure is final |
| deletion (`metadata/services.py`, `metadata/purge.py`) | knowledge base status, purge job, all of its rows, objects, collections | delete, purge | unfenced handler, writers still running, half-finished purges, cleanup claims that outlive the rows | rows go last, the deletion completes, what remains is what a completed claim protects |
| cutover and repair (`indexing/generation_services.py`, `indexing/repair.py`) | enrolled index states, rebuild job, `mutation_revision` | enrol, reserve a repair, rebuild, validate, reset after drift, retry | documents, losses and other writers under a long rebuild | a completed rebuild is complete; it never runs beside an ingestion |
| worker process (`jobs/worker.py`, `JobRunner.run`) | shared preflight check, health file, resources, tasks | build, preflight, poll, reconcile, shut down | late results of timed-out checks, tasks that ignore cancellation | nothing starts late, resources outlive their use, the process polls and stops |
| notifications (`jobs/notifier.py`) | none | publish, read | lost and duplicated messages | a poll finds every job without them |
| object store (`infrastructure/minio_store.py`) | bounded executor, byte pipe, spooled downloads | upload, publish, read, verify, delete, list, aclose | thread calls outlive their timeout; two loops and a thread at one pipe | capacity follows the threads, final keys never change, everything staged or spooled goes |
| Qdrant client (`indexing/qdrant.py`) | none | prepare, verify, upsert, search, delete | answers lost before or after the effect | concurrent preparations agree; foreign collections are untouched |
| retrieval (`retrieval/`) | rerank permits, observers, usage rows, query log | search | the index changes between the awaits of a search | an answer is from one generation and was visible; each search is logged once |
| embedding gateway (`providers/embeddings.py`) | per-configuration limit state, FIFO of waiters | admit, call, release | cancellation at every await | no slot, ticket or token is lost |
| provider administration (`providers/services.py`) | credentials, configurations, profiles with revisions | create, patch, freeze | concurrent patches and generation creation; lock order | no lost update; what a generation copied stays as it is |
| authentication, knowledge bases (`auth/`, `metadata/services.py`) | API keys, scopes, knowledge bases, idempotency records | issue, patch, revoke, create, update, list | revocation and re-scoping against requests in flight; paging | commits are authorised; creates happen once; lists miss nothing |
| HTTP layer, parsers, chunkers, transport, readiness, observability, tools, migrations | none that outlives a request, or none | reads, validation, formatting, I/O | little | pure functions, or single calls |

How they interact: an upload inserts the document, its version, its index state and an `ingest_document` job in one
transaction. A worker slot claims the job and runs the pipeline, whose stage commits are fenced by the job's lease.
Deleting a knowledge base inserts a `purge_knowledge_base` job that runs in the same queue. Creating a generation runs
inside the API request. Each worker process also runs two reconcilers, for orphan objects and for orphan collections,
which meet all of the above only through the database rows and the two stores.

## 2. Modules

| module | models | composes or refines |
|---|---|---|
| `JobQueue` | queue, `run_once`, handler and heartbeat tasks | refines `JobLifecycle` |
| `JobLifecycle` | abstract: a job waits, is leased a bounded number of times and settles once | |
| `JobWorkerProofs` | proofs for all constants | extends `JobQueue` and `WorkerProcess` |
| `DocumentIngestion` | pipeline of one version, its jobs, object reconciler, manual retry | keeps the part of the job row that the pipeline reads |
| `DocumentIngestionProofs` | proofs for all constants | extends `DocumentIngestion` |
| `MultipartStaging` | the parser of a multipart body and the upload task beside it, around a bounded queue | |
| `UploadReservation` | both upload paths, reservation task, reconciler | extends `MultipartStaging` |
| `UploadStoreProofs` | proofs for all constants | extends `UploadReservation` and `ObjectStore` |
| `KnowledgeBasePurge` | deletion, purge handler, late writers, reconcilers | keeps the part of the job row that decides whether it runs again |
| `KnowledgeBaseProofs` | proofs for all constants | extends `AccessControl` and `KnowledgeBasePurge` |
| `GenerationLifecycle` | creation saga, administration, orphan collections | takes the purge as one step |
| `IndexProofs` | proofs for all constants | extends `GenerationLifecycle` and `Retrieval` |
| `GenerationCutover` | enrolment, repair reservation, rebuild job, competing ingestion | takes an ingestion job as: write points, commit |
| `GenerationCutoverProofs` | proofs for all constants | extends `GenerationCutover` |
| `ProviderConfiguration` | patches of configurations and profiles against their readers, row lock by row lock | |
| `ProviderConfigurationProofs` | proofs for all constants | extends `ProviderConfiguration` |
| `AccessControl` | API keys, scopes, knowledge bases, idempotent creates, lists | |
| `EmbeddingAdmission` | registry of limit states, FIFO admission, token bucket, cancellation | |
| `EmbeddingAdmissionProofs` | proofs for all constants | extends `EmbeddingAdmission` |
| `WorkerProcess` | preflight gate, runner loop, notification read, reconciliation, shutdown | takes a slot as: ask the gate, run, end |
| `UploadPipe` | the byte pipe and its two ends | |
| `ObjectStore` | the operations, the SDK calls that outlive them, `aclose` | extends `UploadPipe` |
| `VectorIndex` | collections and points, call by call | |
| `Retrieval` | searches, their logs, and the changes they meet | extends `VectorIndex` |
| `MC...` | the owner function, the starting points, bodies and combinations, and the symmetry set for TLC | extend the module they are named after |

Four proof modules each hold the proofs of two components. These share no variable, so neither part of such a module says anything of the other
component; it saves proving the lemmas about sequences, finite sets and least elements twice. For this the definitions of
`WorkerProcess`, `KnowledgeBasePurge`, `ObjectStore` and `Retrieval` carry names of their own (`ProcessSpec`, `PurgeSpec`, `StoreSpec`, `SearchSpec`,
`StoreTypeOK`, `SearchTypeOK`, ...).

Conventions shared by all modules:

- One PostgreSQL transaction is one action when it takes its row or advisory locks before it reads. Where the order of
  locks matters, or a lock is held across an external call, the lock is a variable and the transaction is several
  actions (`UploadReservation`, `ProviderConfiguration`, `AccessControl`).
- Everything between transactions is a step of its own: the read of a stage's input, each MinIO and Qdrant effect, the
  return of a call to the task that made it.
- Time is abstract. A lease runs out, a retry becomes due, a timeout fires at any moment: the code compares these
  only with a clock, so every order of clock and steps is included. Grace periods are therefore not assumed.
- External services are sets: the objects in the bucket, the collections and points in Qdrant. A call may succeed,
  be refused, or, where the client can give up on it, take effect later.
- Identifiers stand for what is derived from them: a request for its document, version and object key, an idempotency key
  for its generation and collection (both are UUIDv5 or digests of it in the code).
- An action that the code turns away without a write is not enabled. A refusal appears as an outcome only where a property
  tells it apart.
- Several named parts that need the same run are conjoined into one property (`LeaseSafety`, `ObjectsSound`, ...); the
  module states each part with its own comment.
- A definition preceded by "Mutant of" is a faulty variant that no specification uses; `PROJECT.json` names
  the property it must break.

## 3. How state and actions correspond to the code

**JobQueue.** `jobs` is the table (one record per row: status, attempt, epoch, owner, lease, stage, retryable, due,
error, cancel), `slots` what one `run_once` task with its handler and its heartbeat task remembers, `stop` the
stop event, `starts` a history counter, `faults` the bounded crashes and shutdowns. Each repository method is one
action guarded by `Fence` or `StageFence` (the `WHERE` clause of its `UPDATE`); a call whose result is stored in the task
is split into commit and return (`AdvanceStage` / `AdvanceReturns`, `FinalizeCommits` / `FinalizeReturns`,
`HeartbeatSends` / `HeartbeatCommits` / `HeartbeatChecks`), because the other task of the slot runs in between. Slots of one
process share the owner string, as in the code, so that only the epoch can tell leases apart. `PollClaim` takes the oldest
eligible job; `NotifiedClaim` takes any, which covers lost, late and duplicated notifications and rows skipped by `SKIP LOCKED`.
`Enqueue` adds a job while fewer than `MaxBacklog` are unsettled or still held by a slot.

**DocumentIngestion.** `version`, `state`, `doc`, `kb` and `jobs` are rows; `objects`, `copies` and `points` are MinIO
and Qdrant. A stage is `Load` (the read transaction), external steps (`PublishArtifact`, `UpsertBatch`, `CountPoints`,
`VerifyPoints`), and a fenced `Commit...` that writes facts and job checkpoint together. `StageError`,
`ObjectMissing`, `TerminalFailure`, `RecordRetryable` and `UnexpectedError` are the failure paths: a translated error fails job and
document together, an untranslated one only the job. `CopyDetached`, `LateCopy`, `LateCleanup` and
`CopyForgotten` are a copy call whose waiter gave up. `ReconcileObject` is the reconciler, `ReserveManualRetry` the retry API
with the snapshots it demands of the version (`ValidParsedSnapshot`, `ValidManifestSnapshot`, `NothingIndexed`, `FullyIndexed`).

**MultipartStaging.** `staging` holds, per request, where `stage_multipart_upload` is, the file part, the pieces the parser
found and has not queued, the queue, the upload task, and how many pieces each side saw: the summary of the validator and the
receipt of the store. `UploadReservation` joins its steps with the request: a client that leaves, a part that is refused and an
upload that fails each end in `abort`, which waits for the cancelled upload.

**UploadReservation.** `request` is the coroutine of an upload and `task` the shielded reservation it started, so
cancellation and the resolution timeout (`Cancel`, `ResolveCancelled`) can meet any point of the transaction. `kb` is the
configuration of the knowledge base or `None`, `lock` the row lock on it between `ReserveLocks` and `ReserveCommits`, `idem` the
idempotency rows. `copying` and `doomed` are copies and deletes that were sent and have not taken effect. After the commit the
request is in `notifying`, where a cancellation finds the outcome already decided.

**KnowledgeBasePurge.** Collections and objects carry an age, early or late, that says whether they were created before the
deletion began: the purge owes the early ones, the reconcilers the late ones. `ReadCollections`, `DeleteCollection`,
`ListObjects`, `DeleteObject`, `DeleteRows` and `Finish` are the handler, unfenced as in the code. Writers under way are
`creating` and `writing`; `creating[g]` counts, because a replay of a key passes `_reserve` beside the request it repeats and both then ensure the
same collection. `claims` are the rows of `index_generation_cleanup_claims`: `ClaimCleanup`, `DeleteOrphan` and `CompleteCleanup` are a reconciler on one
collection, `TakeOverCleanup` its successor, and a completed claim is never given out again. Lease owners are left to `GenerationLifecycle`. `overtaken` is a history variable:
the generations whose collection was deleted while some request was still about to ensure it.

**GenerationLifecycle.** `Reserve`, `Resume` and `ReplayFails` are the branches of `_reserve`; `EnsureCollection` and `Verify`
the Qdrant and provider calls; `Activate` is `_activate` with all of its exits, `MarkFailed` is `_mark_failed`.
`ClaimCleanup`, `Authorize`, `DeleteCollection`, `CompleteCleanup` and `ExpireCleanup` are the five steps of a reconciler on one
collection. A lease owner is a fresh UUID per claim in the code; a reconciler works on one claim at a time, so its
name stands for the UUID. `Purge` is atomic here because the knowledge base is no longer active and every
property of this module is about an active one or about collections that failed; `KnowledgeBasePurge` has its steps.

**GenerationCutover.** `active`, `rev`, `docs`, `ingest`, `states` and `job` are rows, `points` and `lost` the collections,
`worker[g]` the rebuild pipeline between its transactions, `admin` a repair being reserved, whose probes of Qdrant lie outside and
inside its transaction. The cutover enrols the live documents in the successor and inserts its rebuild job in one step. The pipeline
reads its targets, writes points batch by batch from the manifests, counts, and finalises under the row lock, where it compares
`mutation_revision` and the active generation with what it began with.

**ProviderConfiguration.** `keys`, `configs`, `profiles` and `generations` are committed rows, `lock` the rows locked
`FOR UPDATE`, `req` the requests. Each lock a request takes is a step that waits, plain reads see committed values, the last step writes and
releases. A circle of waiters is broken by the server, which aborts one of them. The commands are the two `PATCH`es, the creation of a
profile, the revocation of an administrator, and the two readers: the creation of a generation, which copies from unlocked reads
and compares again before it commits, and the reservation of a repair.

**AccessControl.** `keys` and `resources` are rows, `records` the idempotency records, `clock` the order of transaction start times,
`lock` and `req` as above. `Authenticate` reads without a lock; what a request writes is checked again under its key's lock
(`Revalidated`), which is what `CommitsAreAuthorized` is about. The knowledge bases of a scope are locked by one `SELECT ... FOR UPDATE`
(`get_knowledge_base_statuses` in `auth/repositories.py`): `FindScopes` is its snapshot, `found` the rows in it, which `LockScopes` then locks in the order of id; a row
purged meanwhile drops out, none is added. A list is several requests, one page each, and the collector of
the pages is a client that follows the cursor.

**EmbeddingAdmission.** `states` are the `_ProviderLimitState` objects, `registry` the dictionary that maps providers to them, `requests` the
coroutines of `_execute`. The gateway runs on one event loop and awaits nothing but the condition inside a condition's block, so each block is an action;
`notify_all` moves every waiter of that condition back to its loop, which is how a lost wake-up would show. The bucket is filled lazily, as in
`_refill_existing_rate`, in parts of a token (`Without` takes a ticket out of the queue wherever it stands); `level` is a history variable, an ideal bucket per provider that does not depend on what the registry
remembers. `Unwinding` is what a cancellation at each await still owes.

**WorkerProcess.** `phase` is how far `_run_worker` is, `check` the dependency check shared by all callers of `checked_preflight`, `caller[w]` what
the start, the health task and each slot do at the gate, `loop`, `pollDue`, `notify` and `read` the runner's loop and its notification
gate, `recon` the reconciliation task, `open` and `database` what is built and not closed. A cancelled task may end or ignore it; a deadline is a step.

**UploadPipe and ObjectStore.** `pipe`, `prod` and `cons` are `_BoundedBytePipe`, the asyncio producer and the SDK thread that reads. An operation is its
sequence of SDK calls: `pc` and `res` are its place and its outcome, `call` the SDK call it made, which no timeout stops, `task` the
cleanup and release tasks it left behind, `active`, `ended` and `exec` the executor's capacity, `close` the phases of `aclose`. `staged`, `final`
and `rival` are the objects, `rival` what another process writes under the same key; `spool` is the temporary file of a download on its
way from thread to reader, `page` the state of a listing: `bucket` says of each key, in the order of names, whether it is older than the cutoff,
and a page holds the first `Limit` old objects among the next `ScanLimit` keys.

**VectorIndex and Retrieval.** `collections`, `prepare`, `removal` and `writer` are Qdrant and the calls under way; a call's answer may be lost before or after its
effect. `search[s]` is a `SearchService.search` between two awaits with what it remembers: the knowledge base, its generation and
schema, the candidates. Candidates are a sequence in the order of the answer, and the second look at the documents (`StillVisible`) keeps that order. `permits`, `usage` and `queryLog` are the rerank semaphore and the two logs. `observers[s]` is
the task that reports the attempt of a search: `BeginReport` creates it or, with `MaxObservers` in flight, drops the report; `ReportEnds`, `ReportTimesOut` and `CancelReport` are
how the wait for it ends, and `ObserverEnds` is a task that was left behind and ends later. Healthy reports of other searches count toward the cap like those left behind. Each search is cancelled once at most. `ever`
is a history variable: what has been visible at some time since a search began.

## 4. Runs

| run | instance | distinct states | shows |
|---|---|---|---|
| `job_queue` | 2 jobs, one of them without a handler, 2 slots of one process, 2 attempts, 2 stages, backlog of 1, 1 fault | 270,749 | fencing, lease freshness, kept finalisation (`LeaseSafety`), budget (`AttemptsWithinBudget`), cancellation, refinement of `JobLifecycle`; every job settles |
| `ingestion` | 2 workers, job and one manual retry, 2 attempts, 3 chunks in batches of 2 | 615,903 | checkpoints backed, document and job settled together, resumable and retryable (`ProgressConsistent`); what can lose an artifact; the document settles |
| `upload` | 2 requests, 1 key, 1 configuration change, the four combinations of `MCUploads`, queue of 2, files of up to 2 pieces | 846,728 | retries are answered once and alike; a reserved document has its whole source; every request ends and nothing is left behind |
| `purge` | 2 workers, 2 generations, one of them established and one created by up to 2 requests at once, 1 document, 2 attempts, 2 interruptions, 1 outage | 436,928 | the rows go last and only what an old request made again escapes the reconcilers (`PurgeInOrder`); every deletion settles; nothing else remains |
| `generations` | 2 keys, 2 requests, 1 reconciler, 1 schema change, 1 interruption | 792,952 | pointers agree and the served collection exists; only orphans go and failure is final; orphans are deleted |
| `cutover` | 2 documents, 3 generations, 1 attempt, 1 fault, 1 loss, 6 revisions | 287,000 | live documents are enrolled, the index is complete where it was not lost, a rebuild excludes ingestion and its targets are stable (`RebuildSafe`); a completed rebuild is complete; every rebuild ends |
| `provider_configuration` | 2 requests by 2 administrators, 2 configurations, 2 profiles, 1 generation | 180,736 | what an active generation copied stays (`ConfigurationFrozen`); no lost update; patches share a lock order and every request ends |
| `access_control` | 2 requests, 2 agent keys, 2 administrators, 6 identifiers, pages of 1 | 1,132,731 | idempotent creates happen once and nothing deadlocks; a listing shows each resource once; commits are authorised; scope patches lose nothing unseen |
| `admission` | 3 requests, 2 providers, registry of 1, limits 1 and 2, rate 1 in halves of a token | 177,543 | exact books, calls and rate within limits across dropped states; every request ends |
| `worker_process` | 2 slots, 2 resources | 47,421 | waiters have a check, a healthy report is a running process, resources outlive their use, one read in flight; nothing is opened or accepted late; the gate answers, the loop polls, shutdown ends |
| `object_store` | 1 or 2 operations as in `MCStarts`, buffer of 1 byte, up to 2 bytes, executors of 1 and 2, pages of 1 object and 2 keys | 242,573 | capacity follows the threads, a closed store is drained, spools are closed; staging goes, what is staged is whole, listings find every old object; a final key never changes; operations end and the reader is let go |
| `retrieval` | plans of 1 or 2 searches, 2 generations, 2 documents, 2 preparers, up to 4 changes and 2 faults, 1 observer and 1 permit | 441,199 | answers were visible, from one generation and within `top_k`, crowding costs what the code allows; logs, reports, observers and permits exact; foreign collections untouched and no false mismatch; searches end |

Why the bounds are enough. Most hazards here need two actors on one item: an old holder and its
successor, a request and its replay, a writer and a reconciler. Two attempts let a lease be lost once and the budget
be spent after it; two stages make a stale stage possible; a second job that nothing handles arrives after the first and meets slots still
bound to it. Three chunks in batches of two make a full and a partial batch,
so that a crash can fall before, between and after checkpoints. Two pieces and the end mark are one item more than the multipart queue holds, so a parser
can be blocked by an upload that no longer reads. Two bytes through a buffer of one make the writer wait, and a chunk of two
makes it wait inside a chunk. Three embedding requests are one that holds a provider's limit state, one of another provider that wants its
place in the registry, and one that comes back to the first. Two keys allow a cutover, with a third generation adding only
another retired one; three generations in `cutover` let a rebuild outlive its own generation's activity. One reconciler that dies or outlives its lease and claims
again is its own successor, and the theorems of section 5 cover any number of them. Two administrators can wait for each other, and a repair makes the only circle
(section 6). Pages of one make every resource a page boundary. A `Ceiling` of 3 with 3 points in the index lets hidden points crowd out visible ones. One observer and two searches make a report in flight cost the other
search its own, with no fault and no cancellation; the plans of two searches have either two faults, or one and cancellations. Two requests with one key let the second ensure a
collection after the first one's was deleted and its claim completed. Where requests
differ only in what they send, the `MC` module lists one representative of each combination. The bounds that stand for unbounded behaviour are `MaxFaults`,
`MaxLosses`, `Interruptions`, `Outages`, `MaxConfig`, `MaxRevision`, `MaxBacklog` and the plans; the proofs of
section 5 remove them for the safety properties they cover. Symmetry is declared in `access_control` only, which checks no
liveness, over the requests, which no operator orders.

Deadlock is checked in `admission` and `object_store`. Elsewhere the system may rest: when every job has ended and no request is left. There a
deadlock of waiting parties would show as a violation of the run's liveness property; `access_control` has none and states `NoDeadlock` as an invariant instead.

Fairness, all weak:

- a slot that can poll, and a task that can run, does (`PollClaim`, `RunnerStep`, `HandlerStep`, `StageStep`,
  `PurgeStep`, `RequestStep` of uploads and of admission, `UploadStep`, `ReserveStep`, `Progress`, `Ingestion`, `Rebuild`, `Searching`, `Loop` of the store, and the steps of
  `WorkerProcess`): the asyncio loop is fair to ready tasks, workers poll on an interval, and the calls to providers, rerankers, Qdrant and MinIO and the wait for an observer have a timeout.
  The statements sent to PostgreSQL have none: it is assumed that the database answers or fails. The heartbeat needs no fairness.
- clients send their body and the SDK thread reads what the pipe holds (`RequestStep`, `ReadPipe`). A client may leave at any time and an upload may
  fail at any time, but neither is made to: an upload and a parser that wait for each other would wait for ever.
- the clock passes (`Tick`, `RetryDue`, the deadlines of the worker, and `LeaseExpires` of a lease nobody renews). A lease under a live holder may but need not expire.
- a stopped worker is started again (`Restart`): the deployment restarts containers.
- the reconcilers run again and again (`ReconcileTemp`, `ReconcileObject`, `ReconcileCollection`, `CleanerStep`): the worker's
  periodic loop. Deletes and copies already sent take effect (`Delete`, `LateCopy`).
- creation sagas get no fairness: a client may never come back, and `OrphansCollected` does not need it to. SDK calls get none either: `OperationsEnd`
  holds although a call's thread may hang for ever.

Crashes, interruptions, losses and outages are never fair. `DeletionSettles` names its two excuses, a failed call and as many interruptions as there
are attempts: a job whose attempts are all lost ends failed, by design.

What the properties except, and why:

- `OnlyLateCleanupLoses` says that nothing but the cleanup of a late copy can take a referenced artifact away; that this one can is remarked in section 6.
- `RateRespected` holds while `requests_per_minute` of a provider stays the same; with a lowered and raised rate the bucket is clipped, so the ideal
  bucket of one rate is no longer the right measure. It counts admissions: a request that waits long for its credential sends later than it was admitted.
- `ResumeConsistent` and `RetryNeverMismatched` hold for one active knowledge base that is not cut over to another
  generation during the job; `GenerationCutover` has the cutover.
- `IndexComplete` excepts generations in `lost`, and a loss between the last count and the finalisation of a rebuild counts as a loss of the rebuilt collection:
  no reader of Qdrant could tell.
- `NothingRemains` excepts generations in `overtaken`, and `OnlyOvertakenEscape` shows that there are no others: a reconciler deletes the collection of a purged knowledge base and
  completes its claim while a second request with the same key still has to ensure it. Section 6 has the run.
- `AttemptsReported` excepts reports dropped at `_MAX_ATTEMPT_OBSERVER_TASKS`; `ObserversExact` says that as many others had begun wherever one was.
- `AnswersWereVisible` allows a result that was visible when some step of the search looked and is not when the answer is sent.

## 5. Proofs

Every invariant and every action property of the runs is a theorem for all values of the constants; of `LocksResolve`, which also has a liveness half, its safety half
`PatchesShareLockOrder`. What is left to TLC alone is liveness. Each proof has the same shape: an inductive invariant that says, of each process and step, what it holds and
what it may rely on; a lemma that says what a step of one process may do without disturbing the others; and one lemma per action. The assumptions on constants are in the modules that declare
them, and TLC evaluates them in every run.

**Job queue** (`JobWorkerProofs`). Proved are, for every finite set of slots, every set of jobs, budget, number of stages, backlog and faults, and any assignment of owners
(`JobsAssumption`, `SlotsAssumption`, `HandledAssumption`, `BoundsAssumption`): `TypeCorrect`, `Fencing`, `LeaseCurrent`, `FinalizationKept`,
`StartsBounded`, `WaitingClaimable`, `CancelHonoured`, `TerminalKept` and `Refinement`
(`Spec => ImplementsLifecycle`, the whole abstract specification, which has no fairness); `LeasesSafe` and `AttemptsKept` join them into the two properties the run
checks.

None of these invariants is inductive alone. `SingleHolder` needs `EpochInv`: no lease is ahead of its row and no two leases
of one job carry the same epoch. `StartsWithinBudget` needs `BudgetInv`: starts plus claims not yet started never exceed
the attempts charged, which is why `release_claim` may give an attempt back before the handler starts and only then.
`NoLostFinalization` needs `OwnInv`: a row that still has a slot's epoch is running until that slot writes its outcome, or was failed
by a poller as exhausted. `HandlerLeaseCurrent` needs `StageInv`. `RowInv` and `SlotInv` tie leases, statuses and tasks together.
The proof first shows that every step replaces one row and one slot in one of eight ways (the `By...` definitions; one shape lemma
per action), and then proves each conjunct for the eight ways; the refinement uses the same shapes.

**Worker process** (`JobWorkerProofs`). Proved are `ConsistentAlways` and the action property `NothingLateEver` for any number of slots and any resources
(`SlotsAssumption`, `ResourcesAssumption`). `ResourcesOutliveUse` follows from `ClosedWhenQuiet`, something is closed only in the phases where nobody can ask the gate or start a pass; that needs
`NothingBeforeStart` and `NothingAfterDrain`, which say where a question can come from in each phase (TLC: 47,421 states).

**Ingestion** (`DocumentIngestionProofs`). Proved are `OnlyLateCleanupAlways` and `ProgressAlways` for any number of workers, manual retries, attempts and chunks and any batch size
(`JobIdsAssumption`, `SizesAssumption`). The invariant `IInv` says that there is a newest job (`Newest`): the ones before it have failed, the ones after it do not
exist, and the document is what became of it. `FactsMatch` and `StatusMatch` read off that job's stage what its predecessors have left in the version and
index state; the first holds even when the job has failed, which is what a manual retry goes on from (`RetryNeverMismatched`), the second while it is unsettled.
`LeasesApart` keeps two workers from holding one epoch, and `HolderMatches` says, of the worker that holds the lease, that what it read is still
what the rows hold and that what it is about to reference or to count as indexed is in the store or in Qdrant. So the fence in each commit is shown to be enough: a
worker without the lease writes only objects and points, and those only grow. TLC checked `IInv` on the run's instance (615,903 states) before it was proved.

**Uploads** (`UploadStoreProofs`). Proved are `SourcesWholeAlways` and `RepeatsAlways` for any set of requests, keys and contents, whatever combination they send, and any size of
file and queue (`NoneAssumption`, `UploadsAssumption`, `MaxConfigAssumption`, `QueueSizeAssumption`, `MaxPiecesAssumption`). Two invariants that do not meet are carried side by side.
`StagingOK` says, of one multipart body, that what the upload has taken, what is in the queue and what the parser still holds make up, in order, the pieces the parser has
seen, with the end mark last; that is why a stored upload holds the whole file. `ReservationInv` ties the reservation task to its request and the row lock (`TasksMatch`); says that a
key which is going to be deleted, or written late, belongs to a request that is over and has no row and will get none (`SourcesKept`), the fact on which deleting after a failed
reservation rests; that idempotency rows and documents name each other (`KeysRecorded`); and that an answer already given stays true (`AnswersKept`). TLC checked both
(846,728 states). The attempt to prove it corrected a property: a refused duplicate does not use up its key,
which may then reserve a document with other content, so `RetryNotDuplicate` speaks of the same key and the same content.

**Object store** (`UploadStoreProofs`). Proved are `StoreAlwaysAccounts`, `ObjectsAlwaysSound` and the action property `FinalNeverChanges` for any finite set of operations of any kinds and contents, of which at most one is an upload and one a
listing (there is one pipe and one page), any executor, buffer and chunk sizes, and any bucket (`PipeAssumption`, `StoreAssumption`, `StartsAssumption`). `StoreIInv` ties each operation to its SDK call (`CallFits`, `KindFits`), to the tasks it left
behind (`TasksFit`) and to the temporary file of a download, which has one holder at a time: thread, slot or reader (`SpoolFits`). `StagingFits` is the heart of the
cleanup: a staging object that is there after its operation, or may still appear because the put is in its thread, has a task that owes its delete and has not yet heard that it succeeded.
`PipeFits` accounts for the bytes: read, buffered and still to be written make up what the stream yielded unless the reader is going to hear of a failure, so the end of the file is the end of the stream and what is
stored is whole. `PageFits` says that what a listing returned so far is every old object up to the cursor, in order; that a page carries this on is shown with the ranks of the old objects instead of an
induction over the sequence.

**Index generations** (`IndexProofs`). Proved are, for any sets of keys, requests and reconcilers and any number of interruptions and schema revisions
(`NoneAssumption`, `BoundsAssumption`): `TypeCorrect`, `PointersAgreeAlways`, `ServedAlways`, `OrphansOnly` and `FailuresStay`, joined by
`ConsistentAlways` and `NothingUndoneEver`.
The invariant adds to `TypeOK` and `PointersAgree`: `WorkHasKey`; `RequestsMatch`, a creation request against the status of its
generation; `ClaimsAreFinal`, a cleanup claim, held or completed, is a verdict, its generation is failed or gone, and a reconciler past its claim has one
behind it even when the lease ran out; and `CollectionsKept`, what serves has its collection and so has what a request found while
its generation lives. `ClaimsAreFinal` is what makes the unlocked delete safe: no lease protects it, only the fact that
a failed generation never comes back. TLC checked this invariant before it was proved (5,045,344 states).

**Retrieval and the Qdrant client** (`IndexProofs`). Proved are `AnswersAreSound`, `SearchesAreRecorded` and the action property `CollectionsAreOwned` for any finite sets of searches, generations and documents with any number of chunks, whatever requests and plans, any
factor, floor and ceiling of `candidate_limit`, any number of permits, observers and faults (`VectorIndexAssumption`, `RetrievalAssumption`, `PlansAssumption`). The index part, `IndexInv`, says that where no other service and no removal interferes a collection under
preparation is there and has every index its request no longer misses (`PreparationFits`), which excludes a false mismatch, and that whoever is about to delete or write has found the service's own collection (`ForeignSafe`).
The search part says of each search, from its record, from what was visible and active since it began, from its row in the query log, its usage row and the task that writes it (`Told`), and from whether some call failed, what is true at its step (`SearchFits`): the generation
was active at some moment of the search and does not change; candidates are the best of that generation that match; what survived the second look is in order and was visible. `UpToDate` keeps the history variable `ever` in step with the
tables. A step changes one record and leaves those of the others fitting, because `ever` only grows. Crowding is a count: hidden candidates are an injective image into the offered points that are not shown, so if
those are no more than the candidates asked for beyond `top_k`, enough visible ones are among the candidates (`Enough`). `RowFits` ties the
usage row to the report: a row is there only when its observer is over, and an observer that is over without one was met by a failure or by a cancellation of its search. `ObserversFit` counts: no more are in flight than there may be, and where a
report was dropped as many others have begun, a set that only grows. So every missing row has its excuse. TLC checked `SearchesRecorded` first (441,199 states), and without the excuse of the cap refuted it by two searches that report at once.

**Deletion** (`KnowledgeBaseProofs`). Proved is `OrderKept` for any sets of workers, generations and documents and any number of attempts, interruptions and outages
(`BoundsAssumption`, `EstablishedAssumption`), with any number of requests per key. `VectorsGoFirst` needs `WorkCovers`: what a worker still has on its list covers everything from before the deletion, and stays so when another worker
deletes the same things or a new one is created; `CollectionsRecorded`, the row of a generation is there before and as long as its collection, so that the list was complete when
it was read; and `DeletedFirst`, nobody works before the deletion. `OnlyOvertakenEscape` needs `DeletedForGood`: once a reconciler has deleted a collection its claim turns every new request away, so one that no
request was about to make again stays absent (TLC: 436,928 states).

**Access control** (`KnowledgeBaseProofs`). Proved are `RequestsAlwaysConsistent`, `CommitsAlwaysAuthorized`, `GrantsAlwaysSound` and `ListsExact` for any finite sets of requests and resources, any keys, idempotency keys and bodies and any page limit (`KeysAssumption`,
`RowsAssumption`, `ExistingAssumption`, `NoneAssumption`, `CursorAssumption`, `RequestsAssumption`, `IdsAssumption`, `PageLimitAssumption`). `RequestOK` says of a request which rows it holds at its step (`Holds`), that what it checked under them is still so (`Checked`: the actor's key
is still what `Revalidated` demands until the commit), what is on record for its idempotency key (`Recorded`), and that a key whose revision is still the one its administrator read has gained nothing since
(`Seen`), which is why a replaced scope loses nothing unseen. That nobody waits in a circle follows from an order of the rows, administrators, agents, resources by id: whoever waits holds only rows below the one it waits for (`HeldBelowWanted`), and a finite set
of requests has one that waits for the highest (`HighestMember`, by well-foundedness of finite subsets, as the prover has no induction). `ListedExactlyOnce` needs that what a list has shown so far is, in order, what was visible at all of its requests up to
the cursor (`ListOK`); that a page continues it is shown by a least counterexample, and that a page shorter than the limit is the last by counting. The proof corrected the model: a first version looked up the rows of a scope anew before each lock, as the code does not, and
admitted a circle of two administrators that the single statement excludes; the run now has two administrators.

**Cutover** (`GenerationCutoverProofs`). Proved are `RebuildAlwaysSafe` and the action property `RebuiltAlwaysComplete` for any finite set of documents with any number of chunks, any
generations, faults, losses and revisions (`DocsAssumption`, `GenerationsAssumption`, `BoundsAssumption`). `RebuildSafe` is nearly inductive: it needs `NothingAhead`, no job knows of a
generation that is still to come, so that a cutover starts with a clean slate; `IngestSettles`, a document settles together with its job, so that only an activation changes
which documents are live; and `CountedIsThere`, the points a rebuild counted stay until it reports. That a rebuild which succeeds is complete then follows from the finalisation, which compares the
revision and the targets with the live rows under its lock; the points themselves were counted before, outside any transaction. TLC: 287,000 states.

**Provider administration** (`ProviderConfigurationProofs`). Proved are `FrozenAlways` and the action property `PatchesAlwaysCurrent` for any number of requests, administrators and rows and whatever bodies the clients
send (`RowsAreOrdered`, `NoneAssumption`, `AdminOfAssumption`; `BodiesAssumption`: a body names columns of its row and gives them values of their types; `InitAssumption`: a generation that is
there at the start was made from rows that are there). The invariant `IInv` says of each request, step by step, what it has locked and what it may rely on. A `PATCH` of a configuration holds its
administrator's key, still active, from its second transaction on, and from `LockConfig` on the row at the revision of its ETag; if it changes what generations copy, it holds every profile of the
configuration and no generation was made from any of them (`ConfigFits`). That this last fact survives the steps of the others is the heart of the proof: nobody moves or adds a profile to a configuration that
another request has locked, because a `PATCH` of a profile writes with both providers locked (`ProfileFits`) and a new profile waits for its provider; and nobody reserves a generation for a locked profile. From its
reservation on the profile of a generation is frozen, so what the second look read of it stays true although it was read without a lock, and agreement with the copy is agreement with the
live rows (`GenerationFits`). `CreatorsApart` keeps two requests from creating one row. `TablesKeep(s)` collects what a step may do to the tables without disturbing request s, so that each action is
shown once to respect it and once to keep its own request's facts. TLC checked `IInv` on the run's instance (180,736 states) before it was proved.
`PatchesNeverCircle`, the safety half of `LocksResolve`, adds to `IInv` what each request other than a repair holds where it waits (`HeldInOrder`): nothing before its actor's key, then configurations, profiles and credential, and within one table the lower row
before the higher. That the profiles of a locked configuration are only ever fewer is what keeps the last part true while others write. In a circle without a repair the requests that wait in the last table wait among themselves for ever higher rows,
which a finite set of requests cannot (`RequestsAssumption`). The proof showed that `RowsAreOrdered` had to say of the tables themselves that they are disjoint, and that row numbers have a least one, as sorted ids have.

**Admission** (`EmbeddingAdmissionProofs`). Proved is `LimitsAlwaysRespected` for any finite set of requests, any providers, registry size, limits, rates and grain (`NoneAssumption`, `SizesAssumption`, `RequestsAssumption`; `RatesAssumption`: there is a highest rate, as `requests_per_minute` is bounded
by a check constraint). `Held` says that whoever holds a limit state holds the one its provider is registered with; `Books` that references, slots and tickets of a state are exactly its holders' (cardinalities, and a queue with one ticket for each). That a provider never has more calls under way than allowed is
not inductive as it stands, because limits change between admissions: `Limited` says it of every subset of the calls under way, some member of which was admitted under a limit with room for all of them, and a call that leaves then leaves it
true of the rest. `Earned` compares the bucket with the ideal one; dropping a state from the registry forgets nobody, as it has no references, and nothing, as its bucket is full.

Only model-checked, because fairness and `ENABLED` are beyond the prover: `EveryJobSettles`, `DeletionSettles`, `NothingRemains`, `DocumentSettles`, `NothingLeftBehind`, `OrphansCollected`, `EveryRequestEnds` (of admission and, in `LocksResolve`, of provider
administration), `RebuildEnds`, `ProcessResponds`, `StoreProgress` and `SearchEnds`.

## 6. Remarks

What modelling showed of the code, beyond what holds. None of these is a run of its own.

- Purge: an error of Qdrant, MinIO or the database in the handler is not translated (`metadata/purge.py:110`, `:116`), so `run_once` records a permanent
  failure with attempts left. A second `DELETE` enqueues nothing, and the knowledge base stays in `deleting`. `DeletionSettles` excepts it as an outage.
- Ingestion: a copy that outlives its timeout is deleted by its late-success cleanup (`infrastructure/minio_store.py:850`) even when a later attempt has
  found the object and committed a reference to it. `OnlyLateCleanupLoses` shows that there is no other way.
- Generations: after a cutover, replaying the key of the superseded generation is answered with an internal error
  (`indexing/generation_services.py:885`). A replay that passed `_reserve` before a cleanup and ensures the collection after it recreates one whose completed claim
  keeps every reconciler away until the purge.
- Deletion: where the purge has passed already, such a collection stays for ever: its rows are gone and `claim_collection_cleanup` returns nothing once a claim is completed
  (`indexing/generation_repositories.py:467`). A comment calls completed claims permanent because "their collection names are never reused"
  (`db/models/knowledge_bases.py:325`); two requests with one idempotency key use the same name. `NothingRemains` excepts it.
- Cutover: a document that is `processing` when a cutover commits is not enrolled in the successor. While a rebuild of the active generation is pending nothing changes
  `mutation_revision`, so its drift reset only ever meets another cutover. A permanently failed rebuild that left points behind can be neither retried nor reserved again
  (`COLLECTION_NOT_EMPTY`). An ingestion writer that outlived its lease and writes after the second probe makes the validation fail for good.
- Provider configuration: the reservation of a repair locks profile, provider, credential (`indexing/repair.py:544`), a `PATCH` of a provider locks provider, profiles. Only circles with
  a repair can form, and PostgreSQL breaks them; the repair also holds its locks across its second probe of Qdrant. The freeze is sound although
  generations copy from unlocked reads, because the copy is compared again under foreign-key locks.
- Access control: creating a knowledge base bumps the agent key's revision, which is why a stale scope `PATCH` fails instead of dropping the new grant.
  Reads are not validated again against a revocation.
- Worker: slots detached at the drain timeout may still run while clients and database are closed; closes that depend on a task which ignores its cancellation are
  skipped, although `_bounded_worker_cleanup` says it attempts every cleanup. The branch of the notification gate for a read that is still running cannot be reached from the runner's loop.
- Object store: an SDK failure while the caller's stream hangs in `aclose` is reported as `UPLOAD_STREAM_FAILED`, which is not retryable.
- Uploads: a cancellation inside `_send` of the multipart queue leaves its put task behind, which is harmless (`ingestion/services.py:366`).
- Retrieval: a reranker may return a partial ranking, and hidden points beyond `candidate_limit - top_k` take the place of visible ones, so an answer can hold fewer than `top_k`
  results. The degraded flag that `_apply_rerank` speaks of is not in the response. A cancellation during the write of the query log loses the row.
  With `_MAX_ATTEMPT_OBSERVER_TASKS` reports in flight, all of them healthy, the next attempt is not recorded at all, and nothing says so (`providers/embeddings.py:998`).

## 7. What the models leave out

Inside the modelled components: heartbeat intervals and backoff lengths (any delay is allowed); the paging cursors of both reconcilers;
bytes, checksums, texts, chunk boundaries, scores and vectors (an artifact is there and verified or not); the wording of errors except where a
property or a retry decision depends on the code; encryption, tokens and HMACs; metrics and logs.

Not modelled, with the reason:

- HTTP layer and middleware: routing, error bodies, body limits, settings; nothing outlives a request. What a client can do to a service call
  (leave, repeat, send something else) is in the modules.
- Parsers, chunkers, artifact encodings, upload validation: pure functions over bytes and text; the pipeline treats their results as data, and what they refuse is a choice.
- Provider transport and network policy: address classification and pinned connections; a provider's call is a step that answers, fails or is cut off.
- Readiness and dependency probes: independent bounded calls without durable state.
- Administration and development tools, MCP server: clients of the HTTP interface and one-shot scripts.
- Migrations: run once, before the service; the schema they make is the modules' state, its constraints their guards.
- Read-only queries, and `create_admin_key`, which adds a row nobody shares.

## 8. Mutants

Every property of a run has a faulty variant of a mapped definition that breaks it under the run's own configuration, for example
a release after the handler started (`ReleaseStarted`), a fence that compares the epoch alone (`FenceIdentityOnly`), a batch that commits its index state without the job's progress (`CheckpointJobLate`), a multipart parser that waits for room in the queue without looking at the upload
(`UploadFailedLate`), and an activation that does not look at the claim again (`ActivateUnchecked`). `PROJECT.json` lists them all.

## 9. Plan

Every component whose state has a protocol is modelled, and the safety of all of them is proved for all constants. What is left rests on TLC and its bounds: liveness. Backoff and the paging cursors of the reconcilers
could be checked as operators against reference definitions, and the parsers and chunkers, pure functions over text, belong to property-based tests.
