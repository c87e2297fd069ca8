----------------------- MODULE DocumentIngestionProofs ----------------------
(***************************************************************************)
(* Proofs about the ingestion pipeline, for any number of workers, manual  *)
(* retries, attempts and chunks.                                           *)
(***************************************************************************)
EXTENDS DocumentIngestion, FiniteSetTheorems, TLAPS

USE JobIdsAssumption, SizesAssumption

\* Job n is the newest: the ones before it have failed, and settle with the
\* document, which is what became of job n.
Newest(n) ==
  /\ \A j \in JobIds : /\ j < n => jobs[j].status = "failed"
                       /\ j > n => jobs[j].status = "absent" /\ jobs[j].epoch = 0
  /\ doc = "processing" => \/ jobs[n].status \in Unsettled
                           \/ jobs[n].status = "failed" /\ jobs[n].error = "handler"
  /\ doc = "active" => jobs[n].status = "succeeded"
  /\ doc = "failed" => jobs[n].status = "failed"

\* What the stages before the newest job's have left, and nothing else.
FactsMatch(n) ==
  LET r == jobs[n] IN
  /\ r.stage \notin {"parse", "chunk"} => version.parsed /\ version.manifest
  /\ r.stage \in {"parse", "chunk"} =>
       /\ r.progress = 0 /\ ~version.manifest
       /\ state.actual = None /\ state.next = 0 /\ ~state.validated
  /\ r.stage = "parse" => ~version.parsed
  /\ r.stage = "chunk" => version.parsed
  /\ r.stage = "embed_index" =>
       r.progress = state.next /\ state.actual = None /\ ~state.validated
  /\ r.stage = "validate" =>
       /\ state.next = ChunkCount /\ r.progress = ChunkCount /\ ~state.validated
       /\ state.actual \in {None, ChunkCount}
  /\ r.stage = "activate" =>
       /\ state.next = ChunkCount /\ r.progress = ChunkCount /\ state.validated
       /\ state.actual = ChunkCount

\* The statuses an unsettled job goes on from.
StatusMatch(n) ==
  LET stage == jobs[n].stage IN
  /\ stage = "parse" => version.status \in {"uploaded", "parsing"} /\ state.status = "queued"
  /\ stage = "chunk" => version.status = "chunking" /\ state.status = "queued"
  /\ stage = "embed_index" /\ state.next = 0 =>
       version.status = "embedding" /\ state.status = "embedding"
  /\ stage = "embed_index" /\ state.next # 0 =>
       version.status = "indexing" /\ state.status = "indexing"
  /\ stage = "validate" => version.status = "indexing" /\ state.status = "indexing"
  /\ stage = "activate" => version.status = "indexing" /\ state.status = "validated"

\* The stage of each step, what it has read, and what is in the store or in
\* Qdrant when it commits.
HolderMatches(w) ==
  LET r == workers[w] IN
  /\ r.stage = Job(w).stage
  /\ r.pc = "started" => r.stage = "parse"
  /\ r.pc \in {"publish", "commit"} =>
       /\ r.stage \in {"parse", "chunk"}
       /\ r.stage = "parse" => version.status = "parsing" /\ r.exp.version.status = "parsing"
  /\ r.pc = "commit" =>
       OutputOf(r.stage) \in objects \/ copies[OutputOf(r.stage)] = "cleaned"
  /\ r.pc \in {"upsert", "checkpoint"} =>
       /\ r.stage = "embed_index" /\ r.exp.version = version
       /\ r.exp.state.status = state.status /\ r.exp.state.next = state.next
  /\ r.pc = "upsert" => r.batch = state.next
  /\ r.pc = "checkpoint" =>
       /\ state.next < r.batch \/ (state.next = ChunkCount /\ r.batch = ChunkCount)
       /\ \A c \in Chunks : c < r.batch => c \in points
  /\ r.pc \in {"count", "commitCount", "verify", "commitValidated"} => r.stage = "validate"
  /\ r.pc \in {"commitCount", "verify", "commitValidated"} => r.counted = ChunkCount
  /\ r.pc \in {"verify", "commitValidated"} => state.actual = ChunkCount
  /\ r.pc = "activating" => r.stage = "activate"
  /\ r.cause = "conflict" => kb # "active"

\* A lease has one holder at most, and none that a later claim has not ended.
LeasesApart ==
  /\ \A w \in Workers : workers[w].pc # "idle" => workers[w].epoch <= Job(w).epoch
  /\ \A v, w \in Workers :
       /\ workers[v].pc # "idle" /\ workers[w].pc # "idle"
       /\ workers[v].job = workers[w].job /\ workers[v].epoch = workers[w].epoch
       => v = w

\* The story job n tells.
Story(n) ==
  /\ Newest(n)
  /\ doc # "active" => FactsMatch(n)
  /\ jobs[n].status \in Unsettled => StatusMatch(n)

IInv ==
  /\ TypeOK /\ OnlyLateCleanupLoses /\ CheckpointBacked /\ LeasesApart
  /\ \E n \in JobIds : Story(n)
  /\ \A w \in Workers : Holds(w) => HolderMatches(w)

-----------------------------------------------------------------------------
(* What the proofs of the steps share.                                      *)

LEMMA IdleOK == Idle \in Worker /\ Idle.pc = "idle"
BY DEF Idle, Worker, Pc, Stages, Loaded, NewVersion, NewState, VersionRow, StateRow, None

\* A step replaces the record of one worker.
LEMMA PutEffect ==
  ASSUME TypeOK, NEW w \in Workers, NEW v \in Worker, Put(w, v)
  PROVE  /\ workers' \in [Workers -> Worker]
         /\ \A u \in Workers : workers'[u] = IF u = w THEN v ELSE workers[u]
BY DEF TypeOK, Put

LEMMA WorkerFields ==
  ASSUME TypeOK, NEW w \in Workers
  PROVE  /\ workers[w] \in Worker /\ workers[w].pc \in Pc /\ workers[w].job \in JobIds
         /\ workers[w].epoch \in Nat /\ workers[w].attempt \in 0 .. MaxAttempts
         /\ workers[w].stage \in Stages /\ workers[w].exp \in Loaded
         /\ workers[w].batch \in 0 .. ChunkCount /\ workers[w].counted \in 0 .. None
         /\ workers[w].retryable \in BOOLEAN
         /\ Job(w) \in JobRow /\ Job(w).epoch \in Nat /\ Job(w).stage \in Stages
BY DEF TypeOK, Worker, Job, JobRow

LEMMA JobFields ==
  ASSUME TypeOK, NEW j \in JobIds
  PROVE  /\ jobs[j] \in JobRow
         /\ jobs[j].status \in Unsettled \cup {"absent", "succeeded", "failed"}
         /\ jobs[j].epoch \in Nat /\ jobs[j].attempt \in 0 .. MaxAttempts
         /\ jobs[j].stage \in Stages /\ jobs[j].progress \in 0 .. ChunkCount
BY DEF TypeOK, JobRow

\* A job that has failed for good is a row, and keeps its place and its progress.
LEMMA TerminatedFields ==
  ASSUME NEW q \in JobRow, NEW retryable \in BOOLEAN, NEW error \in {"stage", "exhausted", "handler"}
  PROVE  LET r == Terminated(q, retryable, error)
         IN /\ r \in JobRow /\ r.status = "failed" /\ r.error = error /\ r.epoch = q.epoch
            /\ r.stage = q.stage /\ r.progress = q.progress
BY DEF Terminated, JobRow

\* Worker w at a stage of its lease.
LEMMA AtStageFields ==
  ASSUME TypeOK, NEW w \in Workers, NEW stage \in Stages
  PROVE  /\ AtStage(w, stage) \in Worker
         /\ AtStage(w, stage).job = workers[w].job /\ AtStage(w, stage).epoch = workers[w].epoch
         /\ AtStage(w, stage).attempt = workers[w].attempt /\ AtStage(w, stage).stage = stage
         /\ AtStage(w, stage).pc = "idle" /\ AtStage(w, stage).cause = "none"
<1>1. /\ workers[w].job \in JobIds /\ workers[w].epoch \in Nat
      /\ workers[w].attempt \in 0 .. MaxAttempts
  BY WorkerFields
<1>2. Idle \in Worker
  BY IdleOK
<1>3. AtStage(w, stage) \in Worker
  BY <1>1, <1>2 DEF AtStage, Worker
<1>4. Idle.cause = "none" /\ Idle.pc = "idle"
  BY DEF Idle
<1> QED
  BY <1>2, <1>3, <1>4 DEF AtStage, Worker

\* Only the newest job can be unsettled.
LEMMA UnsettledIsNewest ==
  ASSUME TypeOK, NEW n \in JobIds, Newest(n), NEW j \in JobIds, jobs[j].status \in Unsettled
  PROVE  j = n /\ doc = "processing"
<1>1. n \in Nat /\ j \in Nat
  OBVIOUS
<1>2. j = n
  BY <1>1 DEF Newest, Unsettled
<1> QED
  BY <1>2 DEF Newest, Unsettled, TypeOK

\* What the holder of a lease can rely on.
LEMMA HolderFacts ==
  ASSUME IInv, NEW w \in Workers, Holds(w)
  PROVE  /\ Story(workers[w].job) /\ Newest(workers[w].job)
         /\ jobs[workers[w].job].status = "running"
         /\ doc = "processing" /\ FactsMatch(workers[w].job) /\ StatusMatch(workers[w].job)
         /\ HolderMatches(w)
<1>1. PICK n \in JobIds : Story(n)
  BY DEF IInv
<1>2. workers[w].job \in JobIds /\ jobs[workers[w].job].status = "running"
  BY WorkerFields DEF Holds, Job, IInv
<1>3. workers[w].job = n /\ doc = "processing"
  BY <1>1, <1>2, UnsettledIsNewest DEF Story, IInv, Unsettled
<1> QED
  BY <1>1, <1>2, <1>3 DEF Story, IInv, Unsettled

-----------------------------------------------------------------------------
(* Four kinds of steps.                                                     *)

\* An artifact somebody relies on: referenced, or published by the holder of a
\* lease that is about to reference it.
Needed(o) ==
  \/ Referenced(o)
  \/ \E w \in Workers : Holds(w) /\ workers[w].pc = "commit" /\ OutputOf(workers[w].stage) = o

\* What is needed is not taken away but by a late cleanup, and points only come.
ExternalKept ==
  /\ objects' \subseteq {"source"} \cup Artifacts
  /\ copies' \in [Artifacts -> {"none", "copying", "copied", "cleaned"}]
  /\ \A o \in Artifacts : /\ Needed(o) /\ o \in objects => o \in objects' \/ copies'[o] = "cleaned"
                          /\ copies[o] = "cleaned" => copies'[o] = "cleaned"
  /\ points \subseteq points' /\ points' \subseteq Chunks

\* No row and no worker changes.
LEMMA StepExternal ==
  ASSUME IInv, UNCHANGED <<domain, jobs, workers>>, ExternalKept
  PROVE  IInv'
<1> USE DEF domain
<1>1. TypeOK'
  BY DEF IInv, TypeOK, ExternalKept
<1>2. OnlyLateCleanupLoses'
  BY DEF IInv, OnlyLateCleanupLoses, Referenced, ExternalKept, Needed
<1>3. CheckpointBacked'
  BY DEF IInv, CheckpointBacked, ExternalKept
<1>4. LeasesApart'
  BY DEF IInv, LeasesApart, Job
<1>5. \E n \in JobIds : Story(n)'
  BY DEF IInv, Story, Newest, FactsMatch, StatusMatch
<1>6. ASSUME NEW w \in Workers, Holds(w)' PROVE HolderMatches(w)'
  <2>1. Holds(w)
    BY <1>6 DEF Holds, Job
  <2>2. HolderMatches(w)
    BY <2>1 DEF IInv
  <2>3. workers[w].stage \in {"parse", "chunk"} => OutputOf(workers[w].stage) \in Artifacts
    BY DEF OutputOf, Artifacts
  <2>4. workers[w].pc = "commit" =>
          (OutputOf(workers[w].stage) \in objects \/ copies[OutputOf(workers[w].stage)] = "cleaned")'
    BY <2>1, <2>2, <2>3 DEF HolderMatches, ExternalKept, Needed, OutputOf
  <2> QED
    BY <2>2, <2>4 DEF HolderMatches, Job, ExternalKept
<1> QED
  BY <1>1, <1>2, <1>3, <1>4, <1>5, <1>6 DEF IInv

\* One worker goes on under its lease, or ends.
LEMMA StepWorker ==
  ASSUME IInv, NEW w \in Workers, NEW v \in Worker, Put(w, v),
         v.pc # "idle" => /\ workers[w].pc # "idle"
                          /\ v.job = workers[w].job /\ v.epoch = workers[w].epoch,
         UNCHANGED <<domain, jobs>>, ExternalKept,
         Holds(w) /\ v.pc # "idle" => HolderMatches(w)'
  PROVE  IInv'
<1> USE DEF domain
<1>0. /\ workers' \in [Workers -> Worker]
      /\ \A u \in Workers : workers'[u] = IF u = w THEN v ELSE workers[u]
  BY PutEffect DEF IInv
<1>1. TypeOK'
  BY <1>0 DEF IInv, TypeOK, ExternalKept
<1>2. OnlyLateCleanupLoses'
  BY DEF IInv, OnlyLateCleanupLoses, Referenced, ExternalKept, Needed
<1>3. CheckpointBacked'
  BY DEF IInv, CheckpointBacked, ExternalKept
<1>4. LeasesApart'
  <2>1. \A u \in Workers : workers'[u].pc # "idle" =>
          /\ workers[u].pc # "idle"
          /\ workers'[u].job = workers[u].job /\ workers'[u].epoch = workers[u].epoch
    BY <1>0
  <2> QED
    BY <2>1 DEF IInv, LeasesApart, Job
<1>5. \E n \in JobIds : Story(n)'
  <2>1. PICK n \in JobIds : Story(n)
    BY DEF IInv
  <2>2. Story(n)'
    BY <2>1 DEF Story, Newest, FactsMatch, StatusMatch
  <2> QED
    BY <2>2
<1>6. ASSUME NEW u \in Workers, Holds(u)' PROVE HolderMatches(u)'
  <2>1. CASE u = w
    <3>1. Holds(w) /\ v.pc # "idle"
      BY <1>0, <1>6, <2>1 DEF Holds, Job
    <3> QED
      BY <2>1, <3>1
  <2>2. CASE u # w
    <3>1. workers'[u] = workers[u]
      BY <1>0, <2>2
    <3>2. Holds(u)
      BY <3>1, <1>6 DEF Holds, Job
    <3>3. HolderMatches(u)
      BY <3>2 DEF IInv
    <3>4. workers[u].pc = "commit" =>
            OutputOf(workers[u].stage) \in objects' \/ copies'[OutputOf(workers[u].stage)] = "cleaned"
      <4>1. workers[u].stage \in {"parse", "chunk"} => OutputOf(workers[u].stage) \in Artifacts
        BY DEF OutputOf, Artifacts
      <4> QED
        BY <3>2, <3>3, <4>1 DEF HolderMatches, ExternalKept, Needed
    <3> QED
      BY <3>1, <3>3, <3>4 DEF HolderMatches, Job, ExternalKept
  <2> QED
    BY <2>1, <2>2
<1> QED
  BY <1>1, <1>2, <1>3, <1>4, <1>5, <1>6 DEF IInv

\* The holder of a lease commits rows and job together, and goes on or ends.
LEMMA StepCommit ==
  ASSUME IInv, NEW w \in Workers, NEW v \in Worker, NEW r \in JobRow,
         NEW n \in JobIds, n = workers[w].job, Holds(w), SetJob(w, r), Put(w, v), r.epoch = Job(w).epoch,
         v.pc # "idle" => v.job = workers[w].job /\ v.epoch = workers[w].epoch,
         doc' \in {"processing", "active", "failed"}, version' \in VersionRow,
         state' \in StateRow, UNCHANGED <<kb, external>>,
         OnlyLateCleanupLoses', CheckpointBacked',
         Story(n)', v.pc # "idle" => HolderMatches(w)'
  PROVE  IInv'
<1> USE DEF external
<1>0. /\ workers' \in [Workers -> Worker]
      /\ \A u \in Workers : workers'[u] = IF u = w THEN v ELSE workers[u]
  BY PutEffect DEF IInv
<1>1. workers[w].epoch \in Nat /\ workers[w].epoch = Job(w).epoch
  BY WorkerFields DEF IInv, Holds
<1>2. /\ jobs' \in [JobIds -> JobRow]
      /\ \A j \in JobIds : jobs'[j] = IF j = n THEN r ELSE jobs[j]
  BY <1>1 DEF SetJob, IInv, TypeOK
<1>3. \A j \in JobIds : jobs'[j].epoch = jobs[j].epoch
  BY <1>2 DEF Job
<1>4. TypeOK'
  BY <1>0, <1>2 DEF IInv, TypeOK
<1>5. LeasesApart'
  <2>1. \A u \in Workers : workers'[u].pc # "idle" =>
          /\ workers[u].pc # "idle" /\ workers[u].job \in JobIds
          /\ workers'[u].job = workers[u].job /\ workers'[u].epoch = workers[u].epoch
    BY <1>0, WorkerFields DEF Holds, IInv
  <2>2. ASSUME NEW u \in Workers, workers'[u].pc # "idle" PROVE workers'[u].epoch <= Job(u)'.epoch
    <3>1. workers[u].epoch <= jobs[workers[u].job].epoch
      BY <2>1, <2>2 DEF IInv, LeasesApart, Job
    <3>2. Job(u)'.epoch = jobs[workers[u].job].epoch
      BY <2>1, <2>2, <1>3 DEF Job
    <3> QED
      BY <2>1, <2>2, <3>1, <3>2
  <2> QED
    BY <2>1, <2>2 DEF IInv, LeasesApart
<1>6. ASSUME NEW u \in Workers, Holds(u)' PROVE HolderMatches(u)'
  <2>1. u = w
    <3>1. SUFFICES ASSUME u # w PROVE FALSE
      OBVIOUS
    <3>2. workers'[u] = workers[u] /\ workers[u].job \in JobIds
      BY <1>0, <3>1, WorkerFields DEF IInv
    <3>3. workers[u].pc # "idle" /\ jobs'[workers[u].job].status = "running"
          /\ jobs[workers[u].job].epoch = workers[u].epoch
      BY <3>2, <1>3, <1>6 DEF Holds, Job
    <3>4. workers[u].job = n
      <4>1. Newest(n)
        BY HolderFacts
      <4>2. workers[u].job # n => jobs[workers[u].job].status \in Unsettled
        BY <3>2, <3>3, <1>2 DEF Unsettled
      <4> QED
        BY <4>1, <4>2, <3>2, <1>1, UnsettledIsNewest DEF IInv
    <3>5. workers[u].epoch = workers[w].epoch
      BY <3>3, <3>4, <1>1 DEF Job
    <3> QED
      BY <3>1, <3>3, <3>4, <3>5 DEF IInv, LeasesApart, Holds
  <2>2. v.pc # "idle"
    BY <2>1, <1>0, <1>6 DEF Holds
  <2> QED
    BY <2>1, <2>2
<1> QED
  BY <1>4, <1>5, <1>6 DEF IInv

\* The newest job settles or waits: alone, or with the document.
LEMMA StepSettles ==
  ASSUME IInv, NEW n \in JobIds, jobs[n].status \in Unsettled, NEW r \in JobRow,
         jobs' = [jobs EXCEPT ![n] = r], r.epoch = jobs[n].epoch,
         r.stage = jobs[n].stage, r.progress = jobs[n].progress,
         \/ /\ r.status = "retry_wait" \/ (r.status = "failed" /\ r.error = "handler")
            /\ UNCHANGED <<doc, version, state>>
         \/ r.status = "failed" /\ ApplyTerminalFailure,
         workers' \in [Workers -> Worker],
         \A u \in Workers : workers'[u].pc # "idle" => workers'[u] = workers[u],
         UNCHANGED <<kb, external>>
  PROVE  IInv'
<1> USE DEF external
<1>1. Story(n) /\ doc = "processing" /\ Newest(n)
  <2>1. PICK m \in JobIds : Story(m)
    BY DEF IInv
  <2>2. n = m /\ doc = "processing"
    BY <2>1, UnsettledIsNewest DEF IInv, Story
  <2> QED
    BY <2>1, <2>2 DEF Story
<1>2. /\ jobs' \in [JobIds -> JobRow]
      /\ \A j \in JobIds : jobs'[j] = IF j = n THEN r ELSE jobs[j]
  BY DEF IInv, TypeOK
<1>3. \/ /\ r.status = "retry_wait" \/ (r.status = "failed" /\ r.error = "handler")
         /\ UNCHANGED <<doc, version, state>>
      \/ /\ r.status = "failed" /\ doc' = "failed"
         /\ version' = [version EXCEPT !.status = "failed"]
         /\ state' = [state EXCEPT !.status = "failed"]
  BY <1>1 DEF ApplyTerminalFailure
<1>4. /\ version' \in VersionRow /\ version'.parsed = version.parsed
      /\ version'.manifest = version.manifest
      /\ state' \in StateRow /\ state'.actual = state.actual /\ state'.next = state.next
      /\ state'.validated = state.validated
  BY <1>3 DEF IInv, TypeOK, VersionRow, StateRow
<1>5. TypeOK'
  BY <1>2, <1>3, <1>4 DEF IInv, TypeOK
<1>6. OnlyLateCleanupLoses' /\ CheckpointBacked'
  BY <1>4 DEF IInv, OnlyLateCleanupLoses, Referenced, CheckpointBacked
<1>7. LeasesApart'
  <2>1. \A j \in JobIds : jobs'[j].epoch = jobs[j].epoch
    BY <1>2
  <2>2. \A u \in Workers : workers[u].job \in JobIds
    BY WorkerFields DEF IInv
  <2> QED
    BY <2>1, <2>2 DEF IInv, LeasesApart, Job
<1>8. Story(n)'
  <2>1. Newest(n)'
    BY <1>1, <1>2, <1>3 DEF Newest, Unsettled
  <2>2. FactsMatch(n)'
    BY <1>1, <1>2, <1>4 DEF Story, FactsMatch
  <2>3. jobs'[n].status \in Unsettled => StatusMatch(n)'
    BY <1>1, <1>2, <1>3 DEF Story, StatusMatch, Unsettled
  <2> QED
    BY <2>1, <2>2, <2>3 DEF Story
<1>9. ASSUME NEW u \in Workers, Holds(u)' PROVE FALSE
  <2>1. workers'[u] = workers[u] /\ workers[u].job \in JobIds
    BY <1>9, WorkerFields DEF Holds, IInv
  <2>2. jobs'[workers[u].job].status = "running"
    BY <2>1, <1>9 DEF Holds, Job
  <2>3. workers[u].job # n /\ jobs[workers[u].job].status = "running"
    BY <2>1, <2>2, <1>2, <1>3
  <2> QED
    BY <2>1, <2>3, <1>1, UnsettledIsNewest DEF IInv, Unsettled
<1> QED
  BY <1>5, <1>6, <1>7, <1>8, <1>9 DEF IInv

-----------------------------------------------------------------------------
(* The actions.                                                             *)

\* Nothing happens outside PostgreSQL.
LEMMA ExternalSame ==
  ASSUME IInv, UNCHANGED external
  PROVE  ExternalKept
BY DEF IInv, TypeOK, external, ExternalKept

\* Whoever holds the fence holds the lease.
LEMMA FenceHolds ==
  ASSUME NEW w \in Workers, StageFence(w), workers[w].pc # "idle"
  PROVE  Holds(w)
BY DEF StageFence, Holds

\* A worker ends and writes nothing.
LEMMA StepIdle ==
  ASSUME IInv, NEW w \in Workers, Put(w, Idle), UNCHANGED <<domain, jobs, external>>
  PROVE  IInv'
BY StepWorker, IdleOK, ExternalSame

\* An error leaves the stage: nothing is known of the rows any more, and it is a
\* conflict only on a knowledge base that is not active.
LEMMA StepRaise ==
  ASSUME IInv, NEW w \in Workers, workers[w].pc # "idle",
         NEW retryable \in BOOLEAN, NEW cause \in {"external", "conflict"},
         Raise(w, retryable, cause), UNCHANGED <<domain, jobs>>, ExternalKept,
         Holds(w) /\ cause = "conflict" => kb # "active"
  PROVE  IInv'
<1> DEFINE a == AtStage(w, workers[w].stage)
           pc == IF retryable /\ workers[w].attempt < MaxAttempts THEN "raising" ELSE "failing"
           v == [a EXCEPT !.pc = pc, !.retryable = retryable, !.cause = cause]
<1>1. /\ a \in Worker /\ a.job = workers[w].job /\ a.epoch = workers[w].epoch
      /\ a.stage = workers[w].stage
  BY WorkerFields, AtStageFields DEF IInv
<1> HIDE DEF a
<1>2. pc \in {"raising", "failing"}
  OBVIOUS
<1>3. Put(w, v)
  BY DEF Raise, a
<1> HIDE DEF pc
<1>4. v \in Worker
  <2>1. pc \in Pc
    BY <1>2 DEF Pc
  <2> QED
    BY <1>1, <2>1 DEF Worker
<1>5. /\ v.pc = pc /\ v.cause = cause /\ v.job = workers[w].job /\ v.epoch = workers[w].epoch
      /\ v.stage = workers[w].stage
  BY <1>1 DEF Worker
<1> HIDE DEF v
<1>6. workers'[w] = v
  BY <1>3, <1>4, PutEffect DEF IInv
<1>7. Holds(w) => HolderMatches(w)'
  <2>1. SUFFICES ASSUME Holds(w) PROVE HolderMatches(w)'
    OBVIOUS
  <2>2. workers[w].stage = Job(w).stage
    BY <2>1 DEF IInv, HolderMatches
  <2>3. workers'[w].stage = Job(w)'.stage
    BY <2>2, <1>5, <1>6 DEF Job, domain
  <2> QED
    BY <2>1, <2>3, <1>2, <1>5, <1>6 DEF HolderMatches, domain
<1> QED
  BY <1>3, <1>4, <1>5, <1>7, StepWorker

\* A fenced transaction that does not commit: the lease is gone, or the rows do
\* not match, which happens on a knowledge base that is not active only.
LEMMA StepUncommitted ==
  ASSUME IInv, NEW w \in Workers, workers[w].pc # "idle", UNCHANGED external,
         \/ ~StageFence(w) /\ Put(w, Idle) /\ UNCHANGED <<domain, jobs>>
         \/ /\ StageFence(w) /\ kb # "active"
            /\ Conflict(w) /\ UNCHANGED <<domain, jobs>>
  PROVE  IInv'
<1>1. CASE ~StageFence(w) /\ Put(w, Idle) /\ UNCHANGED <<domain, jobs>>
  BY <1>1, StepIdle
<1>2. CASE kb # "active" /\ Conflict(w) /\ UNCHANGED <<domain, jobs>>
  BY <1>2, StepRaise, ExternalSame DEF Conflict
<1> QED
  BY <1>1, <1>2

\* The holder's record after a step that changes its place alone.
LEMMA GotoFields ==
  ASSUME TypeOK, NEW w \in Workers, NEW pc \in Pc, Goto(w, pc)
  PROVE  /\ [workers[w] EXCEPT !.pc = pc] \in Worker
         /\ workers'[w] = [workers[w] EXCEPT !.pc = pc]
         /\ workers'[w].pc = pc /\ workers'[w].job = workers[w].job
         /\ workers'[w].epoch = workers[w].epoch /\ workers'[w].stage = workers[w].stage
         /\ workers'[w].exp = workers[w].exp /\ workers'[w].batch = workers[w].batch
         /\ workers'[w].counted = workers[w].counted /\ workers'[w].cause = workers[w].cause
<1>1. workers[w] \in Worker
  BY WorkerFields
<1>2. [workers[w] EXCEPT !.pc = pc] \in Worker
  BY <1>1 DEF Worker
<1>3. workers'[w] = [workers[w] EXCEPT !.pc = pc]
  BY <1>2, PutEffect DEF Goto
<1> QED
  BY <1>1, <1>2, <1>3 DEF Worker

\* The errors that leave a stage, a crash and a lost object.
LEMMA ActErrors ==
  ASSUME IInv, NEW w \in Workers,
         \/ \E retryable \in BOOLEAN : StageError(w, retryable)
         \/ ObjectMissing(w) \/ Crash(w)
  PROVE  IInv'
<1>1. CASE \E retryable \in BOOLEAN : StageError(w, retryable)
  <2>1. PICK retryable \in BOOLEAN : StageError(w, retryable)
    BY <1>1
  <2>2. UNCHANGED external /\ UNCHANGED <<domain, jobs>> /\ workers[w].pc # "idle"
        /\ Raise(w, retryable, "external")
    BY <2>1 DEF StageError
  <2>3. ExternalKept
    BY <2>2, ExternalSame
  <2> QED
    BY <2>2, <2>3, StepRaise
<1>2. CASE ObjectMissing(w)
  <2>2. UNCHANGED external /\ UNCHANGED <<domain, jobs>> /\ workers[w].pc # "idle"
        /\ Raise(w, FALSE, "external")
    BY <1>2 DEF ObjectMissing
  <2>3. ExternalKept
    BY <2>2, ExternalSame
  <2> QED
    BY <2>2, <2>3, StepRaise
<1>3. CASE Crash(w)
  BY <1>3, StepIdle DEF Crash
<1> QED
  BY <1>1, <1>2, <1>3

\* The job fails, with the document or alone, or waits for its next attempt.
LEMMA ActFailures ==
  ASSUME IInv, NEW w \in Workers,
         \/ TerminalFailure(w) \/ RecordRetryable(w) \/ UnexpectedError(w)
         \/ \E j \in JobIds : ExhaustedFailure(w, j)
  PROVE  IInv'
<1>0. TypeOK /\ workers \in [Workers -> Worker]
  BY DEF IInv, TypeOK
<1>1. Put(w, Idle) => /\ workers' \in [Workers -> Worker]
                      /\ \A u \in Workers : workers'[u].pc # "idle" => workers'[u] = workers[u]
  BY <1>0, IdleOK, PutEffect
<1>2. workers[w].job \in JobIds /\ Job(w) \in JobRow /\ Job(w) = jobs[workers[w].job]
  BY <1>0, WorkerFields DEF Job
<1>3. CASE TerminalFailure(w)
  <2>1. CASE StageFence(w)
    <3> DEFINE r == Terminated(Job(w), workers[w].retryable, "stage")
    <3>1. /\ r \in JobRow /\ r.status = "failed" /\ r.epoch = Job(w).epoch
          /\ r.stage = Job(w).stage /\ r.progress = Job(w).progress
      BY <1>0, <1>2, WorkerFields, TerminatedFields
    <3>2. jobs' = [jobs EXCEPT ![workers[w].job] = r] /\ ApplyTerminalFailure
      BY <1>3, <2>1 DEF TerminalFailure, SetJob
    <3> HIDE DEF r
    <3>3. jobs[workers[w].job].status \in Unsettled
      BY <2>1 DEF StageFence, Job, Unsettled
    <3> QED
      BY <1>1, <1>2, <1>3, <3>1, <3>2, <3>3, StepSettles DEF TerminalFailure
  <2>2. CASE ~StageFence(w)
    BY <1>3, <2>2, StepIdle DEF TerminalFailure, domain
  <2> QED
    BY <2>1, <2>2
<1>4. CASE RecordRetryable(w)
  <2>1. CASE Job(w).epoch = workers[w].epoch /\ Job(w).status = "running" /\ Job(w).live
    <3> DEFINE r == [Job(w) EXCEPT !.status = "retry_wait", !.live = FALSE,
                                   !.retryable = TRUE, !.error = "stage"]
    <3>1. /\ r \in JobRow /\ r.status = "retry_wait" /\ r.epoch = Job(w).epoch
          /\ r.stage = Job(w).stage /\ r.progress = Job(w).progress
      BY <1>2 DEF JobRow, Unsettled
    <3>2. jobs' = [jobs EXCEPT ![workers[w].job] = r] /\ UNCHANGED <<doc, version, state>>
      BY <1>4, <2>1 DEF RecordRetryable, SetJob, domain
    <3> HIDE DEF r
    <3>3. jobs[workers[w].job].status \in Unsettled
      BY <2>1, <1>2 DEF Unsettled
    <3> QED
      BY <1>1, <1>2, <1>4, <3>1, <3>2, <3>3, StepSettles DEF RecordRetryable, domain
  <2>2. CASE ~(Job(w).epoch = workers[w].epoch /\ Job(w).status = "running" /\ Job(w).live)
    BY <1>4, <2>2, StepIdle DEF RecordRetryable
  <2> QED
    BY <2>1, <2>2
<1>5. CASE UnexpectedError(w)
  <2> DEFINE r == Terminated(Job(w), FALSE, "handler")
  <2>1. /\ r \in JobRow /\ r.status = "failed" /\ r.error = "handler" /\ r.epoch = Job(w).epoch
        /\ r.stage = Job(w).stage /\ r.progress = Job(w).progress
    BY <1>2, TerminatedFields
  <2>2. jobs' = [jobs EXCEPT ![workers[w].job] = r] /\ UNCHANGED <<doc, version, state>>
    BY <1>5 DEF UnexpectedError, SetJob, domain
  <2> HIDE DEF r
  <2>3. jobs[workers[w].job].status \in Unsettled
    BY <1>5, <1>2 DEF UnexpectedError, Unsettled
  <2> QED
    BY <1>1, <1>2, <1>5, <2>1, <2>2, <2>3, StepSettles DEF UnexpectedError, domain
<1>6. CASE \E j \in JobIds : ExhaustedFailure(w, j)
  <2>1. PICK j \in JobIds : ExhaustedFailure(w, j)
    BY <1>6
  <2> DEFINE r == Terminated(jobs[j], FALSE, "exhausted")
  <2>2. /\ r \in JobRow /\ r.status = "failed" /\ r.epoch = jobs[j].epoch
        /\ r.stage = jobs[j].stage /\ r.progress = jobs[j].progress
    BY <1>0, JobFields, TerminatedFields
  <2>3. jobs' = [jobs EXCEPT ![j] = r] /\ ApplyTerminalFailure
    BY <2>1 DEF ExhaustedFailure
  <2> HIDE DEF r
  <2>4. jobs[j].status \in Unsettled
    BY <2>1 DEF ExhaustedFailure, Claimable, Unsettled
  <2>5. workers' = workers /\ UNCHANGED <<kb, external>>
    BY <2>1 DEF ExhaustedFailure
  <2> QED
    BY <1>0, <2>2, <2>3, <2>4, <2>5, StepSettles
<1> QED
  BY <1>3, <1>4, <1>5, <1>6

\* A claim takes the newest job over, in the stage it has come to, and ends every
\* earlier lease on it.
LEMMA ActClaim ==
  ASSUME IInv, NEW w \in Workers, NEW j \in JobIds, Claim(w, j)
  PROVE  IInv'
<1>0. TypeOK /\ jobs[j] \in JobRow /\ jobs[j].epoch \in Nat /\ jobs[j].attempt \in 0 .. MaxAttempts
      /\ jobs[j].stage \in Stages
  BY JobFields DEF IInv
<1>a. UNCHANGED <<domain, external>> /\ jobs[j].attempt < MaxAttempts
  BY DEF Claim
<1>b. jobs[j].epoch + 1 \in Nat /\ jobs[j].attempt + 1 \in 0 .. MaxAttempts
  BY <1>0, <1>a
<1>1. Story(j) /\ doc = "processing" /\ jobs[j].status \in Unsettled
  <2>1. PICK m \in JobIds : Story(m)
    BY DEF IInv
  <2>2. jobs[j].status \in Unsettled
    BY DEF Claim, Claimable, Unsettled
  <2> QED
    BY <2>1, <2>2, <1>0, UnsettledIsNewest DEF Story
<1> DEFINE r == [jobs[j] EXCEPT !.status = "running", !.live = TRUE, !.epoch = @ + 1,
                                !.attempt = @ + 1, !.error = "none"]
           v == [Idle EXCEPT !.pc = "load", !.job = j, !.epoch = jobs[j].epoch + 1,
                             !.attempt = jobs[j].attempt + 1, !.stage = jobs[j].stage]
<1>2. /\ r \in JobRow /\ r.status = "running" /\ r.epoch = jobs[j].epoch + 1
      /\ r.stage = jobs[j].stage /\ r.progress = jobs[j].progress
  BY <1>0, <1>b DEF JobRow, Unsettled
<1>3. jobs' = [jobs EXCEPT ![j] = r]
  BY <1>0 DEF Claim, TypeOK, JobRow
<1>4. /\ v \in Worker /\ v.pc = "load" /\ v.job = j /\ v.epoch = jobs[j].epoch + 1
      /\ v.stage = jobs[j].stage /\ v.cause = "none"
  <2>1. Idle \in Worker /\ Idle.cause = "none"
    BY IdleOK DEF Idle
  <2>2. "load" \in Pc
    BY DEF Pc
  <2> QED
    BY <2>1, <2>2, <1>0, <1>b DEF Worker
<1>5. Put(w, v)
  BY DEF Claim
<1> HIDE DEF r, v
<1>6. /\ jobs' \in [JobIds -> JobRow]
      /\ \A i \in JobIds : jobs'[i] = IF i = j THEN r ELSE jobs[i]
  BY <1>0, <1>2, <1>3 DEF TypeOK
<1>7. /\ workers' \in [Workers -> Worker]
      /\ \A u \in Workers : workers'[u] = IF u = w THEN v ELSE workers[u]
  BY <1>0, <1>4, <1>5, PutEffect
<1>8. TypeOK'
  BY <1>0, <1>a, <1>6, <1>7 DEF TypeOK, domain, external
<1>9. OnlyLateCleanupLoses' /\ CheckpointBacked'
  BY <1>a DEF IInv, OnlyLateCleanupLoses, Referenced, CheckpointBacked, domain, external
<1>10. \A u \in Workers : u # w /\ workers[u].pc # "idle" =>
         /\ workers[u].job \in JobIds /\ workers[u].epoch \in Nat
         /\ workers[u].epoch <= jobs[workers[u].job].epoch
  BY <1>0, WorkerFields DEF IInv, LeasesApart, Job
<1>11. LeasesApart'
  <2>1. ASSUME NEW u \in Workers, workers'[u].pc # "idle" PROVE workers'[u].epoch <= Job(u)'.epoch
    <3>1. CASE u = w
      <4>1. workers'[u].epoch = jobs[j].epoch + 1 /\ Job(u)'.epoch = jobs[j].epoch + 1
        BY <3>1, <1>2, <1>4, <1>6, <1>7 DEF Job
      <4> QED
        BY <4>1, <1>b
    <3>2. CASE u # w
      <4>1. workers'[u] = workers[u] /\ workers[u].pc # "idle"
        BY <2>1, <3>2, <1>7
      <4>2. workers[u].epoch <= jobs[workers[u].job].epoch /\ workers[u].job \in JobIds
            /\ workers[u].epoch \in Nat
        BY <4>1, <3>2, <1>10
      <4>3. CASE workers[u].job = j
        <5>1. Job(u)'.epoch = jobs[j].epoch + 1 /\ workers'[u].epoch <= jobs[j].epoch
          BY <4>1, <4>2, <4>3, <1>2, <1>6 DEF Job
        <5>2. workers'[u].epoch \in Nat
          BY <4>1, <4>2
        <5> QED
          BY <5>1, <5>2, <1>0
      <4>4. CASE workers[u].job # j
        BY <4>1, <4>2, <4>4, <1>6 DEF Job
      <4> QED
        BY <4>3, <4>4
    <3> QED
      BY <3>1, <3>2
  <2>2. ASSUME NEW u \in Workers, u # w, workers'[u].pc # "idle", workers'[u].job = j
        PROVE  workers'[u].epoch # jobs[j].epoch + 1
    BY <2>2, <1>0, <1>7, <1>10
  <2>3. ASSUME NEW u \in Workers, NEW x \in Workers,
               workers'[u].pc # "idle", workers'[x].pc # "idle",
               workers'[u].job = workers'[x].job, workers'[u].epoch = workers'[x].epoch
        PROVE  u = x
    <3>1. CASE u # w /\ x # w
      BY <3>1, <2>3, <1>7 DEF IInv, LeasesApart
    <3>2. CASE u = w /\ x # w
      BY <3>2, <2>2, <2>3, <1>4, <1>7
    <3>3. CASE u # w /\ x = w
      BY <3>3, <2>2, <2>3, <1>4, <1>7
    <3> QED
      BY <3>1, <3>2, <3>3
  <2> QED
    BY <2>1, <2>3 DEF LeasesApart
<1>12. Story(j)'
  <2>1. Newest(j)'
    BY <1>1, <1>2, <1>6, <1>a DEF Story, Newest, domain, Unsettled
  <2>2. FactsMatch(j)' /\ StatusMatch(j)'
    BY <1>1, <1>2, <1>6, <1>a DEF Story, FactsMatch, StatusMatch, domain
  <2> QED
    BY <2>1, <2>2 DEF Story
<1>13. ASSUME NEW u \in Workers, Holds(u)' PROVE HolderMatches(u)'
  <2>1. CASE u = w
    <3>1. workers'[u].stage = Job(u)'.stage
      BY <2>1, <1>2, <1>4, <1>6, <1>7 DEF Job
    <3> QED
      BY <2>1, <3>1, <1>4, <1>7 DEF HolderMatches
  <2>2. CASE u # w
    <3>1. workers'[u] = workers[u] /\ workers[u].pc # "idle"
      BY <2>2, <1>7, <1>13 DEF Holds
    <3>2. /\ workers[u].job \in JobIds /\ workers[u].epoch \in Nat
          /\ workers[u].epoch <= jobs[workers[u].job].epoch
          /\ jobs'[workers[u].job].epoch = workers[u].epoch
          /\ jobs'[workers[u].job].status = "running"
      BY <2>2, <3>1, <1>10, <1>13 DEF Holds, Job
    <3>3. workers[u].job # j
      BY <3>2, <1>0, <1>2, <1>6
    <3>4. jobs[workers[u].job].status \in Unsettled
      BY <3>2, <3>3, <1>6 DEF Unsettled
    <3> QED
      BY <3>2, <3>3, <3>4, <1>0, <1>1, UnsettledIsNewest DEF Story
  <2> QED
    BY <2>1, <2>2
<1> QED
  BY <1>8, <1>9, <1>11, <1>12, <1>13 DEF IInv

\* What a holder loads fits its stage, and it starts with the step its stage
\* begins with.
LEMMA ActLoad ==
  ASSUME IInv, NEW w \in Workers, Load(w)
  PROVE  IInv'
<1>0. /\ TypeOK /\ UNCHANGED <<domain, jobs>> /\ ExternalKept /\ workers[w].pc = "load"
      /\ UNCHANGED <<kb, doc, version, state, objects, copies, points>>
  BY ExternalSame DEF IInv, Load, domain, external
<1>1. /\ workers[w] \in Worker /\ workers[w].stage \in Stages /\ workers[w].job \in JobIds
      /\ version \in VersionRow /\ state \in StateRow /\ state.next \in 0 .. ChunkCount
      /\ workers[w].exp \in Loaded /\ workers[w].batch \in 0 .. ChunkCount
  BY <1>0, WorkerFields DEF TypeOK, StateRow
<1>2. CASE ~StageReady(workers[w].stage)
  <2>1. Holds(w) => kb # "active"
    <3>1. SUFFICES ASSUME Holds(w), kb = "active" PROVE FALSE
      OBVIOUS
    <3>2. /\ FactsMatch(workers[w].job) /\ StatusMatch(workers[w].job)
          /\ workers[w].stage = jobs[workers[w].job].stage
      BY <3>1, HolderFacts DEF HolderMatches, Job
    <3>3. CASE workers[w].stage \in {"parse", "chunk"}
      BY <3>2, <3>3, <1>2 DEF FactsMatch, StatusMatch, StageReady
    <3>4. CASE workers[w].stage = "embed_index"
      <4>1. Indexable
        BY <3>1, <3>2, <3>4 DEF FactsMatch, StatusMatch, Indexable
      <4> QED
        BY <4>1, <3>4, <1>2 DEF StageReady
    <3>5. CASE workers[w].stage = "validate"
      <4>1. Indexable /\ version.status = "indexing" /\ state.status = "indexing"
            /\ state.next = ChunkCount
        BY <3>1, <3>2, <3>5 DEF FactsMatch, StatusMatch, Indexable
      <4> QED
        BY <4>1, <3>5, <1>2 DEF StageReady
    <3>6. CASE workers[w].stage = "activate"
      <4>1. version.manifest /\ state.actual # None
        BY <3>2, <3>6 DEF FactsMatch, None
      <4> QED
        BY <4>1, <3>6, <1>2 DEF StageReady
    <3> QED
      BY <1>1, <3>3, <3>4, <3>5, <3>6 DEF Stages
  <2>2. Raise(w, FALSE, "conflict") /\ workers[w].pc # "idle"
    BY <1>0, <1>2 DEF Load, Conflict
  <2> QED
    BY <1>0, <2>1, <2>2, StepRaise
<1>3. CASE StageReady(workers[w].stage)
  <2> DEFINE pc == FirstStep(workers[w].stage)
             e == IF workers[w].stage \in {"parse", "embed_index"}
                  THEN [version |-> version, state |-> state] ELSE workers[w].exp
             b == IF workers[w].stage = "embed_index" THEN state.next ELSE workers[w].batch
             v == [workers[w] EXCEPT !.pc = pc, !.exp = e, !.batch = b]
  <2>1. Put(w, v)
    BY <1>1, <1>3 DEF Load, Worker
  <2>2. pc \in {"started", "publish", "checkpoint", "upsert", "count", "activating"} /\ pc \in Pc
    <3>1. pc \in {"started", "publish", "checkpoint", "upsert", "count", "activating"}
      BY <1>1 DEF FirstStep, Stages
    <3> HIDE DEF pc
    <3> QED
      BY <3>1 DEF Pc
  <2>3. e \in Loaded
    <3>1. [version |-> version, state |-> state] \in Loaded
      BY <1>1 DEF Loaded
    <3> QED
      BY <1>1, <3>1
  <2>4. b \in 0 .. ChunkCount
    BY <1>1
  <2>5. workers[w].stage \in {"parse", "embed_index"} => e.version = version /\ e.state = state
    OBVIOUS
  <2>6. workers[w].stage = "embed_index" => b = state.next
    OBVIOUS
  <2>7. pc = FirstStep(workers[w].stage)
    OBVIOUS
  <2> HIDE DEF pc, e, b
  <2>8. /\ v \in Worker /\ v.pc = pc /\ v.exp = e /\ v.batch = b /\ v.stage = workers[w].stage
        /\ v.job = workers[w].job /\ v.epoch = workers[w].epoch /\ v.cause = workers[w].cause
    BY <1>1, <2>2, <2>3, <2>4 DEF Worker
  <2> HIDE DEF v
  <2>9. workers'[w] = v
    BY <1>0, <2>1, <2>8, PutEffect
  <2>10. Holds(w) => HolderMatches(w)'
    <3>1. SUFFICES ASSUME Holds(w) PROVE HolderMatches(w)'
      OBVIOUS
    <3>2. /\ FactsMatch(workers[w].job) /\ StatusMatch(workers[w].job)
          /\ workers[w].stage = jobs[workers[w].job].stage
          /\ workers[w].cause = "conflict" => kb # "active"
      BY <3>1, HolderFacts DEF HolderMatches, Job
    <3>3. workers'[w].stage = Job(w)'.stage
      BY <3>2, <2>8, <2>9, <1>0 DEF Job
    <3>4. CASE workers[w].stage = "parse"
      <4>1. pc = (IF version.status = "uploaded" THEN "started" ELSE "publish")
        BY <2>7, <3>4 DEF FirstStep
      <4>2. pc = "publish" => version.status = "parsing"
        BY <4>1, <3>2, <3>4 DEF StatusMatch
      <4> QED
        BY <4>1, <4>2, <3>2, <3>3, <3>4, <2>5, <2>8, <2>9, <1>0 DEF HolderMatches
    <3>5. CASE workers[w].stage = "chunk"
      <4>1. pc = "publish"
        BY <2>7, <3>5 DEF FirstStep
      <4> QED
        BY <4>1, <3>2, <3>3, <3>5, <2>8, <2>9, <1>0 DEF HolderMatches
    <3>6. CASE workers[w].stage = "embed_index"
      <4>1. pc = (IF state.next = ChunkCount THEN "checkpoint" ELSE "upsert")
        BY <2>7, <3>6 DEF FirstStep
      <4>2. pc = "checkpoint" =>
              /\ state.next = ChunkCount /\ b = ChunkCount
              /\ \A c \in Chunks : c < b => c \in points
        BY <4>1, <2>6, <3>6 DEF IInv, CheckpointBacked
      <4> QED
        BY <4>1, <4>2, <3>2, <3>3, <3>6, <2>5, <2>6, <2>8, <2>9, <1>0 DEF HolderMatches
    <3>7. CASE workers[w].stage = "validate"
      <4>1. pc = "count"
        BY <2>7, <3>7 DEF FirstStep
      <4> QED
        BY <4>1, <3>2, <3>3, <3>7, <2>8, <2>9, <1>0 DEF HolderMatches
    <3>8. CASE workers[w].stage = "activate"
      <4>1. pc = "activating"
        BY <2>7, <3>8 DEF FirstStep
      <4> QED
        BY <4>1, <3>2, <3>3, <3>8, <2>8, <2>9, <1>0 DEF HolderMatches
    <3> QED
      BY <1>1, <3>4, <3>5, <3>6, <3>7, <3>8 DEF Stages
  <2> QED
    BY <1>0, <2>1, <2>8, <2>10, StepWorker
<1> QED
  BY <1>2, <1>3

\* An artifact is published, or its copy is left behind.
LEMMA ActPublish ==
  ASSUME IInv, NEW w \in Workers, PublishArtifact(w) \/ CopyDetached(w)
  PROVE  IInv'
<1>0. /\ TypeOK /\ UNCHANGED <<domain, jobs>> /\ workers[w].pc = "publish"
      /\ UNCHANGED <<kb, doc, version, state, points>>
  BY DEF IInv, PublishArtifact, CopyDetached, domain
<1>1. CASE PublishArtifact(w)
  <2>1. /\ OutputOf(workers[w].stage) \in Artifacts
        /\ objects' = objects \cup {OutputOf(workers[w].stage)} /\ UNCHANGED <<copies, points>>
    BY <1>1 DEF PublishArtifact, OutputOf, Artifacts
  <2>2. ExternalKept
    BY <2>1, <1>0 DEF ExternalKept, TypeOK
  <2>3. Goto(w, "commit") /\ "commit" \in Pc
    BY <1>1 DEF PublishArtifact, Pc
  <2> DEFINE v == [workers[w] EXCEPT !.pc = "commit"]
  <2>4. /\ v \in Worker /\ Put(w, v) /\ workers'[w] = v
        /\ workers'[w].pc = "commit" /\ workers'[w].job = workers[w].job
        /\ workers'[w].epoch = workers[w].epoch /\ workers'[w].stage = workers[w].stage
        /\ workers'[w].exp = workers[w].exp /\ workers'[w].cause = workers[w].cause
    BY <2>3, <1>0, GotoFields DEF Goto
  <2> HIDE DEF v
  <2>5. Holds(w) => HolderMatches(w)'
    <3>1. SUFFICES ASSUME Holds(w) PROVE HolderMatches(w)'
      OBVIOUS
    <3>2. HolderMatches(w)
      BY <3>1 DEF IInv
    <3>3. workers'[w].stage = Job(w)'.stage
      BY <3>2, <2>4, <1>0 DEF Job, HolderMatches
    <3> QED
      BY <3>2, <3>3, <2>1, <2>4, <1>0 DEF HolderMatches
  <2> QED
    BY <1>0, <2>2, <2>4, <2>5, StepWorker
<1>2. CASE CopyDetached(w)
  <2> DEFINE o == OutputOf(workers[w].stage)
  <2>1. /\ o \in Artifacts /\ copies[o] = "none" /\ copies' = [copies EXCEPT ![o] = "copying"]
        /\ UNCHANGED <<objects, points>>
    BY <1>2 DEF CopyDetached, OutputOf, Artifacts
  <2>2. ExternalKept
    BY <2>1, <1>0 DEF ExternalKept, TypeOK
  <2>3. CASE Raise(w, TRUE, "external")
    BY <1>0, <2>2, <2>3, StepRaise
  <2>4. CASE Put(w, Idle)
    BY <1>0, <2>2, <2>4, StepWorker, IdleOK
  <2> QED
    BY <1>2, <2>3, <2>4 DEF CopyDetached
<1> QED
  BY <1>1, <1>2

\* The copies that were left behind, and the reconciler: it deletes no artifact
\* that is referenced or about to be.
LEMMA ActObjects ==
  ASSUME IInv,
         \/ \E o \in Artifacts : LateCopy(o) \/ LateCleanup(o) \/ CopyForgotten(o)
         \/ \E o \in objects : ReconcileObject(o)
  PROVE  IInv'
<1>0. TypeOK
  BY DEF IInv
<1>1. CASE \E o \in Artifacts : LateCopy(o) \/ LateCleanup(o) \/ CopyForgotten(o)
  <2>1. PICK o \in Artifacts : LateCopy(o) \/ LateCleanup(o) \/ CopyForgotten(o)
    BY <1>1
  <2>2. /\ UNCHANGED <<domain, jobs, workers, points>>
        /\ copies[o] \in {"copying", "copied"}
    BY <2>1 DEF LateCopy, LateCleanup, CopyForgotten
  <2>3. ExternalKept
    BY <2>1, <2>2, <1>0 DEF LateCopy, LateCleanup, CopyForgotten, ExternalKept, TypeOK
  <2> QED
    BY <2>2, <2>3, StepExternal
<1>2. CASE \E o \in objects : ReconcileObject(o)
  <2>1. PICK o \in objects : ReconcileObject(o)
    BY <1>2
  <2>2. /\ UNCHANGED <<domain, jobs, workers, points, copies>> /\ objects' = objects \ {o}
        /\ CleanupAllowed(o)
    BY <2>1 DEF ReconcileObject
  <2>3. ~Needed(o)
    <3>1. SUFFICES ASSUME NEW w \in Workers, Holds(w), workers[w].pc = "commit",
                          OutputOf(workers[w].stage) = o
                   PROVE  FALSE
      BY <2>2 DEF CleanupAllowed, Needed
    <3>2. /\ StatusMatch(workers[w].job) /\ HolderMatches(w)
          /\ jobs[workers[w].job].status = "running"
      BY <3>1, HolderFacts
    <3>3. workers[w].job \in JobIds /\ workers[w].stage = jobs[workers[w].job].stage
      BY <3>2, <1>0, WorkerFields DEF HolderMatches, Job
    <3>4. Recoverable(workers[w].job)
      BY <3>2 DEF Recoverable, Unsettled
    <3>5. CASE workers[w].stage = "parse"
      <4>1. o = "parsed" /\ version.status = "parsing" /\ jobs[workers[w].job].stage = "parse"
        BY <3>1, <3>2, <3>3, <3>5 DEF OutputOf, HolderMatches
      <4> QED
        BY <4>1, <3>3, <3>4, <2>2 DEF CleanupAllowed
    <3>6. CASE workers[w].stage = "chunk"
      <4>1. o = "manifest" /\ version.status = "chunking" /\ jobs[workers[w].job].stage = "chunk"
        BY <3>1, <3>2, <3>3, <3>6 DEF OutputOf, StatusMatch
      <4> QED
        BY <4>1, <3>3, <3>4, <2>2 DEF CleanupAllowed
    <3> QED
      BY <3>1, <3>2, <3>5, <3>6 DEF HolderMatches
  <2>4. ExternalKept
    BY <2>2, <2>3, <1>0 DEF ExternalKept, TypeOK
  <2> QED
    BY <2>2, <2>4, StepExternal
<1> QED
  BY <1>1, <1>2

\* A lease runs out, or the knowledge base closes: no row of the document changes.
LEMMA ActBeside ==
  ASSUME IInv, KnowledgeBaseCloses \/ \E j \in JobIds : LeaseExpires(j)
  PROVE  IInv'
<1>0. TypeOK /\ UNCHANGED <<doc, version, state, objects, copies, points, workers>>
  BY DEF IInv, KnowledgeBaseCloses, LeaseExpires, domain, external
<1>1. PICK n \in JobIds : Story(n)
  BY DEF IInv
<1>2. /\ kb' \in {kb, "closed"} /\ jobs' \in [JobIds -> JobRow]
      /\ \A i \in JobIds : /\ jobs'[i].status = jobs[i].status /\ jobs'[i].epoch = jobs[i].epoch
                           /\ jobs'[i].stage = jobs[i].stage
                           /\ jobs'[i].progress = jobs[i].progress
                           /\ jobs'[i].error = jobs[i].error
  <2>1. CASE KnowledgeBaseCloses
    BY <2>1, <1>0 DEF KnowledgeBaseCloses, TypeOK
  <2>2. CASE \E j \in JobIds : LeaseExpires(j)
    <3>1. PICK j \in JobIds : LeaseExpires(j)
      BY <2>2
    <3> DEFINE r == [jobs[j] EXCEPT !.live = FALSE]
    <3>2. /\ r \in JobRow /\ r.status = jobs[j].status /\ r.epoch = jobs[j].epoch
          /\ r.stage = jobs[j].stage /\ r.progress = jobs[j].progress /\ r.error = jobs[j].error
      <4>1. jobs[j] \in JobRow
        BY <1>0, JobFields
      <4> QED
        BY <4>1 DEF JobRow
    <3>3. jobs' = [jobs EXCEPT ![j] = r] /\ kb' = kb
      BY <3>1, <1>0 DEF LeaseExpires, TypeOK, JobRow, domain
    <3> HIDE DEF r
    <3> QED
      BY <1>0, <3>2, <3>3 DEF TypeOK
  <2> QED
    BY <2>1, <2>2
<1>3. TypeOK'
  BY <1>0, <1>2 DEF TypeOK
<1>4. OnlyLateCleanupLoses' /\ CheckpointBacked'
  BY <1>0 DEF IInv, OnlyLateCleanupLoses, Referenced, CheckpointBacked
<1>5. \A u \in Workers : workers[u].job \in JobIds
  BY <1>0, WorkerFields
<1>6. LeasesApart'
  BY <1>0, <1>2, <1>5 DEF IInv, LeasesApart, Job
<1>7. Story(n)'
  <2>1. Newest(n)'
    BY <1>0, <1>1, <1>2 DEF Story, Newest
  <2>2. doc # "active" => FactsMatch(n)'
    BY <1>0, <1>1, <1>2 DEF Story, FactsMatch
  <2>3. jobs'[n].status \in Unsettled => StatusMatch(n)'
    BY <1>0, <1>1, <1>2 DEF Story, StatusMatch
  <2> QED
    BY <2>1, <2>2, <2>3, <1>0 DEF Story
<1>8. ASSUME NEW u \in Workers, Holds(u)' PROVE HolderMatches(u)'
  <2>1. Holds(u)
    BY <1>0, <1>2, <1>5, <1>8 DEF Holds, Job
  <2>2. HolderMatches(u)
    BY <2>1 DEF IInv
  <2>3. workers'[u].stage = Job(u)'.stage
    BY <2>2, <1>0, <1>2, <1>5 DEF HolderMatches, Job
  <2> QED
    BY <2>2, <2>3, <1>0, <1>2 DEF HolderMatches
<1> QED
  BY <1>3, <1>4, <1>6, <1>7, <1>8 DEF IInv

-----------------------------------------------------------------------------
(* The fenced transactions.                                                 *)

\* The job row after advance_stage, and the worker that goes on.
LEMMA AdvancedFields ==
  ASSUME TypeOK, NEW w \in Workers, NEW stage \in Stages, NEW progress \in 0 .. ChunkCount
  PROVE  /\ Advanced(w, stage, progress) \in JobRow
         /\ Advanced(w, stage, progress).status = Job(w).status
         /\ Advanced(w, stage, progress).epoch = Job(w).epoch
         /\ Advanced(w, stage, progress).stage = stage
         /\ Advanced(w, stage, progress).progress = progress
         /\ NextStage(w, stage) \in Worker /\ NextStage(w, stage).pc = "load"
         /\ NextStage(w, stage).job = workers[w].job
         /\ NextStage(w, stage).epoch = workers[w].epoch
         /\ NextStage(w, stage).stage = stage /\ NextStage(w, stage).cause = "none"
<1>1. Job(w) \in JobRow
  BY WorkerFields
<1>2. /\ AtStage(w, stage) \in Worker
      /\ AtStage(w, stage).job = workers[w].job /\ AtStage(w, stage).epoch = workers[w].epoch
      /\ AtStage(w, stage).stage = stage /\ AtStage(w, stage).cause = "none"
  BY AtStageFields
<1>3. "load" \in Pc
  BY DEF Pc
<1>4. Advanced(w, stage, progress) \in JobRow
  BY <1>1 DEF Advanced, JobRow
<1>5. NextStage(w, stage) \in Worker
  BY <1>2, <1>3 DEF NextStage, Worker
<1>6. /\ Advanced(w, stage, progress).status = Job(w).status
      /\ Advanced(w, stage, progress).epoch = Job(w).epoch
      /\ Advanced(w, stage, progress).stage = stage
      /\ Advanced(w, stage, progress).progress = progress
  BY <1>1 DEF Advanced, JobRow
<1>7. /\ NextStage(w, stage).pc = "load" /\ NextStage(w, stage).job = workers[w].job
      /\ NextStage(w, stage).epoch = workers[w].epoch
      /\ NextStage(w, stage).stage = stage /\ NextStage(w, stage).cause = "none"
  BY <1>2 DEF NextStage, Worker
<1> QED
  BY <1>4, <1>5, <1>6, <1>7

\* A stage's commit advances the job and leaves the facts the next stage expects.
LEMMA StepAdvance ==
  ASSUME IInv, NEW w \in Workers, Holds(w), NEW n \in JobIds, n = workers[w].job,
         NEW stage \in Stages, NEW progress \in 0 .. ChunkCount,
         SetJob(w, Advanced(w, stage, progress)), Put(w, NextStage(w, stage)),
         version' \in VersionRow, state' \in StateRow, UNCHANGED <<kb, doc, external>>,
         OnlyLateCleanupLoses', CheckpointBacked',
         jobs'[n].stage = stage /\ jobs'[n].progress = progress
           => FactsMatch(n)' /\ StatusMatch(n)'
  PROVE  IInv'
<1> DEFINE r == Advanced(w, stage, progress)
           v == NextStage(w, stage)
<1>0. TypeOK
  BY DEF IInv
<1>1. /\ r \in JobRow /\ r.status = Job(w).status /\ r.epoch = Job(w).epoch
      /\ r.stage = stage /\ r.progress = progress
      /\ v \in Worker /\ v.pc = "load" /\ v.job = workers[w].job /\ v.epoch = workers[w].epoch
      /\ v.stage = stage /\ v.cause = "none"
  BY <1>0, AdvancedFields
<1>2. SetJob(w, r) /\ Put(w, v)
  OBVIOUS
<1> HIDE DEF r, v
<1>3. /\ Newest(n) /\ doc = "processing" /\ jobs[n].status = "running" /\ Job(w) = jobs[n]
  BY HolderFacts DEF Job
<1>4. \A j \in JobIds : jobs'[j] = IF j = n THEN r ELSE jobs[j]
  BY <1>0, <1>2 DEF SetJob, TypeOK
<1>5. workers'[w] = v
  BY <1>0, <1>1, <1>2, PutEffect
<1>6. FactsMatch(n)' /\ StatusMatch(n)'
  BY <1>1, <1>4
<1>7. Story(n)'
  <2>1. Newest(n)'
    BY <1>1, <1>3, <1>4 DEF Newest, Unsettled
  <2> QED
    BY <2>1, <1>6 DEF Story
<1>8. HolderMatches(w)'
  <2>1. workers'[w].stage = Job(w)'.stage
    BY <1>1, <1>4, <1>5 DEF Job
  <2> QED
    BY <2>1, <1>1, <1>5 DEF HolderMatches
<1>9. doc' \in {"processing", "active", "failed"}
  BY <1>3
<1> QED
  BY <1>1, <1>2, <1>7, <1>8, <1>9, StepCommit

\* commit_parse_started.
LEMMA ActParseStarted ==
  ASSUME IInv, NEW w \in Workers, CommitParseStarted(w)
  PROVE  IInv'
<1> DEFINE valid == GraphValid /\ version.status \in {"uploaded", "parsing"} /\ ~version.parsed
           v == [workers[w] EXCEPT !.pc = "publish", !.exp.version.status = "parsing"]
<1>0. TypeOK /\ UNCHANGED external /\ workers[w].pc = "started"
  BY DEF IInv, CommitParseStarted
<1>1. CASE ~StageFence(w)
  BY <1>0, <1>1, StepUncommitted DEF CommitParseStarted, Commit
<1>2. ASSUME StageFence(w) PROVE IInv'
  <2>1. Holds(w)
    BY <1>0, <1>2, FenceHolds
  <2>2. PICK n \in JobIds : n = workers[w].job
    BY <1>0, WorkerFields
  <2>3. /\ Story(n) /\ Newest(n) /\ doc = "processing" /\ FactsMatch(n) /\ StatusMatch(n)
        /\ HolderMatches(w) /\ jobs[n].status = "running" /\ Job(w) = jobs[n]
        /\ workers[w].stage = "parse" /\ jobs[n].stage = "parse"
    BY <1>0, <2>1, <2>2, HolderFacts DEF HolderMatches, Job
  <2>4. valid \/ kb # "active"
    BY <2>3 DEF GraphValid, FactsMatch, StatusMatch
  <2>5. CASE ~valid
    BY <1>0, <1>2, <2>4, <2>5, StepUncommitted DEF CommitParseStarted, Commit
  <2>6. CASE valid
    <3>1. /\ version' = [version EXCEPT !.status = "parsing"] /\ UNCHANGED <<kb, doc, state>>
          /\ SetJob(w, Job(w)) /\ Put(w, v)
      BY <1>2, <2>6 DEF CommitParseStarted, Commit
    <3>2. /\ version' \in VersionRow /\ version'.parsed = version.parsed
          /\ version'.manifest = version.manifest /\ version'.status = "parsing"
      BY <1>0, <3>1 DEF TypeOK, VersionRow
    <3>3. /\ v \in Worker /\ v.pc = "publish" /\ v.exp.version.status = "parsing"
          /\ v.job = workers[w].job /\ v.epoch = workers[w].epoch
          /\ v.stage = workers[w].stage /\ v.cause = workers[w].cause
      <4> DEFINE e == [workers[w].exp EXCEPT !.version.status = "parsing"]
      <4>1. workers[w] \in Worker /\ workers[w].exp \in Loaded
        BY <1>0, WorkerFields
      <4>2. e \in Loaded /\ e.version.status = "parsing"
        BY <4>1 DEF Loaded, VersionRow
      <4>3. v = [workers[w] EXCEPT !.pc = "publish", !.exp = e]
        BY <4>1 DEF Worker
      <4> HIDE DEF e
      <4> QED
        BY <4>1, <4>2, <4>3 DEF Worker, Pc
    <3> HIDE DEF v
    <3>4. workers'[w] = v /\ \A j \in JobIds : jobs'[j] = jobs[j]
      BY <1>0, <2>2, <2>3, <3>1, <3>3, PutEffect DEF SetJob, TypeOK
    <3>5. OnlyLateCleanupLoses' /\ CheckpointBacked'
      BY <1>0, <3>1, <3>2 DEF IInv, OnlyLateCleanupLoses, Referenced, CheckpointBacked, external
    <3>6. Story(n)'
      <4>1. Newest(n)'
        BY <2>3, <3>1, <3>4 DEF Newest
      <4>2. FactsMatch(n)'
        BY <2>3, <3>1, <3>2, <3>4 DEF FactsMatch
      <4>3. StatusMatch(n)'
        BY <2>3, <3>1, <3>2, <3>4 DEF StatusMatch
      <4> QED
        BY <4>1, <4>2, <4>3 DEF Story
    <3>7. HolderMatches(w)'
      <4>1. workers'[w].stage = Job(w)'.stage
        BY <2>2, <2>3, <3>3, <3>4 DEF Job
      <4> QED
        BY <4>1, <2>3, <3>1, <3>2, <3>3, <3>4 DEF HolderMatches
    <3>8. Job(w) \in JobRow /\ state' \in StateRow
      BY <1>0, <3>1, WorkerFields DEF TypeOK
    <3> QED
      BY <1>0, <2>1, <2>2, <2>3, <3>1, <3>2, <3>3, <3>5, <3>6, <3>7, <3>8, StepCommit
  <2> QED
    BY <2>5, <2>6
<1> QED
  BY <1>1, <1>2

\* commit_parse_stage: the parsed object the version refers to from now on was
\* published by this holder.
LEMMA ActParseStage ==
  ASSUME IInv, NEW w \in Workers, CommitParseStage(w)
  PROVE  IInv'
<1> DEFINE valid == /\ GraphValid /\ version.status = "parsing"
                    /\ workers[w].exp.version.status = "parsing"
<1>0. TypeOK /\ UNCHANGED external /\ workers[w].pc = "commit" /\ workers[w].stage = "parse"
  BY DEF IInv, CommitParseStage
<1>1. CASE ~StageFence(w)
  BY <1>0, <1>1, StepUncommitted DEF CommitParseStage, Commit
<1>2. ASSUME StageFence(w) PROVE IInv'
  <2>1. Holds(w)
    BY <1>0, <1>2, FenceHolds
  <2>2. PICK n \in JobIds : n = workers[w].job
    BY <1>0, WorkerFields
  <2>3. /\ doc = "processing" /\ FactsMatch(n) /\ StatusMatch(n)
        /\ HolderMatches(w) /\ Job(w) = jobs[n] /\ jobs[n].stage = "parse"
    BY <1>0, <2>1, <2>2, HolderFacts DEF HolderMatches, Job
  <2>4. valid \/ kb # "active"
    BY <1>0, <2>3 DEF GraphValid, HolderMatches
  <2>5. CASE ~valid
    BY <1>0, <1>2, <2>4, <2>5, StepUncommitted DEF CommitParseStage, Commit
  <2>6. CASE valid
    <3>1. /\ version' = [version EXCEPT !.parsed = TRUE, !.status = "chunking"]
          /\ UNCHANGED <<kb, doc, state>>
          /\ SetJob(w, Advanced(w, "chunk", 0)) /\ Put(w, NextStage(w, "chunk"))
      BY <1>2, <2>6 DEF CommitParseStage, Commit
    <3>2. /\ version' \in VersionRow /\ version'.parsed
          /\ version'.manifest = version.manifest /\ version'.status = "chunking"
      BY <1>0, <3>1 DEF TypeOK, VersionRow
    <3>3. "parsed" \in objects \/ copies["parsed"] = "cleaned"
      BY <1>0, <2>3 DEF HolderMatches, OutputOf
    <3>4. OnlyLateCleanupLoses' /\ CheckpointBacked'
      BY <1>0, <3>1, <3>2, <3>3 DEF IInv, OnlyLateCleanupLoses, Referenced, CheckpointBacked,
                                    external, Artifacts
    <3>5. jobs'[n].stage = "chunk" /\ jobs'[n].progress = 0 => FactsMatch(n)' /\ StatusMatch(n)'
      BY <2>3, <3>1, <3>2 DEF FactsMatch, StatusMatch
    <3>6. "chunk" \in Stages /\ 0 \in 0 .. ChunkCount /\ state' \in StateRow
      BY <1>0, <3>1 DEF Stages, TypeOK
    <3> QED
      BY <1>0, <2>1, <2>2, <3>1, <3>2, <3>4, <3>5, <3>6, StepAdvance
  <2> QED
    BY <2>5, <2>6
<1> QED
  BY <1>1, <1>2

\* commit_chunk_stage: likewise the manifest.
LEMMA ActChunkStage ==
  ASSUME IInv, NEW w \in Workers, CommitChunkStage(w)
  PROVE  IInv'
<1> DEFINE valid == /\ GraphValid /\ version.status = "chunking" /\ version.parsed
                    /\ state = NewState
<1>0. TypeOK /\ UNCHANGED external /\ workers[w].pc = "commit" /\ workers[w].stage = "chunk"
  BY DEF IInv, CommitChunkStage
<1>1. CASE ~StageFence(w)
  BY <1>0, <1>1, StepUncommitted DEF CommitChunkStage, Commit
<1>2. ASSUME StageFence(w) PROVE IInv'
  <2>1. Holds(w)
    BY <1>0, <1>2, FenceHolds
  <2>2. PICK n \in JobIds : n = workers[w].job
    BY <1>0, WorkerFields
  <2>3. /\ doc = "processing" /\ FactsMatch(n) /\ StatusMatch(n)
        /\ HolderMatches(w) /\ Job(w) = jobs[n] /\ jobs[n].stage = "chunk"
    BY <1>0, <2>1, <2>2, HolderFacts DEF HolderMatches, Job
  <2>4. valid \/ kb # "active"
    <3>1. state = NewState
      BY <1>0, <2>3 DEF FactsMatch, StatusMatch, TypeOK, StateRow, NewState
    <3> QED
      BY <2>3, <3>1 DEF GraphValid, FactsMatch, StatusMatch
  <2>5. CASE ~valid
    BY <1>0, <1>2, <2>4, <2>5, StepUncommitted DEF CommitChunkStage, Commit
  <2>6. CASE valid
    <3>1. /\ version' = [version EXCEPT !.manifest = TRUE, !.status = "embedding"]
          /\ state' = [state EXCEPT !.status = "embedding", !.next = 0]
          /\ UNCHANGED <<kb, doc>>
          /\ SetJob(w, Advanced(w, "embed_index", 0)) /\ Put(w, NextStage(w, "embed_index"))
      BY <1>2, <2>6 DEF CommitChunkStage, Commit
    <3>2. /\ version' \in VersionRow /\ version'.parsed = version.parsed
          /\ version'.manifest /\ version'.status = "embedding"
      BY <1>0, <3>1 DEF TypeOK, VersionRow
    <3>3. /\ state' \in StateRow /\ state'.status = "embedding" /\ state'.next = 0
          /\ state'.actual = state.actual /\ state'.validated = state.validated
      <4>1. state \in StateRow /\ 0 \in 0 .. ChunkCount
        BY <1>0 DEF TypeOK
      <4>2. state' \in StateRow
        BY <3>1, <4>1 DEF StateRow
      <4>3. /\ state'.status = "embedding" /\ state'.next = 0
            /\ state'.actual = state.actual /\ state'.validated = state.validated
        BY <3>1, <4>1 DEF StateRow
      <4> QED
        BY <4>2, <4>3
    <3>4. "manifest" \in objects \/ copies["manifest"] = "cleaned"
      BY <1>0, <2>3 DEF HolderMatches, OutputOf
    <3>5. OnlyLateCleanupLoses'
      BY <1>0, <3>2, <3>4 DEF IInv, OnlyLateCleanupLoses, Referenced, external, Artifacts
    <3>6. CheckpointBacked'
      BY <3>3 DEF CheckpointBacked, Chunks
    <3>7. jobs'[n].stage = "embed_index" /\ jobs'[n].progress = 0
            => FactsMatch(n)' /\ StatusMatch(n)'
      BY <2>3, <3>2, <3>3 DEF FactsMatch, StatusMatch
    <3>8. "embed_index" \in Stages /\ 0 \in 0 .. ChunkCount
      BY DEF Stages
    <3> QED
      BY <1>0, <2>1, <2>2, <3>1, <3>2, <3>3, <3>5, <3>6, <3>7, <3>8, StepAdvance
  <2> QED
    BY <2>5, <2>6
<1> QED
  BY <1>1, <1>2

\* A batch ends after it begins, and no later than the last chunk.
LEMMA BatchEndBounds ==
  ASSUME NEW b \in 0 .. ChunkCount
  PROVE  /\ BatchEnd(b) \in 0 .. ChunkCount
         /\ b < BatchEnd(b) \/ (b = ChunkCount /\ BatchEnd(b) = ChunkCount)
BY DEF BatchEnd

\* The points of a batch are there before its checkpoint.
LEMMA ActUpsert ==
  ASSUME IInv, NEW w \in Workers, UpsertBatch(w)
  PROVE  IInv'
<1> DEFINE b == workers[w].batch
           v == [workers[w] EXCEPT !.pc = "checkpoint", !.batch = BatchEnd(@)]
<1>0. /\ TypeOK /\ UNCHANGED <<domain, jobs, objects, copies>> /\ workers[w].pc = "upsert"
      /\ points' = points \cup (b .. BatchEnd(b) - 1) /\ Put(w, v)
      /\ UNCHANGED <<kb, doc, version, state>>
  BY DEF IInv, UpsertBatch, domain
<1>1. workers[w] \in Worker /\ b \in 0 .. ChunkCount
  BY <1>0, WorkerFields
<1>2. /\ BatchEnd(b) \in 0 .. ChunkCount
      /\ b < BatchEnd(b) \/ (b = ChunkCount /\ BatchEnd(b) = ChunkCount)
  BY <1>1, BatchEndBounds
<1>3. /\ v \in Worker /\ v.pc = "checkpoint" /\ v.batch = BatchEnd(b)
      /\ v.job = workers[w].job /\ v.epoch = workers[w].epoch
      /\ v.stage = workers[w].stage /\ v.exp = workers[w].exp /\ v.cause = workers[w].cause
  <2>1. "checkpoint" \in Pc
    BY DEF Pc
  <2>2. v \in Worker
    BY <1>1, <1>2, <2>1 DEF Worker
  <2>3. /\ v.pc = "checkpoint" /\ v.batch = BatchEnd(b)
        /\ v.job = workers[w].job /\ v.epoch = workers[w].epoch
        /\ v.stage = workers[w].stage /\ v.exp = workers[w].exp /\ v.cause = workers[w].cause
    BY <1>1 DEF Worker
  <2> QED
    BY <2>2, <2>3
<1> HIDE DEF v
<1>4. workers'[w] = v
  BY <1>0, <1>3, PutEffect
<1>5. ExternalKept
  <2>1. b .. BatchEnd(b) - 1 \subseteq Chunks
    BY <1>1, <1>2 DEF Chunks
  <2> QED
    BY <1>0, <2>1 DEF ExternalKept, TypeOK
<1>6. Holds(w) => HolderMatches(w)'
  <2>1. SUFFICES ASSUME Holds(w) PROVE HolderMatches(w)'
    OBVIOUS
  <2>2. /\ HolderMatches(w) /\ b = state.next
    BY <1>0, <2>1 DEF IInv, HolderMatches
  <2>3. \A c \in Chunks : c < BatchEnd(b) => c \in points'
    <3>1. SUFFICES ASSUME NEW c \in Chunks, c < BatchEnd(b) PROVE c \in points'
      OBVIOUS
    <3>2. CASE c < b
      BY <1>0, <2>2, <3>2 DEF IInv, CheckpointBacked
    <3>3. CASE ~(c < b)
      BY <1>0, <1>1, <1>2, <3>1, <3>3 DEF Chunks
    <3> QED
      BY <3>2, <3>3
  <2>4. workers'[w].stage = Job(w)'.stage
    BY <1>0, <1>3, <1>4, <2>2 DEF HolderMatches, Job
  <2> QED
    BY <1>0, <1>2, <1>3, <1>4, <2>2, <2>3, <2>4 DEF HolderMatches
<1> QED
  BY <1>0, <1>3, <1>5, <1>6, StepWorker

\* commit_embed_index_batch: the checkpoint is stored with rows and job, behind the
\* points.
LEMMA ActEmbedProgress ==
  ASSUME IInv, NEW w \in Workers, CommitEmbedProgress(w)
  PROVE  IInv'
<1> DEFINE b == workers[w].batch
           final == b = ChunkCount
           e == workers[w].exp
           indexing == [version |-> [version EXCEPT !.status = "indexing"],
                        state |-> CheckpointState(w)]
           valid == /\ GraphValid
                    /\ version = e.version
                    /\ state.status = e.state.status /\ state.next = e.state.next
                    /\ state.next < b \/ state.next = ChunkCount
<1>0. TypeOK /\ UNCHANGED external /\ workers[w].pc = "checkpoint"
  BY DEF IInv, CommitEmbedProgress
<1>a. /\ workers[w] \in Worker /\ b \in 0 .. ChunkCount /\ version \in VersionRow
      /\ state \in StateRow /\ state.next \in 0 .. ChunkCount
  BY <1>0, WorkerFields DEF TypeOK, StateRow
<1>1. CASE ~StageFence(w)
  BY <1>0, <1>1, StepUncommitted DEF CommitEmbedProgress, Commit
<1>2. ASSUME StageFence(w) PROVE IInv'
  <2>1. Holds(w)
    BY <1>0, <1>2, FenceHolds
  <2>2. PICK n \in JobIds : n = workers[w].job
    BY <1>0, WorkerFields
  <2>3. /\ Newest(n) /\ doc = "processing" /\ FactsMatch(n) /\ StatusMatch(n)
        /\ HolderMatches(w) /\ jobs[n].status = "running" /\ Job(w) = jobs[n]
        /\ workers[w].stage = "embed_index" /\ jobs[n].stage = "embed_index"
    BY <1>0, <2>1, <2>2, HolderFacts DEF HolderMatches, Job
  <2>4. /\ version = e.version /\ state.status = e.state.status /\ state.next = e.state.next
        /\ state.next < b \/ (state.next = ChunkCount /\ b = ChunkCount)
        /\ \A c \in Chunks : c < b => c \in points
    BY <1>0, <2>3 DEF HolderMatches
  <2>5. CASE ~valid
    BY <1>0, <1>2, <2>3, <2>4, <2>5, StepUncommitted DEF GraphValid, CommitEmbedProgress, Commit
  <2>6. CASE valid
    <3>1. /\ version' = indexing.version /\ state' = indexing.state /\ UNCHANGED <<kb, doc>>
          /\ SetJob(w, IF final THEN Advanced(w, "validate", ChunkCount) ELSE CheckpointJob(w))
          /\ Put(w, IF final THEN NextStage(w, "validate")
                    ELSE [workers[w] EXCEPT !.pc = "upsert", !.exp = indexing])
      BY <1>2, <2>6 DEF CommitEmbedProgress, Commit
    <3>2. /\ version' \in VersionRow /\ version'.parsed = version.parsed
          /\ version'.manifest = version.manifest /\ version'.status = "indexing"
      BY <1>a, <3>1 DEF VersionRow
    <3>3. /\ state' \in StateRow /\ state'.status = "indexing" /\ state'.next = b
          /\ state'.actual = state.actual /\ state'.validated = state.validated
      <4>1. state' = [state EXCEPT !.status = "indexing", !.next = b]
        BY <3>1 DEF CheckpointState
      <4>2. state' \in StateRow
        BY <1>a, <4>1 DEF StateRow
      <4>3. /\ state'.status = "indexing" /\ state'.next = b
            /\ state'.actual = state.actual /\ state'.validated = state.validated
        BY <1>a, <4>1 DEF StateRow
      <4> QED
        BY <4>2, <4>3
    <3>4. OnlyLateCleanupLoses' /\ CheckpointBacked'
      BY <1>0, <2>4, <3>2, <3>3 DEF IInv, OnlyLateCleanupLoses, Referenced, CheckpointBacked, external
    <3>5. CASE final
      <4>1. SetJob(w, Advanced(w, "validate", ChunkCount)) /\ Put(w, NextStage(w, "validate"))
        BY <3>1, <3>5
      <4>2. "validate" \in Stages /\ ChunkCount \in 0 .. ChunkCount
        BY DEF Stages
      <4>3. jobs'[n].stage = "validate" /\ jobs'[n].progress = ChunkCount
              => FactsMatch(n)' /\ StatusMatch(n)'
        BY <2>3, <3>2, <3>3, <3>5 DEF FactsMatch, StatusMatch
      <4> QED
        BY <1>0, <2>1, <2>2, <3>1, <3>2, <3>3, <3>4, <4>1, <4>2, <4>3, StepAdvance
    <3>6. CASE ~final
      <4> DEFINE r == CheckpointJob(w)
                 v == [workers[w] EXCEPT !.pc = "upsert", !.exp = indexing]
      <4>1. SetJob(w, r) /\ Put(w, v)
        BY <3>1, <3>6
      <4>2. /\ r \in JobRow /\ r.status = jobs[n].status /\ r.epoch = jobs[n].epoch
            /\ r.stage = jobs[n].stage /\ r.progress = b
        <5>1. Job(w) \in JobRow
          BY <1>0, WorkerFields
        <5> QED
          BY <5>1, <1>a, <2>3 DEF CheckpointJob, JobRow
      <4>3. indexing = [version |-> version', state |-> state']
        BY <3>1
      <4>4. [version |-> version', state |-> state'] \in Loaded
        BY <3>2, <3>3 DEF Loaded
      <4>5. /\ v \in Worker /\ v.pc = "upsert" /\ v.exp = [version |-> version', state |-> state']
            /\ v.batch = b /\ v.job = n /\ v.epoch = workers[w].epoch
            /\ v.stage = "embed_index" /\ v.cause = workers[w].cause
        <5>1. v = [workers[w] EXCEPT !.pc = "upsert", !.exp = [version |-> version', state |-> state']]
          BY <4>3
        <5>2. "upsert" \in Pc
          BY DEF Pc
        <5> HIDE DEF v
        <5>3. v \in Worker
          BY <1>a, <4>4, <5>1, <5>2 DEF Worker
        <5> QED
          BY <1>a, <2>2, <2>3, <5>1, <5>3 DEF Worker
      <4> HIDE DEF r, v
      <4>6. \A j \in JobIds : jobs'[j] = IF j = n THEN r ELSE jobs[j]
        BY <1>0, <2>2, <4>1 DEF SetJob, TypeOK
      <4>7. workers'[w] = v
        BY <1>0, <4>1, <4>5, PutEffect
      <4>8. b # 0
        BY <1>a, <2>4, <3>6
      <4>9. Story(n)'
        <5>1. Newest(n)'
          BY <2>3, <3>1, <4>2, <4>6 DEF Newest, Unsettled
        <5>2. FactsMatch(n)'
          BY <2>3, <3>2, <3>3, <4>2, <4>6 DEF FactsMatch
        <5>3. StatusMatch(n)'
          BY <2>3, <3>2, <3>3, <4>2, <4>6, <4>8 DEF StatusMatch
        <5> QED
          BY <5>1, <5>2, <5>3 DEF Story
      <4>10. HolderMatches(w)'
        <5>1. workers'[w].stage = Job(w)'.stage
          BY <2>3, <4>2, <4>5, <4>6, <4>7 DEF Job
        <5>2. workers'[w].cause = "conflict" => kb' # "active"
          BY <2>3, <3>1, <4>5, <4>7 DEF HolderMatches
        <5>3. workers'[w].exp.version = version' /\ workers'[w].exp.state = state'
          BY <4>5, <4>7
        <5> QED
          BY <3>3, <4>5, <4>7, <5>1, <5>2, <5>3 DEF HolderMatches
      <4>11. doc' \in {"processing", "active", "failed"} /\ UNCHANGED <<kb, external>>
             /\ r.epoch = Job(w).epoch
        BY <1>0, <2>3, <3>1, <4>2
      <4> QED
        BY <2>1, <2>2, <3>2, <3>3, <3>4, <4>1, <4>2, <4>5, <4>9, <4>10, <4>11, StepCommit
    <3> QED
      BY <3>5, <3>6
  <2> QED
    BY <2>5, <2>6
<1> QED
  BY <1>1, <1>2

\* Qdrant counts at most the chunks, and all of them when they are all there.
LEMMA CountedPoints ==
  ASSUME TypeOK
  PROVE  /\ Cardinality(points) \in 0 .. None
         /\ state.next = ChunkCount /\ CheckpointBacked =>
              points = Chunks /\ Cardinality(points) = ChunkCount
<1>1. IsFiniteSet(Chunks) /\ Cardinality(Chunks) = ChunkCount
  <2>1. 0 \in Int /\ ChunkCount - 1 \in Int /\ ~(0 > ChunkCount - 1)
    OBVIOUS
  <2>2. /\ IsFiniteSet(0 .. ChunkCount - 1)
        /\ Cardinality(0 .. ChunkCount - 1) = (ChunkCount - 1) - 0 + 1
    BY <2>1, FS_Interval
  <2>3. (ChunkCount - 1) - 0 + 1 = ChunkCount
    OBVIOUS
  <2> QED
    BY <2>2, <2>3 DEF Chunks
<1>2. points \subseteq Chunks
  BY DEF TypeOK
<1>3. Cardinality(points) <= ChunkCount /\ Cardinality(points) \in Nat
  <2>1. IsFiniteSet(points) /\ Cardinality(points) <= Cardinality(Chunks)
    BY <1>1, <1>2, FS_Subset
  <2> QED
    BY <2>1, <1>1, FS_CardinalityType
<1>4. ASSUME state.next = ChunkCount, CheckpointBacked PROVE points = Chunks
  <2>1. \A c \in Chunks : c < state.next
    BY <1>4 DEF Chunks
  <2> QED
    BY <1>2, <1>4, <2>1 DEF CheckpointBacked
<1> QED
  BY <1>1, <1>3, <1>4 DEF None

\* The steps of validate outside PostgreSQL.
LEMMA ActCountVerify ==
  ASSUME IInv, NEW w \in Workers, CountPoints(w) \/ VerifyPoints(w)
  PROVE  IInv'
<1>0. /\ TypeOK /\ UNCHANGED <<domain, jobs>> /\ ExternalKept
      /\ UNCHANGED <<kb, doc, version, state, objects, copies, points>>
  BY ExternalSame DEF IInv, CountPoints, VerifyPoints, domain, external
<1>1. Holds(w) /\ workers[w].stage = "validate" => points = Chunks /\ Cardinality(points) = ChunkCount
  <2>1. SUFFICES ASSUME Holds(w), workers[w].stage = "validate"
                 PROVE  points = Chunks /\ Cardinality(points) = ChunkCount
    OBVIOUS
  <2>2. state.next = ChunkCount
    BY <2>1, HolderFacts DEF FactsMatch, HolderMatches, Job
  <2> QED
    BY <1>0, <2>2, CountedPoints DEF IInv
<1>2. CASE CountPoints(w)
  <2> DEFINE v == [workers[w] EXCEPT !.pc = "commitCount", !.counted = Cardinality(points)]
  <2>1. Put(w, v) /\ workers[w].pc = "count"
    BY <1>2 DEF CountPoints
  <2>2. workers[w] \in Worker /\ Cardinality(points) \in 0 .. None /\ "commitCount" \in Pc
    BY <1>0, WorkerFields, CountedPoints DEF Pc
  <2>3. v \in Worker
    BY <2>2 DEF Worker
  <2>4. /\ v.pc = "commitCount" /\ v.counted = Cardinality(points)
        /\ v.job = workers[w].job /\ v.epoch = workers[w].epoch
        /\ v.stage = workers[w].stage /\ v.cause = workers[w].cause
    BY <2>2 DEF Worker
  <2> HIDE DEF v
  <2>5. workers'[w] = v
    BY <1>0, <2>1, <2>3, PutEffect
  <2>6. Holds(w) => HolderMatches(w)'
    <3>1. SUFFICES ASSUME Holds(w) PROVE HolderMatches(w)'
      OBVIOUS
    <3>2. HolderMatches(w) /\ workers[w].stage = "validate"
      BY <3>1, <2>1 DEF IInv, HolderMatches
    <3>3. workers'[w].stage = Job(w)'.stage
      BY <3>2, <2>4, <2>5, <1>0 DEF Job, HolderMatches
    <3>4. workers'[w].counted = ChunkCount
      BY <3>1, <3>2, <2>4, <2>5, <1>1
    <3> QED
      BY <3>2, <3>3, <3>4, <2>4, <2>5, <1>0 DEF HolderMatches
  <2> QED
    BY <1>0, <2>1, <2>3, <2>4, <2>6, StepWorker
<1>3. CASE VerifyPoints(w)
  <2>1. workers[w].pc = "verify"
    BY <1>3 DEF VerifyPoints
  <2>2. CASE points # Chunks
    <3>1. Raise(w, FALSE, "external")
      BY <1>3, <2>2 DEF VerifyPoints
    <3> QED
      BY <1>0, <2>1, <3>1, StepRaise
  <2>3. CASE points = Chunks
    <3>1. Goto(w, "commitValidated") /\ "commitValidated" \in Pc
      BY <1>3, <2>3 DEF VerifyPoints, Pc
    <3> DEFINE v == [workers[w] EXCEPT !.pc = "commitValidated"]
    <3>2. /\ v \in Worker /\ Put(w, v) /\ workers'[w] = v
          /\ workers'[w].pc = "commitValidated" /\ workers'[w].job = workers[w].job
          /\ workers'[w].epoch = workers[w].epoch /\ workers'[w].stage = workers[w].stage
          /\ workers'[w].counted = workers[w].counted /\ workers'[w].cause = workers[w].cause
      BY <3>1, <1>0, GotoFields DEF Goto
    <3> HIDE DEF v
    <3>3. Holds(w) => HolderMatches(w)'
      <4>1. SUFFICES ASSUME Holds(w) PROVE HolderMatches(w)'
        OBVIOUS
      <4>2. HolderMatches(w)
        BY <4>1 DEF IInv
      <4>3. workers'[w].stage = Job(w)'.stage
        BY <4>2, <3>2, <1>0 DEF Job, HolderMatches
      <4> QED
        BY <4>2, <4>3, <3>2, <2>1, <1>0 DEF HolderMatches
    <3> QED
      BY <1>0, <2>1, <3>2, <3>3, StepWorker
  <2> QED
    BY <2>2, <2>3
<1> QED
  BY <1>2, <1>3

\* commit_validate_count: the count a holder stores is the number of chunks.
LEMMA ActValidateCount ==
  ASSUME IInv, NEW w \in Workers, CommitValidateCount(w)
  PROVE  IInv'
<1> DEFINE valid == IndexedSnapshotValid /\ state.actual \in {None, workers[w].counted}
<1>0. TypeOK /\ UNCHANGED external /\ workers[w].pc = "commitCount"
  BY DEF IInv, CommitValidateCount
<1>1. CASE ~StageFence(w)
  BY <1>0, <1>1, StepUncommitted DEF CommitValidateCount, Commit
<1>2. ASSUME StageFence(w) PROVE IInv'
  <2>1. Holds(w)
    BY <1>0, <1>2, FenceHolds
  <2>2. PICK n \in JobIds : n = workers[w].job
    BY <1>0, WorkerFields
  <2>3. /\ Newest(n) /\ doc = "processing" /\ FactsMatch(n) /\ StatusMatch(n)
        /\ HolderMatches(w) /\ jobs[n].status = "running" /\ Job(w) = jobs[n]
        /\ workers[w].stage = "validate" /\ jobs[n].stage = "validate"
        /\ workers[w].counted = ChunkCount
    BY <1>0, <2>1, <2>2, HolderFacts DEF HolderMatches, Job
  <2>4. valid \/ kb # "active"
    BY <2>3 DEF GraphValid, IndexedSnapshotValid, FactsMatch, StatusMatch
  <2>5. CASE ~valid
    BY <1>0, <1>2, <2>4, <2>5, StepUncommitted DEF CommitValidateCount, Commit
  <2>6. CASE valid
    <3> DEFINE v == [workers[w] EXCEPT !.pc = "verify"]
    <3>1. /\ state' = [state EXCEPT !.actual = ChunkCount] /\ UNCHANGED <<kb, doc, version>>
          /\ SetJob(w, Job(w)) /\ Put(w, v)
      BY <1>2, <2>3, <2>6 DEF CommitValidateCount, Commit
    <3>2. /\ state' \in StateRow /\ state'.actual = ChunkCount /\ state'.status = state.status
          /\ state'.next = state.next /\ state'.validated = state.validated
      <4>1. state \in StateRow /\ ChunkCount \in 0 .. None
        BY <1>0 DEF TypeOK, None
      <4>2. state' \in StateRow
        BY <3>1, <4>1 DEF StateRow
      <4> QED
        BY <3>1, <4>1, <4>2 DEF StateRow
    <3>3. "verify" \in Pc /\ Goto(w, "verify")
      BY <3>1 DEF Pc, Goto
    <3>4. /\ v \in Worker /\ workers'[w] = v
          /\ workers'[w].pc = "verify" /\ workers'[w].job = workers[w].job
          /\ workers'[w].epoch = workers[w].epoch /\ workers'[w].stage = workers[w].stage
          /\ workers'[w].counted = workers[w].counted /\ workers'[w].cause = workers[w].cause
      BY <3>3, <1>0, GotoFields
    <3> HIDE DEF v
    <3>5. \A j \in JobIds : jobs'[j] = jobs[j]
      BY <1>0, <2>2, <2>3, <3>1 DEF SetJob, TypeOK
    <3>6. OnlyLateCleanupLoses' /\ CheckpointBacked'
      BY <1>0, <3>1, <3>2 DEF IInv, OnlyLateCleanupLoses, Referenced, CheckpointBacked, external
    <3>7. Story(n)'
      <4>1. Newest(n)'
        BY <2>3, <3>1, <3>5 DEF Newest
      <4>2. FactsMatch(n)'
        BY <2>3, <3>1, <3>2, <3>5 DEF FactsMatch
      <4>3. StatusMatch(n)'
        BY <2>3, <3>1, <3>2, <3>5 DEF StatusMatch
      <4> QED
        BY <4>1, <4>2, <4>3 DEF Story
    <3>8. HolderMatches(w)'
      <4>1. workers'[w].stage = Job(w)'.stage
        BY <2>2, <2>3, <3>4, <3>5 DEF Job
      <4> QED
        BY <4>1, <2>3, <3>1, <3>2, <3>4 DEF HolderMatches
    <3>9. Job(w) \in JobRow /\ version' \in VersionRow /\ doc' \in {"processing", "active", "failed"}
      BY <1>0, <2>3, <3>1, WorkerFields DEF TypeOK
    <3> QED
      BY <1>0, <2>1, <2>2, <3>1, <3>2, <3>4, <3>6, <3>7, <3>8, <3>9, StepCommit
  <2> QED
    BY <2>5, <2>6
<1> QED
  BY <1>1, <1>2

\* commit_validate_stage.
LEMMA ActValidateStage ==
  ASSUME IInv, NEW w \in Workers, CommitValidateStage(w)
  PROVE  IInv'
<1> DEFINE valid == /\ IndexedSnapshotValid /\ workers[w].counted = ChunkCount
                    /\ state.actual = workers[w].counted
<1>0. TypeOK /\ UNCHANGED external /\ workers[w].pc = "commitValidated"
  BY DEF IInv, CommitValidateStage
<1>1. CASE ~StageFence(w)
  BY <1>0, <1>1, StepUncommitted DEF CommitValidateStage, Commit
<1>2. ASSUME StageFence(w) PROVE IInv'
  <2>1. Holds(w)
    BY <1>0, <1>2, FenceHolds
  <2>2. PICK n \in JobIds : n = workers[w].job
    BY <1>0, WorkerFields
  <2>3. /\ doc = "processing" /\ FactsMatch(n) /\ StatusMatch(n)
        /\ HolderMatches(w) /\ Job(w) = jobs[n] /\ jobs[n].stage = "validate"
        /\ workers[w].counted = ChunkCount /\ state.actual = ChunkCount
    BY <1>0, <2>1, <2>2, HolderFacts DEF HolderMatches, Job
  <2>4. valid \/ kb # "active"
    BY <2>3 DEF GraphValid, IndexedSnapshotValid, FactsMatch, StatusMatch
  <2>5. CASE ~valid
    BY <1>0, <1>2, <2>4, <2>5, StepUncommitted DEF CommitValidateStage, Commit
  <2>6. CASE valid
    <3>1. /\ state' = [state EXCEPT !.status = "validated", !.validated = TRUE]
          /\ UNCHANGED <<kb, doc, version>>
          /\ SetJob(w, Advanced(w, "activate", ChunkCount)) /\ Put(w, NextStage(w, "activate"))
      BY <1>2, <2>6 DEF CommitValidateStage, Commit
    <3>2. /\ state' \in StateRow /\ state'.status = "validated" /\ state'.validated
          /\ state'.next = state.next /\ state'.actual = state.actual
      BY <1>0, <3>1 DEF TypeOK, StateRow
    <3>3. OnlyLateCleanupLoses' /\ CheckpointBacked'
      BY <1>0, <3>1, <3>2 DEF IInv, OnlyLateCleanupLoses, Referenced, CheckpointBacked, external
    <3>4. jobs'[n].stage = "activate" /\ jobs'[n].progress = ChunkCount
            => FactsMatch(n)' /\ StatusMatch(n)'
      BY <2>3, <3>1, <3>2 DEF FactsMatch, StatusMatch
    <3>5. "activate" \in Stages /\ ChunkCount \in 0 .. ChunkCount /\ version' \in VersionRow
      BY <1>0, <3>1 DEF Stages, TypeOK
    <3> QED
      BY <1>0, <2>1, <2>2, <3>1, <3>2, <3>3, <3>4, <3>5, StepAdvance
  <2> QED
    BY <2>5, <2>6
<1> QED
  BY <1>1, <1>2

\* commit_activation.
LEMMA ActActivation ==
  ASSUME IInv, NEW w \in Workers, CommitActivation(w)
  PROVE  IInv'
<1> DEFINE valid == /\ GraphValid /\ version.status = "indexing" /\ version.manifest
                    /\ state.status = "validated" /\ state.validated
                    /\ state.actual = ChunkCount /\ state.next = ChunkCount
<1>0. TypeOK /\ UNCHANGED external /\ workers[w].pc = "activating"
  BY DEF IInv, CommitActivation
<1>1. CASE ~StageFence(w)
  BY <1>0, <1>1, StepUncommitted DEF CommitActivation, Commit
<1>2. ASSUME StageFence(w) PROVE IInv'
  <2>1. Holds(w)
    BY <1>0, <1>2, FenceHolds
  <2>2. PICK n \in JobIds : n = workers[w].job
    BY <1>0, WorkerFields
  <2>3. /\ Newest(n) /\ doc = "processing" /\ FactsMatch(n) /\ StatusMatch(n)
        /\ Job(w) = jobs[n] /\ jobs[n].stage = "activate"
    BY <1>0, <2>1, <2>2, HolderFacts DEF HolderMatches, Job
  <2>4. valid \/ kb # "active"
    BY <2>3 DEF GraphValid, FactsMatch, StatusMatch
  <2>5. CASE ~valid
    BY <1>0, <1>2, <2>4, <2>5, StepUncommitted DEF CommitActivation, Commit
  <2>6. CASE valid
    <3> DEFINE r == [Job(w) EXCEPT !.status = "succeeded", !.live = FALSE, !.retryable = FALSE]
    <3>1. /\ doc' = "active" /\ version' = [version EXCEPT !.status = "ready"]
          /\ UNCHANGED <<kb, state>> /\ SetJob(w, r) /\ Put(w, Idle)
      BY <1>2, <2>6 DEF CommitActivation, Commit
    <3>2. r \in JobRow /\ r.status = "succeeded" /\ r.epoch = Job(w).epoch
      <4>1. Job(w) \in JobRow
        BY <1>0, WorkerFields
      <4> QED
        BY <4>1 DEF JobRow
    <3> HIDE DEF r
    <3>3. /\ version' \in VersionRow /\ version'.parsed = version.parsed
          /\ version'.manifest = version.manifest
      BY <1>0, <3>1 DEF TypeOK, VersionRow
    <3>4. \A j \in JobIds : jobs'[j] = IF j = n THEN r ELSE jobs[j]
      BY <1>0, <2>2, <3>1 DEF SetJob, TypeOK
    <3>5. OnlyLateCleanupLoses' /\ CheckpointBacked'
      BY <1>0, <3>1, <3>3 DEF IInv, OnlyLateCleanupLoses, Referenced, CheckpointBacked, external
    <3>6. Story(n)'
      BY <2>3, <3>1, <3>2, <3>4 DEF Story, Newest, Unsettled
    <3>7. state' \in StateRow
      BY <1>0, <3>1 DEF TypeOK
    <3> QED
      BY <1>0, <2>1, <2>2, <3>1, <3>2, <3>3, <3>5, <3>6, <3>7, IdleOK, StepCommit
  <2> QED
    BY <2>5, <2>6
<1> QED
  BY <1>1, <1>2

-----------------------------------------------------------------------------
(* Manual retry.                                                            *)

\* What RetryCompatible found is what the child job's stage goes on from.
LEMMA ResumedStory ==
  ASSUME TypeOK, NEW n \in JobIds, FactsMatch(n), NEW j \in JobIds, NEW k \in JobIds,
         RetryCompatible(jobs[j]),
         jobs'[k].stage = jobs[j].stage, jobs'[k].progress = jobs[j].progress,
         version' = [version EXCEPT !.status = ResumeStatus(jobs[j].stage).version],
         state' = [state EXCEPT !.status = ResumeStatus(jobs[j].stage).state]
  PROVE  FactsMatch(k)' /\ StatusMatch(k)' /\ version' \in VersionRow /\ state' \in StateRow
<1>1. jobs[j].stage \in Stages /\ jobs[n].stage \in Stages
  BY JobFields
<1>2. /\ version \in VersionRow /\ state \in StateRow
      /\ None \in Nat /\ ChunkCount # None
  BY DEF TypeOK, None
<1>3. /\ ResumeStatus(jobs[j].stage).version \in {"uploaded", "chunking", "embedding", "indexing"}
      /\ ResumeStatus(jobs[j].stage).state \in {"queued", "embedding", "indexing", "validated"}
  BY <1>1 DEF ResumeStatus, Stages
<1> DEFINE a == ResumeStatus(jobs[j].stage).version
           b == ResumeStatus(jobs[j].stage).state
<1>4. /\ version' \in VersionRow /\ version'.status = a
      /\ version'.parsed = version.parsed /\ version'.manifest = version.manifest
  <2>1. a \in {"uploaded", "chunking", "embedding", "indexing"}
    BY <1>3
  <2> HIDE DEF a
  <2>2. version' = [version EXCEPT !.status = a]
    BY DEF a
  <2> QED
    BY <1>2, <2>1, <2>2 DEF VersionRow
<1>5. /\ state' \in StateRow /\ state'.status = b /\ state'.actual = state.actual
      /\ state'.next = state.next /\ state'.validated = state.validated
  <2>1. b \in {"queued", "embedding", "indexing", "validated"}
    BY <1>3
  <2> HIDE DEF b
  <2>2. state' = [state EXCEPT !.status = b]
    BY DEF b
  <2> QED
    BY <1>2, <2>1, <2>2 DEF StateRow
<1>6. state.actual = None => ~state.validated
  BY <1>1, <1>2 DEF FactsMatch, Stages
<1>7. FactsMatch(k)'
  BY <1>1, <1>4, <1>5, <1>6 DEF RetryCompatible, FactsMatch, ValidParsedSnapshot,
     ValidManifestSnapshot, NothingIndexed, FullyIndexed, Stages
<1>8. StatusMatch(k)'
  BY <1>1, <1>4, <1>5 DEF StatusMatch, ResumeStatus, Stages
<1> QED
  BY <1>4, <1>5, <1>7, <1>8

LEMMA NewJobFields ==
  /\ NewJob \in JobRow /\ NewJob.status = "queued" /\ NewJob.stage = "parse"
  /\ NewJob.progress = 0 /\ NewJob.epoch = 0
  /\ Absent \in JobRow /\ Absent.status = "absent" /\ Absent.epoch = 0
<1>1. /\ Absent \in JobRow /\ Absent.status = "absent" /\ Absent.epoch = 0
      /\ Absent.stage = "parse" /\ Absent.progress = 0
  BY DEF Absent, JobRow, Unsettled, Stages
<1>2. NewJob = [Absent EXCEPT !.status = "queued", !.retryable = TRUE]
  BY DEF NewJob
<1> QED
  BY <1>1, <1>2 DEF JobRow, Unsettled

\* reserve_manual_retry.
LEMMA ActRetry ==
  ASSUME IInv, NEW j \in JobIds, NEW k \in JobIds, ReserveManualRetry(j, k)
  PROVE  IInv'
<1> USE DEF external
<1> DEFINE r == [NewJob EXCEPT !.stage = jobs[j].stage, !.progress = jobs[j].progress]
<1>0. TypeOK /\ doc = "failed" /\ doc' = "processing" /\ jobs' = [jobs EXCEPT ![k] = r]
      /\ UNCHANGED <<kb, external, workers>> /\ jobs[k].status = "absent"
      /\ \A i \in JobIds : i < k => jobs[i].status # "absent"
  BY DEF IInv, ReserveManualRetry, RetryAllowed
<1>1. PICK n \in JobIds : Story(n)
  BY DEF IInv
<1>2. Newest(n) /\ FactsMatch(n) /\ jobs[n].status = "failed"
  BY <1>0, <1>1 DEF Story, Newest
<1>3. n < k /\ jobs[k].epoch = 0
  <2>1. n \in Nat /\ k \in Nat
    OBVIOUS
  <2> QED
    BY <1>0, <1>2, <2>1 DEF Newest
<1>4. r \in JobRow /\ r.status = "queued" /\ r.epoch = 0
      /\ r.stage = jobs[j].stage /\ r.progress = jobs[j].progress
  <2>1. jobs[j].stage \in Stages /\ jobs[j].progress \in 0 .. ChunkCount
    BY <1>0, JobFields
  <2> QED
    BY <2>1, NewJobFields DEF JobRow
<1> HIDE DEF r
<1>5. /\ jobs' \in [JobIds -> JobRow]
      /\ \A i \in JobIds : jobs'[i] = IF i = k THEN r ELSE jobs[i]
  BY <1>0, <1>4 DEF TypeOK
<1>6. FactsMatch(k)' /\ StatusMatch(k)' /\ version' \in VersionRow /\ state' \in StateRow
  BY <1>0, <1>2, <1>4, <1>5, ResumedStory DEF ReserveManualRetry
<1>7. /\ version'.parsed = version.parsed /\ version'.manifest = version.manifest
      /\ state'.next = state.next
  <2>1. version \in VersionRow /\ state \in StateRow
    BY <1>0 DEF TypeOK
  <2> QED
    BY <2>1 DEF ReserveManualRetry, VersionRow, StateRow
<1>8. TypeOK'
  BY <1>0, <1>5, <1>6 DEF TypeOK
<1>9. OnlyLateCleanupLoses' /\ CheckpointBacked'
  BY <1>0, <1>7 DEF IInv, OnlyLateCleanupLoses, Referenced, CheckpointBacked
<1>10. LeasesApart'
  <2>1. \A i \in JobIds : jobs'[i].epoch = jobs[i].epoch
    BY <1>3, <1>4, <1>5
  <2>2. \A u \in Workers : workers[u].job \in JobIds
    BY <1>0, WorkerFields
  <2> QED
    BY <1>0, <2>1, <2>2 DEF IInv, LeasesApart, Job
<1>11. Story(k)'
  <2>1. Newest(k)'
    <3>1. ASSUME NEW i \in JobIds, i < k PROVE jobs[i].status = "failed"
      <4>1. i \in Nat /\ n \in Nat /\ jobs[i].status # "absent"
        BY <1>0, <3>1
      <4>2. i < n \/ i = n
        BY <1>2, <4>1 DEF Newest
      <4> QED
        BY <1>2, <4>2 DEF Newest
    <3>2. ASSUME NEW i \in JobIds, i > k PROVE jobs[i].status = "absent" /\ jobs[i].epoch = 0
      <4>1. i \in Nat /\ n \in Nat /\ k \in Nat
        OBVIOUS
      <4> QED
        BY <1>2, <1>3, <3>2, <4>1 DEF Newest
    <3>3. k \in Nat /\ \A i \in JobIds : i \in Nat
      OBVIOUS
    <3> QED
      BY <1>0, <1>4, <1>5, <3>1, <3>2, <3>3 DEF Newest, Unsettled
  <2> QED
    BY <1>6, <2>1 DEF Story
<1>12. ASSUME NEW u \in Workers, Holds(u)' PROVE FALSE
  <2>1. workers[u].job \in JobIds
    BY <1>0, WorkerFields
  <2>2. jobs'[workers[u].job].status = "running"
    BY <1>0, <1>12 DEF Holds, Job
  <2>3. jobs[workers[u].job].status = "running"
    BY <1>4, <1>5, <2>1, <2>2
  <2> QED
    BY <1>0, <1>2, <2>1, <2>3, UnsettledIsNewest DEF Unsettled
<1> QED
  BY <1>8, <1>9, <1>10, <1>11, <1>12 DEF IInv

-----------------------------------------------------------------------------
(* The theorems.                                                            *)

LEMMA InitIInv == Init => IInv
<1> SUFFICES ASSUME Init PROVE IInv
  OBVIOUS
<1> USE DEF Init
<1>1. NewVersion \in VersionRow /\ ~NewVersion.parsed /\ ~NewVersion.manifest
      /\ NewVersion.status = "uploaded"
  BY DEF NewVersion, VersionRow
<1>2. NewState \in StateRow /\ NewState.next = 0 /\ NewState.actual = None
      /\ ~NewState.validated /\ NewState.status = "queued"
  BY DEF NewState, StateRow, None
<1>3. NewJob \in JobRow /\ NewJob.status = "queued" /\ NewJob.stage = "parse"
      /\ NewJob.progress = 0 /\ NewJob.epoch = 0
      /\ Absent \in JobRow /\ Absent.status = "absent" /\ Absent.epoch = 0
  BY NewJobFields
<1>4. 1 \in JobIds /\ jobs \in [JobIds -> JobRow] /\ jobs[1] = NewJob
      /\ \A j \in JobIds : j # 1 => jobs[j] = Absent
  BY <1>3
<1>5. workers \in [Workers -> Worker] /\ \A w \in Workers : workers[w].pc = "idle"
  BY IdleOK
<1>6. TypeOK
  BY <1>1, <1>2, <1>4, <1>5 DEF TypeOK
<1>7. OnlyLateCleanupLoses /\ CheckpointBacked
  <2>1. \A o \in Artifacts : ~Referenced(o)
    BY <1>1 DEF Referenced, Artifacts
  <2>2. \A c \in Chunks : ~(c < state.next)
    BY <1>2 DEF Chunks
  <2> QED
    BY <2>1, <2>2 DEF OnlyLateCleanupLoses, CheckpointBacked
<1>8. LeasesApart /\ \A w \in Workers : ~Holds(w)
  BY <1>5 DEF LeasesApart, Holds
<1>9. Story(1)
  <2>1. Newest(1)
    BY <1>3, <1>4 DEF Newest, Unsettled
  <2>2. FactsMatch(1) /\ StatusMatch(1)
    BY <1>1, <1>2, <1>3, <1>4 DEF FactsMatch, StatusMatch
  <2> QED
    BY <2>1, <2>2 DEF Story
<1> QED
  BY <1>4, <1>6, <1>7, <1>8, <1>9 DEF IInv

LEMMA NextIInv == IInv /\ [Next]_vars => IInv'
<1> SUFFICES ASSUME IInv, [Next]_vars PROVE IInv'
  OBVIOUS
<1>1. CASE UNCHANGED vars
  <2>1. UNCHANGED <<domain, jobs, workers, external>>
    BY <1>1 DEF vars, domain, external
  <2>2. ExternalKept
    BY <2>1, ExternalSame DEF IInv
  <2> QED
    BY <2>1, <2>2, StepExternal
<1>2. ASSUME NEW w \in Workers, StageStep(w) PROVE IInv'
  BY <1>2, ActLoad, ActParseStarted, ActPublish, ActParseStage, ActChunkStage, ActUpsert,
     ActEmbedProgress, ActCountVerify, ActValidateCount, ActValidateStage, ActActivation,
     ActErrors, ActFailures DEF StageStep
<1>3. ASSUME NEW w \in Workers, ClaimStep(w) PROVE IInv'
  BY <1>3, ActClaim, ActFailures DEF ClaimStep
<1>4. ASSUME NEW w \in Workers,
             \/ UnexpectedError(w) \/ Crash(w) \/ CopyDetached(w)
             \/ \E retryable \in BOOLEAN : StageError(w, retryable)
      PROVE  IInv'
  BY <1>4, ActFailures, ActErrors, ActPublish
<1>5. ASSUME NEW j \in JobIds, LeaseExpires(j) \/ \E k \in JobIds : ReserveManualRetry(j, k)
      PROVE  IInv'
  BY <1>5, ActBeside, ActRetry
<1>6. ASSUME \/ \E o \in objects : ReconcileObject(o)
             \/ \E o \in Artifacts : LateCopy(o) \/ LateCleanup(o) \/ CopyForgotten(o)
             \/ KnowledgeBaseCloses
      PROVE  IInv'
  BY <1>6, ActObjects, ActBeside
<1> QED
  BY <1>1, <1>2, <1>3, <1>4, <1>5, <1>6 DEF Next

\* The invariant the others follow from: the newest job, the rows, the objects,
\* the points and the holder of the lease agree after every stage transaction,
\* failure, crash, claim and manual retry (ingestion/pipeline.py, jobs/queue.py).
THEOREM IngestionInductive == Spec => []IInv
BY InitIInv, NextIInv, PTL DEF Spec

\* No referenced artifact is lost but by the cleanup of a copy that landed late,
\* whatever the reconciler, other workers and manual retries do between
\* publish_temp and the commit that references it.
THEOREM OnlyLateCleanupAlways == Spec => []OnlyLateCleanupLoses
<1>1. IInv => OnlyLateCleanupLoses
  BY DEF IInv
<1> QED
  BY <1>1, IngestionInductive, PTL

LEMMA ProgressFollows == IInv => ProgressConsistent
<1> SUFFICES ASSUME IInv PROVE ProgressConsistent
  OBVIOUS
<1>0. TypeOK /\ CheckpointBacked
  BY DEF IInv
<1>1. PICK n \in JobIds : Story(n)
  BY DEF IInv
<1>2. Newest(n) /\ n \in Nat /\ \A j \in JobIds : j \in Nat
  BY <1>1 DEF Story
<1>3. SettledTogether
  <2>1. doc = "active" <=> \E j \in JobIds : jobs[j].status = "succeeded"
    <3>1. ASSUME NEW j \in JobIds, jobs[j].status = "succeeded" PROVE doc = "active"
      <4>1. j = n
        BY <1>2, <3>1 DEF Newest
      <4> QED
        BY <1>0, <1>2, <3>1, <4>1 DEF Newest, Unsettled, TypeOK
    <3> QED
      BY <1>2, <3>1 DEF Newest
  <2>2. doc # "processing" => \A j \in JobIds : jobs[j].status \notin Unsettled
    BY <1>0, <1>2, UnsettledIsNewest
  <2>3. doc = "processing" => \E j \in JobIds : \/ jobs[j].status \in Unsettled
                                                \/ jobs[j].error = "handler"
    BY <1>2 DEF Newest
  <2> QED
    BY <2>1, <2>2, <2>3 DEF SettledTogether
<1>4. ResumeConsistent
  BY DEF IInv, ResumeConsistent, HolderMatches
<1>5. ASSUME NEW j \in JobIds, RetryAllowed(j),
             \A k \in JobIds : k > j => jobs[k].status = "absent"
      PROVE  RetryCompatible(jobs[j])
  <2>1. jobs[j].status = "failed" /\ doc = "failed"
    BY <1>5 DEF RetryAllowed
  <2>2. jobs[n].status = "failed" /\ FactsMatch(n)
    BY <1>1, <1>2, <2>1 DEF Story, Newest
  <2>3. j = n
    <3>1. ~(n > j) /\ ~(j > n)
      BY <1>2, <1>5, <2>1, <2>2 DEF Newest
    <3> QED
      BY <1>2, <3>1
  <2>4. jobs[n].stage \in Stages /\ state.next \in 0 .. ChunkCount
    BY <1>0, JobFields DEF TypeOK, StateRow
  <2>5. jobs[n].stage \notin {"parse", "chunk"} => ValidParsedSnapshot /\ ValidManifestSnapshot
    BY <2>2, <2>4 DEF FactsMatch, ValidParsedSnapshot, ValidManifestSnapshot
  <2> DEFINE s == jobs[n].stage
  <2>6. CASE s \in {"parse", "chunk"}
    BY <2>2, <2>3, <2>6 DEF FactsMatch, RetryCompatible, ValidParsedSnapshot, NothingIndexed
  <2>7. CASE s = "embed_index"
    BY <2>2, <2>3, <2>5, <2>7 DEF FactsMatch, RetryCompatible
  <2>8. CASE s = "validate"
    BY <2>2, <2>3, <2>5, <2>8 DEF FactsMatch, RetryCompatible, FullyIndexed
  <2>9. CASE s = "activate"
    BY <2>2, <2>3, <2>5, <2>9 DEF FactsMatch, RetryCompatible, FullyIndexed
  <2> QED
    BY <2>4, <2>6, <2>7, <2>8, <2>9 DEF Stages
<1>6. RetryNeverMismatched
  BY <1>5 DEF RetryNeverMismatched
<1> QED
  BY <1>0, <1>3, <1>4, <1>6 DEF ProgressConsistent

\* Rows, checkpoint and points tell one story: job and document settle together,
\* a resumed stage meets no INGESTION_STAGE_CONFLICT while the knowledge base is
\* active, every committed chunk has its point, and the newest failed job can be
\* retried without JOB_RETRY_STATE_MISMATCH.
THEOREM ProgressAlways == Spec => []ProgressConsistent
BY ProgressFollows, IngestionInductive, PTL

=============================================================================
