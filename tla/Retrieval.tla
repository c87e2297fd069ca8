------------------------------ MODULE Retrieval ------------------------------
(***************************************************************************)
(* Searches (SearchService, retrieval/services.py) while the index they    *)
(* read changes: documents being ingested and activated, a cutover to the  *)
(* next generation, the rebuild that fills it, the deletion of the         *)
(* knowledge base, and configurations switched off.                        *)
(*                                                                         *)
(* The session of a request keeps its transaction open to the end, but at  *)
(* READ COMMITTED each statement sees what is committed when it runs:      *)
(* every query of the repository, the embedding of the query, the two      *)
(* calls to Qdrant, the reranker and the two logs are steps of their own.  *)
(* Admission to the embedding provider is EmbeddingAdmission's subject,    *)
(* the jobs that write the index are DocumentIngestion's and               *)
(* GenerationCutover's.                                                    *)
(***************************************************************************)
EXTENDS VectorIndex, SequencesExt

CONSTANTS
  Searches,       \* calls of search
  Requests,       \* bodies of a search request, with the right to send them
  Schema,         \* Schema[g]: the filter fields of generation g's snapshot
  Factor, Floor, Ceiling,  \* of candidate_limit: 4, 20 and 200 in the code
  MaxRerank,      \* max_concurrency of the rerank gateway
  MaxObservers,   \* _MAX_ATTEMPT_OBSERVER_TASKS
  Plans           \* which searches, preparations and changes may happen

\* A body after SearchRequest's validation.  A field stands for a name with an
\* operator and a value that fits; kind only names the request.
SearchRequest ==
  [kind : STRING, topK : Nat \ {0}, docs : SUBSET Docs, fields : SUBSET STRING,
   rerank : BOOLEAN, allowed : BOOLEAN]

ASSUME RetrievalAssumption ==
  /\ Requests \subseteq SearchRequest
  /\ Schema \in [Generations -> SUBSET STRING]
  /\ Factor \in Nat /\ Floor \in Nat /\ Ceiling \in Nat
  /\ MaxRerank \in Nat \ {0} /\ MaxObservers \in Nat \ {0}
  /\ IsFiniteSet(Searches)

\* The documents a plan starts with, and how many of the faults are its own.
ASSUME PlansAssumption ==
  \A p \in Plans : p.live \subseteq Docs /\ p.faults \in 0..MaxFaults

VARIABLES
  plan,       \* the plan of this behaviour
  kb,         \* status of the knowledge base, "gone" once its rows are purged
  activeGen,  \* active_index_generation_id
  docs,       \* docs[d]: status of the document
  states,     \* states[g]: documents with a validated index state in g
  config,     \* which of the configurations a search depends on are in force
  changes,    \* how many changes of the index or its configuration have happened
  search,     \* search[s]: progress of a search and what it remembers
  permits,    \* permits of the rerank gateway that are taken
  observers,  \* observers[s]: the task that reports the attempt of a search
  usage,      \* usage[s]: the attempts recorded in provider_usage
  queryLog,   \* queryLog[s]: the rows in query_logs
  ever        \* history: what was visible and active since the search began

serviceVars == <<search, permits, observers, usage, queryLog>>
metadataVars == <<kb, activeGen, docs, states, config, changes>>
searchVars == <<indexVars, plan, metadataVars, serviceVars, ever>>

NewSearch ==
  [pc |-> "idle", req |-> <<>>, gen |-> 0, reranker |-> FALSE, filter |-> {},
   attempt |-> "none", candidates |-> <<>>, visible |-> <<>>, results |-> <<>>,
   code |-> "none", status |-> "failed", degraded |-> FALSE, cancelled |-> FALSE,
   \* history: the points that matched the query, and those that could be shown
   \* when the candidates were looked at
   offered |-> {}, shown |-> {},
   \* history: the query went to the provider
   sent |-> FALSE]

Switches == {"profile", "provider", "credential", "rerankProfile", "reranker"}

\* Documents in plan.live were ingested into generation 1 before.
SearchInitWith(p) ==
  /\ plan = p
  /\ collections = [g \in Generations |->
       IF g = 1
       THEN [kind |-> "managed", indexes |-> Indexes,
             points |-> UNION {PointsOf(1, d) : d \in p.live}]
       ELSE IF p.ready THEN [NewCollection EXCEPT !.indexes = Indexes]
       ELSE IF p.foreign THEN [NoCollection EXCEPT !.kind = "foreign"]
       ELSE NoCollection]
  /\ prepare = [c \in Preparers |->
       [pc |-> IF p.ready THEN "ready" ELSE "idle", gen |-> 2, missing |-> {}]]
  /\ removal = NoRemoval /\ writer = NoWriter /\ faults = MaxFaults - p.faults
  /\ kb = "active" /\ activeGen = 1
  /\ docs = [d \in Docs |-> IF d \in p.live THEN "active" ELSE "processing"]
  /\ states = [g \in Generations |-> IF g = 1 THEN p.live ELSE {}]
  /\ config = Switches
  /\ changes = 0
  /\ search = [s \in Searches |-> NewSearch]
  /\ permits = 0 /\ observers = [s \in Searches |-> "none"]
  /\ usage = [s \in Searches |-> <<>>] /\ queryLog = [s \in Searches |-> <<>>]
  /\ ever = [s \in Searches |-> [visible |-> {}, active |-> {}]]

SearchInit == \E p \in Plans : SearchInitWith(p)

-----------------------------------------------------------------------------
(* What a search reads *)

\* _visible_documents_statement: the document is active, its current version
\* ready and activated, and its index state in generation g validated with the
\* counts, checksum and configuration hash of that generation.
Visible(g) == IF kb = "gone" THEN {} ELSE {d \in states[g] : docs[d] = "active"}

DocOf(point) == point[2]

CandidateLimit(k) == Min({Max({k * Factor, Floor}), Ceiling})

\* compile_search_filter: only fields of the generation's own snapshot.
Compiles(q, g) == q.fields \subseteq Schema[g]

\* QdrantSearchFilter: the points that the server may return.
Matching(s) ==
  {p \in collections[search[s].gen].points :
     search[s].filter = {} \/ DocOf(p) \in search[s].filter}

FirstOf(seq, k) == SubSeq(seq, 1, Min({k, Len(seq)}))

-----------------------------------------------------------------------------
(* The steps of a search *)

Reached(s, pc) == search[s].pc = pc

Become(s, r) == search' = [search EXCEPT ![s] = r]

Goto(s, pc) == Become(s, [search[s] EXCEPT !.pc = pc])

\* The response, or the error, then the finally block.
Ended(s, status, code) ==
  [search[s] EXCEPT !.pc = "log", !.status = status, !.code = code]

Fail(s, code) == Become(s, Ended(s, "failed", code))
Reject(s, code) == Become(s, Ended(s, "rejected", code))

Answer(s, results, degraded) ==
  Become(s, [Ended(s, "succeeded", "ok") EXCEPT !.results = results,
                                                !.degraded = @ \/ degraded])

Unobserved == UNCHANGED <<permits, observers, usage, queryLog>>
Reading == UNCHANGED <<indexVars, metadataVars>> /\ Unobserved

\* One more call fails.
Fault ==
  /\ faults < MaxFaults
  /\ faults' = faults + 1
  /\ UNCHANGED <<collections, prepare, removal, writer, metadataVars>>

\* A request arrives and its right to the knowledge base is checked.
Submit(s) ==
  /\ Reached(s, "idle") /\ s \in plan.searches
  /\ \E q \in Requests :
       /\ q.kind \in plan.requests
       /\ Become(s, IF q.allowed THEN [NewSearch EXCEPT !.pc = "target", !.req = q]
                    ELSE [NewSearch EXCEPT !.pc = "log", !.req = q, !.status = "rejected",
                                           !.code = "notFound"])
  /\ Reading

\* get_active_target: the knowledge base joined with its active generation.
ActiveTarget == [status |-> kb, gen |-> activeGen, reranker |-> "rerankProfile" \in config]

\* Read once; the rest of the search stays with the generation it names.
ReadTarget(s) ==
  LET q == search[s].req
      target == ActiveTarget
      compiles == Compiles(q, target.gen)
  IN /\ Reached(s, "target")
     /\ \/ target.status # "active" /\ Fail(s, "unavailable")
        \/ target.status = "active" /\ ~compiles /\ Reject(s, "filter")
        \/ /\ target.status = "active" /\ compiles
           /\ Become(s, [search[s] EXCEPT !.pc = "runtime", !.gen = target.gen,
                                          !.reranker = target.reranker])
     /\ Reading

\* get_embedding_runtime: profile and provider are enabled, and the provider
\* still has the credential of the generation's snapshot.
EmbeddingInForce == {"profile", "provider", "credential"} \subseteq config

ReadRuntime(s) ==
  /\ Reached(s, "runtime")
  /\ IF EmbeddingInForce
     THEN Goto(s, IF search[s].req.docs = {} THEN "credential" ELSE "documents")
     ELSE Fail(s, "unavailable")
  /\ Reading

\* load_visible_document_filters
VisibleFilter(s) == search[s].req.docs \cap Visible(search[s].gen)

\* Documents that cannot be found anyway are dropped from the filter, and with
\* none left there is nothing to embed.
FilterDocuments(s) ==
  /\ Reached(s, "documents")
  /\ IF VisibleFilter(s) = {} THEN Answer(s, <<>>, FALSE)
     ELSE Become(s, [search[s] EXCEPT !.pc = "credential", !.filter = VisibleFilter(s)])
  /\ Reading

\* A query of the repository fails.
DatabaseFails(s) ==
  /\ search[s].pc \in {"target", "runtime", "documents", "recheck"}
  /\ Fault /\ Fail(s, "error") /\ Unobserved

-----------------------------------------------------------------------------
(* The embedding of the query *)

\* get_encrypted, after admission: without a credential that can be used nothing
\* is sent, and nothing is reported.
ReadCredential(s) ==
  /\ Reached(s, "credential")
  /\ \/ Become(s, [search[s] EXCEPT !.pc = "call", !.sent = TRUE]) /\ Reading
     \/ Fault /\ Fail(s, "embedding") /\ Unobserved

\* What may come of the request: the vector, with telemetry that can be read or
\* not; a body that is no vector of the right dimension; a status that is not
\* 200; no answer in time.
Parsed == {"vector", "vectorOnly", "invalid"}
Refused == {"rejected", "rateLimited"}
Unanswered == {"timeout", "unreachable"}

\* _attempt_status
AttemptStatus(outcome) ==
  CASE outcome \in {"vector", "vectorOnly"} -> "succeeded"
    [] outcome = "rateLimited" -> "rate_limited"
    [] outcome = "timeout" -> "timeout"
    [] outcome \in {"invalid", "rejected", "unreachable"} -> "failed"

\* The attempt ends, one way or another, and is about to be reported.
ProviderAnswers(s) ==
  /\ Reached(s, "call")
  /\ \E outcome \in Parsed \cup Refused \cup Unanswered :
       /\ Become(s, [search[s] EXCEPT !.pc = "observe", !.attempt = AttemptStatus(outcome),
                                      !.degraded = outcome = "vectorOnly"])
       /\ IF outcome = "vector" THEN Reading ELSE Fault /\ Unobserved

\* Where the search stands once its attempt has been reported.
AfterAttempt(s) ==
  IF search[s].cancelled THEN Ended(s, "failed", "cancelled")
  ELSE IF search[s].attempt # "succeeded" THEN Ended(s, "failed", "embedding")
  ELSE [search[s] EXCEPT !.pc = "info"]

\* The row in provider_usage, in a transaction of its own.
UsageRecorded(s) == usage' = [usage EXCEPT ![s] = Append(@, search[s].attempt)]

\* A report is not made yet, under way, over, cancelled and over, or cancelled
\* and still there; or it was never begun, for there were too many.
ObserverState == {"none", "running", "done", "cut", "left", "full"}

\* _attempt_observer_tasks: every observer that has begun and not ended, the
\* healthy ones too.
InFlight == {s \in Searches : observers[s] \in {"running", "left"}}

ObserverBecomes(s, x) == observers' = [observers EXCEPT ![s] = x]

\* Mutant of BeginReport: a report waits until there is room for it.
BeginReportWaits(s) ==
  /\ Reached(s, "observe") /\ Cardinality(InFlight) < MaxObservers
  /\ ObserverBecomes(s, "running") /\ Goto(s, "report")
  /\ UNCHANGED <<indexVars, metadataVars, permits, usage, queryLog>>

\* _notify_attempt: the observer becomes a task.  With too many in flight the
\* attempt goes without a report.
BeginReport(s) ==
  /\ Reached(s, "observe")
  /\ IF Cardinality(InFlight) < MaxObservers
     THEN ObserverBecomes(s, "running") /\ Goto(s, "report")
     ELSE ObserverBecomes(s, "full") /\ Become(s, AfterAttempt(s))
  /\ UNCHANGED <<indexVars, metadataVars, permits, usage, queryLog>>

\* The observer ends in time: the row is there, or the database failed, which
\* observe_attempt swallows.
ReportEnds(s) ==
  /\ Reached(s, "report")
  /\ \/ UsageRecorded(s) /\ UNCHANGED <<indexVars, metadataVars>>
     \/ Fault /\ UNCHANGED usage
  /\ ObserverBecomes(s, "done") /\ Become(s, AfterAttempt(s))
  /\ UNCHANGED <<permits, queryLog>>

\* _cancel_attempt_observer_tasks: cancelled, and waited for once more.  The row
\* may be committed already, and a task that ignores its cancellation is left
\* behind.
ObserverCancelled(s) ==
  \/ ObserverBecomes(s, "left") /\ UNCHANGED usage
  \/ ObserverBecomes(s, "cut") /\ (UsageRecorded(s) \/ UNCHANGED usage)

\* The observer takes too long.
ReportTimesOut(s) ==
  /\ Reached(s, "report")
  /\ Fault
  /\ ObserverCancelled(s) /\ Become(s, AfterAttempt(s))
  /\ UNCHANGED <<permits, queryLog>>

\* The task is cancelled where it waits, and the finally block runs.
CancelledNow(s) == [Ended(s, "failed", "cancelled") EXCEPT !.cancelled = TRUE]

\* The search is cancelled while it waits for its observer, which is cancelled
\* under a shield.
CancelReport(s) ==
  /\ Reached(s, "report") /\ ~search[s].cancelled /\ plan.cancel
  /\ ObserverCancelled(s) /\ Become(s, CancelledNow(s))
  /\ UNCHANGED <<indexVars, metadataVars, permits, queryLog>>

\* A task that was left behind ends after all, its row written or not.
ObserverEnds(s) ==
  /\ observers[s] = "left"
  /\ ObserverBecomes(s, "cut")
  /\ UsageRecorded(s) \/ UNCHANGED usage
  /\ UNCHANGED <<indexVars, metadataVars, search, permits, queryLog>>

-----------------------------------------------------------------------------
(* The candidates *)

\* search_points first asks what the collection is.
CollectionInfo(s) ==
  /\ Reached(s, "info")
  /\ IF Managed(search[s].gen) THEN Goto(s, "query") ELSE Fail(s, "configuration")
  /\ Reading

\* An answer that search_points accepts: no more than asked for, no point twice.
Acceptable(points, limit) == Len(points) <= limit /\ IsInjective(points)

Nearest(s) ==
  {points \in SetToAllKPermutations(Matching(s)) :
     Len(points) = Min({CandidateLimit(search[s].req.topK), Cardinality(Matching(s))})}

Queried(s, points) ==
  IF Acceptable(points, CandidateLimit(search[s].req.topK))
  THEN Become(s, [search[s] EXCEPT !.pc = "recheck", !.candidates = points,
                                   !.offered = Matching(s)])
  ELSE Fail(s, "configuration")

\* query_points: the nearest of the points that match, in the order of their
\* scores, as many as there are up to the limit.
QueryPoints(s) ==
  /\ Reached(s, "query")
  /\ IF Managed(search[s].gen) THEN \E points \in Nearest(s) : Queried(s, points)
     ELSE Fail(s, "configuration")
  /\ Reading

\* The server repeats a point.
QueryMalformed(s) ==
  /\ Reached(s, "query")
  /\ Fault /\ Unobserved
  /\ \E p \in Matching(s) : Queried(s, <<p, p>>)

\* No answer comes.
QueryLost(s) ==
  /\ search[s].pc \in {"info", "query"}
  /\ Fault /\ Unobserved
  /\ Fail(s, "retrieval")

\* Mutant of StillVisible: what the query returned is taken as it is.
KeepAll(s, points) == points

\* load_visible_documents: the candidates whose document can be seen, now, in
\* the generation that was searched, in the order of the answer.
StillVisible(s, points) ==
  LET kept == {i \in DOMAIN points : DocOf(points[i]) \in Visible(search[s].gen)}
  IN [k \in 1..Cardinality(kept) |->
        points[CHOOSE i \in kept : Cardinality({j \in kept : j <= i}) = k]]

\* The results so far, and what _apply_rerank does before its first call.
Recheck(s) ==
  LET visible == StillVisible(s, search[s].candidates)
      seen == [search[s] EXCEPT !.visible = visible,
                 !.shown = {p \in search[s].offered : DocOf(p) \in Visible(search[s].gen)}]
      q == search[s].req
      done == [seen EXCEPT !.pc = "log", !.status = "succeeded", !.code = "ok",
                           !.results = FirstOf(visible, q.topK)]
  IN /\ Reached(s, "recheck")
     /\ \/ ~q.rerank /\ Become(s, done)
        \/ /\ q.rerank /\ ~search[s].reranker
           /\ Become(s, [seen EXCEPT !.pc = "log", !.status = "rejected",
                                     !.code = "noReranker"])
        \/ q.rerank /\ search[s].reranker /\ visible = <<>> /\ Become(s, done)
        \/ /\ q.rerank /\ search[s].reranker /\ visible # <<>>
           /\ Become(s, [seen EXCEPT !.pc = "rerankRuntime"])
     /\ Reading

-----------------------------------------------------------------------------
(* The reranker *)

Dense(s) == FirstOf(search[s].visible, search[s].req.topK)

\* Without the reranker the order is the dense one.
Degrade(s) == Answer(s, Dense(s), TRUE)

\* get_rerank_runtime: the profile is a reranker's and enabled, its provider too
\* and has a credential.
RerankerInForce == "reranker" \in config

\* _rerank_configuration raises, and the gateway refuses a disabled provider or
\* profile, before it waits for a permit.
RerankRuntime(s) ==
  /\ Reached(s, "rerankRuntime")
  /\ \/ /\ IF RerankerInForce THEN Goto(s, "permit") ELSE Degrade(s)
        /\ Reading
     \/ Fault /\ Degrade(s) /\ Unobserved

TakePermit(s) ==
  /\ Reached(s, "permit") /\ permits < MaxRerank
  /\ permits' = permits + 1
  /\ Goto(s, "rerankCall")
  /\ UNCHANGED <<indexVars, metadataVars, observers, usage, queryLog>>

\* _parse_response accepts positions of candidates, each at most once and one at
\* least; it does not demand all of them.
ValidRanking(ranking, n) ==
  /\ ranking # <<>> /\ IsInjective(ranking)
  /\ \A i \in DOMAIN ranking : ranking[i] \in 1..n

\* The positions a reranker may answer, in the order of its scores.
Rankings(n) == UNION {[1..m -> 1..(n + 1)] : m \in 0..n}

Released ==
  /\ permits' = permits - 1
  /\ UNCHANGED <<observers, usage, queryLog>>

RerankFails(s) ==
  /\ Reached(s, "rerankCall")
  /\ Fault /\ Degrade(s) /\ Released

\* The permit is given back, and the order of the scores applied to the
\* candidates, before they are cut to size.
RerankAnswers(s) ==
  LET n == Len(search[s].visible) IN
  /\ Reached(s, "rerankCall")
  /\ \E ranking \in Rankings(n) :
       IF ValidRanking(ranking, n)
       THEN Answer(s, FirstOf([i \in DOMAIN ranking |-> search[s].visible[ranking[i]]],
                              search[s].req.topK), FALSE)
       ELSE Degrade(s)
  /\ Released /\ UNCHANGED <<indexVars, metadataVars>>

-----------------------------------------------------------------------------
(* The query log, cancellation *)

Row(s) == [status |-> search[s].status, degraded |-> search[s].degraded]

\* The finally block: a row, unless the database fails.
RecordQuery(s) ==
  /\ Reached(s, "log")
  /\ \/ /\ queryLog' = [queryLog EXCEPT ![s] = Append(@, Row(s))]
        /\ UNCHANGED <<indexVars, metadataVars>>
     \/ Fault /\ UNCHANGED queryLog
  /\ Goto(s, "done")
  /\ UNCHANGED <<permits, observers, usage>>

\* Where a cancellation may reach a search; each is cancelled once at most.
Cancellable(s) ==
  search[s].pc \notin {"idle", "report", "done"} /\ ~search[s].cancelled /\ plan.cancel

\* The semaphore takes its permit back.
PermitBack(s) == permits' = IF Reached(s, "rerankCall") THEN permits - 1 ELSE permits

\* Mutant of Cancel: the attempt that was under way is forgotten.
CancelUnreported(s) ==
  /\ Cancellable(s)
  /\ Become(s, CancelledNow(s))
  /\ PermitBack(s)
  /\ UNCHANGED <<indexVars, metadataVars, observers, usage, queryLog>>

\* An attempt that is cut off is still reported, and so is one that has ended:
\* _finish_cleanup remembers the cancellation until then.  Only a cancellation
\* in the finally block itself costs the row of the query log.
Cancel(s) ==
  /\ Cancellable(s)
  /\ Become(s, CASE Reached(s, "call") -> [search[s] EXCEPT !.pc = "observe", !.cancelled = TRUE,
                                                           !.attempt = "cancelled"]
                 [] Reached(s, "observe") -> [search[s] EXCEPT !.cancelled = TRUE]
                 [] Reached(s, "log") -> [search[s] EXCEPT !.pc = "done", !.cancelled = TRUE]
                 [] OTHER -> CancelledNow(s))
  /\ PermitBack(s)
  /\ UNCHANGED <<indexVars, metadataVars, observers, usage, queryLog>>

SearchStep(s) ==
  \/ ReadTarget(s) \/ ReadRuntime(s) \/ FilterDocuments(s) \/ DatabaseFails(s)
  \/ ReadCredential(s) \/ ProviderAnswers(s)
  \/ BeginReport(s) \/ ReportEnds(s) \/ ReportTimesOut(s)
  \/ CollectionInfo(s) \/ QueryPoints(s) \/ QueryMalformed(s) \/ QueryLost(s) \/ Recheck(s)
  \/ RerankRuntime(s) \/ TakePermit(s) \/ RerankAnswers(s) \/ RerankFails(s)
  \/ RecordQuery(s)

-----------------------------------------------------------------------------
(* Changes of the index *)

Live == {d \in Docs : docs[d] = "active"}

Change == changes < plan.changes /\ changes' = changes + 1

\* An ingestion job of a document that is being processed, or the rebuild of a
\* generation that lacks the points of a live one.
BeginWriting(d) ==
  /\ kb = "active"
  /\ \/ docs[d] = "processing"
     \/ docs[d] = "active" /\ ~(PointsOf(activeGen, d) \subseteq collections[activeGen].points)
  /\ Change
  /\ StartWriting(activeGen, d)
  /\ UNCHANGED <<kb, activeGen, docs, states, config, serviceVars>>

\* The job commits what it has validated: the document of an ingestion becomes
\* active if its generation is, and fails otherwise.
CommitWriting ==
  LET d == writer.doc
      sound == writer.pc = "commit" /\ writer.gen = activeGen /\ kb = "active"
  IN /\ writer.pc \in {"commit", "failed"}
     /\ IF docs[d] = "processing"
        THEN /\ docs' = [docs EXCEPT ![d] = IF sound THEN "active" ELSE "failed"]
             /\ states' = IF sound THEN [states EXCEPT ![activeGen] = @ \cup {d}] ELSE states
        ELSE UNCHANGED <<docs, states>>
     /\ writer' = NoWriter
     /\ UNCHANGED <<collections, prepare, removal, faults, kb, activeGen, config, changes,
                    serviceVars>>

\* The swap of the active generation enrols the live documents in the successor,
\* whose collection is still empty.
Cutover ==
  /\ kb = "active" /\ activeGen + 1 \in Generations
  /\ \E c \in Preparers : prepare[c].pc = "ready" /\ prepare[c].gen = activeGen + 1
  /\ Change
  /\ activeGen' = activeGen + 1
  /\ states' = [states EXCEPT ![activeGen + 1] = Live]
  /\ UNCHANGED <<indexVars, kb, docs, config, serviceVars>>

BeginDeletion ==
  /\ kb = "active" /\ Change
  /\ kb' = "deleting"
  /\ UNCHANGED <<indexVars, activeGen, docs, states, config, serviceVars>>

\* The purge removes the collections first and the rows when they are gone.
PurgeRows ==
  /\ kb = "deleting" /\ removal.pc = "idle" /\ writer.pc = "idle"
  /\ \A g \in Generations : ~Managed(g)
  /\ kb' = "gone"
  /\ UNCHANGED <<indexVars, activeGen, docs, states, config, changes, serviceVars>>

\* The collections of a knowledge base that is being deleted, and one that was
\* prepared for a generation that failed.
BeginRemoval(g) ==
  /\ \/ kb = "deleting" /\ collections[g].kind # "absent"
     \/ g > activeGen /\ plan.removal /\ changes < plan.changes
  /\ changes' = IF kb = "deleting" THEN changes ELSE changes + 1
  /\ StartRemoval(g)
  /\ UNCHANGED <<kb, activeGen, docs, states, config, serviceVars>>

\* A profile or a provider is disabled, a provider gets another credential, or
\* the knowledge base another setting for reranking.
SwitchOff ==
  /\ kb = "active" /\ Change
  /\ \E x \in config \cap plan.switches : config' = config \ {x}
  /\ UNCHANGED <<indexVars, kb, activeGen, docs, states, serviceVars>>

MetadataUnchanged == UNCHANGED <<metadataVars, serviceVars>>

IndexStep ==
  \/ \E d \in Docs : BeginWriting(d)
  \/ WriterStep /\ MetadataUnchanged
  \/ CommitWriting
  \/ \E c \in Preparers :
       \/ c \in plan.preparers /\ Prepare(c, 2) /\ MetadataUnchanged
       \/ PrepareStep(c) /\ MetadataUnchanged
  \/ Cutover \/ BeginDeletion \/ PurgeRows \/ SwitchOff
  \/ \E g \in Generations : BeginRemoval(g)
  \/ (RemovalInfo \/ RemoveCollection) /\ MetadataUnchanged

-----------------------------------------------------------------------------
\* What could be seen, and where searches were sent, since a search began.
VisiblePairs == UNION {{g} \X Visible(g) : g \in Generations}

Remember ==
  ever' = [s \in Searches |->
    IF search'[s].pc \in {"idle", "log", "done"} THEN ever[s]
    ELSE [visible |-> ever[s].visible \cup VisiblePairs',
          active |-> ever[s].active \cup {activeGen'}]]

SearchNext ==
  /\ \/ \E s \in Searches :
          Submit(s) \/ SearchStep(s) \/ Cancel(s) \/ CancelReport(s) \/ ObserverEnds(s)
     \/ IndexStep
  /\ Remember
  /\ UNCHANGED plan

\* The calls to the provider, to Qdrant and to the reranker and the wait for an
\* observer have a timeout; a statement of the repository has none, so it is
\* assumed that PostgreSQL answers it or fails.  For a permit a search waits
\* until another gives one back.  Users, jobs, administrators and observers that
\* were left behind owe nothing.
Searching == (\E s \in Searches : SearchStep(s)) /\ Remember /\ UNCHANGED plan

SearchSpec == SearchInit /\ [][SearchNext]_searchVars /\ WF_searchVars(Searching)

-----------------------------------------------------------------------------
(* Properties *)

Finished(s) == search[s].pc \in {"log", "done"}
Answered(s) == Finished(s) /\ search[s].status = "succeeded"

\* A call of this behaviour has failed.
CallFailed == faults > MaxFaults - plan.faults

\* Values of the right kind.
SearchTypeOK ==
  /\ collections \in [Generations -> Collection]
  /\ \A c \in Preparers : prepare[c].pc \in Calls \cup Outcomes \cup {"idle"}
  /\ kb \in {"active", "deleting", "gone"} /\ activeGen \in Generations
  /\ docs \in [Docs -> {"processing", "active", "failed"}]
  /\ states \in [Generations -> SUBSET Docs] /\ config \subseteq Switches
  /\ \A s \in Searches :
       /\ search[s].status \in {"succeeded", "failed", "rejected"}
       /\ search[s].candidates \in Seq(Points) /\ search[s].results \in Seq(Points)
  /\ observers \in [Searches -> ObserverState]
  /\ faults \in 0..MaxFaults

\* A result is a chunk of a document that could be seen in the generation the
\* response names, at some moment of the search: chunks of documents that are
\* still being ingested, failed or were purged before never get out, whatever
\* points they left in the collection (load_visible_documents).
AnswersWereVisible ==
  \A s \in Searches : \A p \in ToSet(search[s].results) :
    <<search[s].gen, DocOf(p)>> \in ever[s].visible

\* A response stays with one generation, which served the knowledge base at
\* some moment of the search, and every result was embedded for it: a cutover
\* in the middle of a search never mixes vectors of two models.
OneGeneration ==
  \A s \in Searches :
    Answered(s) => /\ search[s].gen \in ever[s].active
                   /\ \A p \in ToSet(search[s].results) : p[1] = search[s].gen

\* Points that cannot be shown do not cost results, as long as there are no
\* more of them than candidate_limit asks for beyond top_k.
CrowdingBounded ==
  \A s \in Searches :
    LET r == search[s]
        room == CandidateLimit(r.req.topK) - r.req.topK
    IN Answered(s) /\ r.offered # {} /\ ~r.req.rerank /\ Cardinality(r.offered \ r.shown) <= room
         => Len(r.results) >= Min({r.req.topK, Cardinality(r.shown)})

\* A response holds at most top_k chunks, none twice, of the documents asked
\* for, and all of them candidates that were still visible; the reranker only
\* chooses and orders.
AnswersFit ==
  \A s \in Searches :
    LET r == search[s] IN
    Answered(s) =>
      /\ Len(r.results) <= r.req.topK /\ IsInjective(r.results)
      /\ ToSet(r.results) \subseteq ToSet(r.visible)
      /\ r.req.docs # {} => \A p \in ToSet(r.results) : DocOf(p) \in r.req.docs

\* Once the candidates are there, a reranker that is disabled, unreachable or
\* answers nonsense costs the order and nothing else (_apply_rerank): the
\* search ends with results unless it was cancelled.
RerankNeverFails ==
  \A s \in Searches :
    Finished(s) /\ search[s].visible # <<>> /\ search[s].reranker /\ ~search[s].cancelled
      => search[s].status = "succeeded" /\ search[s].results # <<>>

\* A response is what the request may see and asked for, of one generation,
\* whatever changes in the index and whatever the reranker does meanwhile.
AnswersSound ==
  /\ SearchTypeOK
  /\ AnswersWereVisible
  /\ OneGeneration
  /\ CrowdingBounded
  /\ AnswersFit
  /\ RerankNeverFails

\* A search that ended has one row in the query log, which says what the caller
\* was told, or none when the log failed or the search was cancelled while it
\* was being written.
LoggedOnce ==
  \A s \in Searches :
    /\ Len(queryLog[s]) <= 1
    /\ search[s].pc = "done" /\ queryLog[s] = <<>> => CallFailed \/ search[s].cancelled
    /\ \A row \in ToSet(queryLog[s]) :
         /\ search[s].pc = "done"
         /\ row.status = "succeeded" <=> search[s].code = "ok"
         /\ row.status = "rejected" <=> search[s].code \in {"notFound", "filter", "noReranker"}
    /\ search[s].cancelled /\ search[s].pc = "done" /\ search[s].code = "cancelled"
         => queryLog[s] # <<>> \/ CallFailed

\* provider_usage tells which calls were made: none for a query that was never
\* sent, never two for one, a success only where the search went on, and a call
\* that a cancellation cut off is recorded as such.  A row is missing only when
\* a call failed, when as many reports as there may be were in flight, healthy
\* ones of other searches included, or when the search was cancelled while the
\* report was under way.
AttemptsReported ==
  \A s \in Searches :
    LET r == search[s]
        past == r.pc \notin {"idle", "target", "runtime", "documents", "credential",
                             "call", "observe", "report"}
    IN /\ Len(usage[s]) <= 1
       /\ usage[s] # <<>> => r.sent /\ usage[s] = <<r.attempt>>
       /\ past /\ r.sent => r.attempt # "none"
       /\ past /\ r.sent /\ usage[s] = <<>>
            => \/ CallFailed
               \/ observers[s] = "full"
               \/ r.cancelled /\ r.attempt # "cancelled" /\ observers[s] \in {"left", "cut"}
       /\ Finished(s) /\ r.sent /\ ~r.cancelled
            => (r.attempt = "succeeded" <=> r.code # "embedding")

\* Reports that have begun, in time or not.
Begun == {s \in Searches : observers[s] \in {"running", "left", "cut", "done"}}

\* There are never more observers than _MAX_ATTEMPT_OBSERVER_TASKS; a search
\* waits for its own as long as that runs and leaves one behind only after a
\* failure or a cancellation; and a report is dropped only where that many
\* others had begun.
ObserversExact ==
  /\ Cardinality(InFlight) <= MaxObservers
  /\ \A s \in Searches :
       /\ observers[s] = "running" <=> search[s].pc = "report"
       /\ observers[s] \in {"left", "cut"} => CallFailed \/ search[s].cancelled
       /\ observers[s] = "full" => Cardinality(Begun \ {s}) >= MaxObservers

\* The permits of the rerank gateway are those of the searches in a call, and
\* never more than there are.
PermitsExact ==
  /\ permits = Cardinality({s \in Searches : search[s].pc = "rerankCall"})
  /\ permits <= MaxRerank

\* What a search did is on record and what it took is given back, though it may
\* be cancelled at any await.
SearchesRecorded == LoggedOnce /\ AttemptsReported /\ ObserversExact /\ PermitsExact

\* Requests that prepare the same collection at once, or again after an answer
\* was lost, never take each other's half of the work for a mismatch, which
\* would fail the generation for good (create_generation).
NoFalseMismatch ==
  [][\A c \in Preparers :
       prepare'[c].pc = "mismatch" => plan.foreign \/ plan.removal \/ kb' # "active"]_searchVars

\* The client never changes and never deletes a collection that is not its own
\* ("never deletes a mismatched collection").
ForeignUntouched ==
  [][\A g \in Generations :
       collections[g].kind = "foreign" => collections'[g] = collections[g]]_searchVars

\* A collection belongs to one generation: its own requests share it, and one
\* that is not the service's is left alone.
CollectionsOwned == NoFalseMismatch /\ ForeignUntouched

\* Every search ends: with observers that hang, permits that are taken and calls
\* that fail.
SearchEnds == \A s \in Searches : search[s].pc = "target" ~> search[s].pc = "done"

=============================================================================
