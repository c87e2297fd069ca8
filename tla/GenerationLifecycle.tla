------------------------ MODULE GenerationLifecycle ------------------------
(***************************************************************************)
(* The index generations of one knowledge base: a request with an          *)
(* idempotency key reserves a generation, builds its Qdrant collection,    *)
(* probes the provider and activates it, retiring the one that served      *)
(* before; an operator abandons one that is stuck; a reconciler in every   *)
(* worker process deletes the collections that nothing serves.             *)
(*                                                                         *)
(* A generation's id and its collection's name are functions of the key,   *)
(* so a key stands for its creation request, generation and collection.    *)
(* _reserve, _activate and the cleanup transactions hold the advisory lock *)
(* of the collection, all but the authorization the row of the knowledge   *)
(* base too: each is one action.  The calls of Qdrant and of the provider  *)
(* lie between the transactions and hold nothing.                          *)
(*                                                                         *)
(* A cleanup claim is known by its lease_owner, a fresh UUID per claim.  A *)
(* reconciler works on one claim at a time, so its own name stands for the *)
(* UUID and lease_epoch adds nothing.                                      *)
(***************************************************************************)
EXTENDS Naturals

CONSTANTS
  Keys,           \* idempotency keys
  Sagas,          \* requests of create_initial_generation under way
  Reconcilers,    \* reconcile_orphan_collections of each worker process
  None,           \* no generation, no owner
  MaxRevision,    \* replacements of the filter schema
  Interruptions   \* reconcilers that die, cleanup leases that run out under a
                  \* live one, and deletes that Qdrant refuses

ASSUME NoneAssumption == None \notin Keys /\ None \notin Reconcilers
ASSUME BoundsAssumption == MaxRevision \in Nat /\ Interruptions \in Nat

VARIABLES
  status,       \* knowledge_bases.status; "gone" once the row is purged
  active,       \* knowledge_bases.active_index_generation_id
  pending,      \* knowledge_bases.pending_index_generation_id
  revision,     \* knowledge_bases.filter_schema_revision
  gens,         \* knowledge_base_index_generations.status per key
  applied,      \* applied_filter_schema_revision per key
  request,      \* index_generation_creation_requests.state per key
  claims,       \* index_generation_cleanup_claims per key
  collection,   \* whether Qdrant has the collection
  sagas,        \* what each request holds
  cleaners,     \* what each reconciler holds
  spare         \* interruptions still to come

rows == <<status, active, pending, revision, gens, applied, request>>
vars == <<status, active, pending, revision, gens, applied, request, claims,
          collection, sagas, cleaners, spare>>

-----------------------------------------------------------------------------
Saga == [pc : {"idle", "reserved", "ensured", "verified", "failing"},
         key : Keys \cup {None}]
Cleaner == [pc : {"idle", "claimed", "deleting", "deleted", "refused"},
            key : Keys \cup {None}]
Claim == [state : {"none", "held", "completed"},
          owner : Reconcilers \cup {None}, live : BOOLEAN]

Resting == [pc |-> "idle", key |-> None]
Unclaimed == [state |-> "none", owner |-> None, live |-> FALSE]

Init ==
  /\ status = "active" /\ active = None /\ pending = None /\ revision = 0
  /\ gens = [k \in Keys |-> "absent"] /\ applied = [k \in Keys |-> 0]
  /\ request = [k \in Keys |-> "absent"] /\ claims = [k \in Keys |-> Unclaimed]
  /\ collection = [k \in Keys |-> FALSE]
  /\ sagas = [s \in Sagas |-> Resting] /\ cleaners = [r \in Reconcilers |-> Resting]
  /\ spare = Interruptions

-----------------------------------------------------------------------------
(* Creation.  An attempt that a guard turns away changes nothing.           *)

Go(s, pc) == sagas' = [sagas EXCEPT ![s].pc = pc]
EndSaga(s) == sagas' = [sagas EXCEPT ![s] = Resting]

\* What every failing transaction writes.
FailCreation(k) ==
  /\ gens' = [gens EXCEPT ![k] = "failed"]
  /\ pending' = IF pending = k THEN None ELSE pending
  /\ request' = [request EXCEPT ![k] = "failed"]
  /\ UNCHANGED <<status, active, revision, applied>>

\* _reserve with a key not seen before.
Reserve(s, k) ==
  /\ sagas[s].pc = "idle" /\ request[k] = "absent"
  /\ status = "active" /\ pending = None /\ \A g \in Keys : gens[g] # "building"
  /\ claims[k].state = "none"
  /\ request' = [request EXCEPT ![k] = "building"]
  /\ gens' = [gens EXCEPT ![k] = "building"]
  /\ applied' = [applied EXCEPT ![k] = revision]
  /\ pending' = k
  /\ sagas' = [sagas EXCEPT ![s] = [pc |-> "reserved", key |-> k]]
  /\ UNCHANGED <<status, active, revision, claims, collection, cleaners, spare>>

\* _reserve with a known key: the creation goes on, whatever became of the
\* generation meanwhile.
Resume(s, k) ==
  /\ sagas[s].pc = "idle" /\ request[k] = "building"
  /\ claims[k].state = "none" /\ status = "active"
  /\ sagas' = [sagas EXCEPT ![s] = [pc |-> "reserved", key |-> k]]
  /\ UNCHANGED <<rows, claims, collection, cleaners, spare>>

\* _reserve with a known key whose collection was retired, whose knowledge base
\* is being deleted, or whose embedding configuration changed.
ReplayFails(k) ==
  /\ request[k] = "building"
  /\ \/ claims[k].state = "completed" /\ gens[k] # "active"
     \/ claims[k].state = "none" /\ \E changed \in BOOLEAN : status # "active" \/ changed
  /\ FailCreation(k)
  /\ UNCHANGED <<claims, collection, sagas, cleaners, spare>>

\* ensure_collection: found or created.
EnsureCollection(s) ==
  /\ sagas[s].pc = "reserved"
  /\ collection' = [collection EXCEPT ![sagas[s].key] = TRUE]
  /\ Go(s, "ensured")
  /\ UNCHANGED <<rows, claims, cleaners, spare>>

\* ensure_payload_indexes, verify_collection and count_points, the reload of the
\* embedding configuration and the probe of the provider.
Verify(s) ==
  /\ sagas[s].pc = "ensured" /\ collection[sagas[s].key]
  /\ gens[sagas[s].key] # "absent"
  /\ Go(s, "verified")
  /\ UNCHANGED <<rows, claims, collection, cleaners, spare>>

\* One of those calls finds a mismatch, points, a changed configuration or a
\* provider that refuses for good.
SagaFails(s) ==
  /\ sagas[s].pc \in {"reserved", "ensured"}
  /\ Go(s, "failing")
  /\ UNCHANGED <<rows, claims, collection, cleaners, spare>>

\* A retryable error, a cancelled request or a dead process: nothing is undone.
SagaDies(s) ==
  /\ sagas[s].pc # "idle"
  /\ EndSaga(s)
  /\ UNCHANGED <<rows, claims, collection, cleaners, spare>>

\* _mark_failed.
MarkFailed(s) ==
  LET k == sagas[s].key IN
  /\ sagas[s].pc = "failing"
  /\ IF gens[k] = "absent" \/ request[k] = "succeeded" \/ gens[k] = "active"
     THEN UNCHANGED rows
     ELSE FailCreation(k)
  /\ EndSaga(s)
  /\ UNCHANGED <<claims, collection, cleaners, spare>>

\* The successor of the active generation is promoted and the request answered.
Promote(k) ==
  /\ gens' = [g \in Keys |-> IF g = k THEN "active"
                             ELSE IF g = active THEN "retiring" ELSE gens[g]]
  /\ active' = k /\ pending' = None
  /\ request' = [request EXCEPT ![k] = "succeeded"]
  /\ UNCHANGED <<status, revision, applied>>

\* What _activate checks again before it promotes.
StillCurrent(k) ==
  /\ gens[k] = "building" /\ status = "active" /\ pending = k /\ active # k
  /\ applied[k] = revision

\* Mutant of Activate: neither the cleanup claim nor the generation is looked at.
ActivateUnchecked(s) ==
  LET k == sagas[s].key IN
  /\ sagas[s].pc = "verified"
  /\ IF request[k] # "building" THEN UNCHANGED rows ELSE Promote(k)
  /\ EndSaga(s)
  /\ UNCHANGED <<claims, collection, cleaners, spare>>

\* _activate.  A claim that is held answers 503, a request that ended its own
\* result; a retired collection or a changed state fails the creation.
Activate(s) ==
  LET k == sagas[s].key IN
  /\ sagas[s].pc = "verified"
  /\ IF \/ gens[k] = "absent" \/ claims[k].state = "held"
        \/ claims[k].state = "completed" /\ (request[k] = "succeeded" \/ gens[k] = "active")
        \/ claims[k].state = "none" /\ request[k] = "succeeded" /\ gens[k] = "active"
        \/ claims[k].state = "none" /\ request[k] = "failed"
     THEN UNCHANGED rows
     ELSE IF claims[k].state = "none" /\ StillCurrent(k) THEN Promote(k)
          ELSE FailCreation(k)
  /\ EndSaga(s)
  /\ UNCHANGED <<claims, collection, cleaners, spare>>

-----------------------------------------------------------------------------
(* Administration of the knowledge base.                                    *)

\* abandon_generation; the creation request stays "building".
Abandon(k) ==
  /\ gens[k] = "building"
  /\ gens' = [gens EXCEPT ![k] = "failed"]
  /\ pending' = IF pending = k THEN None ELSE pending
  /\ UNCHANGED <<status, active, revision, applied, request, claims, collection,
                 sagas, cleaners, spare>>

\* replace_filter_schema, refused while a generation is building or active.
ReplaceFilterSchema ==
  /\ status = "active" /\ revision < MaxRevision
  /\ \A k \in Keys : gens[k] \notin {"building", "active"}
  /\ revision' = revision + 1
  /\ UNCHANGED <<status, active, pending, gens, applied, request, claims,
                 collection, sagas, cleaners, spare>>

\* delete_knowledge_base.
DeleteKnowledgeBase ==
  /\ status = "active" /\ status' = "deleting"
  /\ UNCHANGED <<active, pending, revision, gens, applied, request, claims,
                 collection, sagas, cleaners, spare>>

\* The purge, in one step: module KnowledgeBasePurge has the steps.  The cleanup
\* claims are not among the rows it deletes.
Purge ==
  /\ status = "deleting" /\ status' = "gone"
  /\ active' = None /\ pending' = None
  /\ gens' = [k \in Keys |-> "absent"] /\ request' = [k \in Keys |-> "absent"]
  /\ collection' = [k \in Keys |-> FALSE]
  /\ UNCHANGED <<revision, applied, claims, sagas, cleaners, spare>>

-----------------------------------------------------------------------------
(* Reconciliation of orphan collections.                                    *)

\* Mutant of Unserved: a generation that is not active is an orphan.
UnservedInactive(k) == gens[k] # "active"

\* What collection_statuses must say for a collection to be an orphan.
Unserved(k) == gens[k] \in {"absent", "failed"}
Holds(r, k) == claims[k].state = "held" /\ claims[k].owner = r
At(r, pc) == cleaners' = [cleaners EXCEPT ![r].pc = pc]
EndCleaning(r) == cleaners' = [cleaners EXCEPT ![r] = Resting]
Interrupt == spare > 0 /\ spare' = spare - 1

\* Mutant of ClaimCleanup: a claim whose lease ran out is not taken over.
ClaimCleanupNew(r, k) ==
  /\ cleaners[r].pc = "idle" /\ Unserved(k)
  /\ claims[k].state = "none" /\ collection[k]
  /\ claims' = [claims EXCEPT ![k] = [state |-> "held", owner |-> r, live |-> TRUE]]
  /\ cleaners' = [cleaners EXCEPT ![r] = [pc |-> "claimed", key |-> k]]
  /\ UNCHANGED <<rows, collection, sagas, spare>>

\* _claim_orphan_cleanup of a collection that was listed and is past the grace
\* period, or of a claim whose lease ran out.  A completed claim is final.
ClaimCleanup(r, k) ==
  /\ cleaners[r].pc = "idle" /\ Unserved(k)
  /\ \/ claims[k].state = "none" /\ collection[k]
     \/ claims[k].state = "held" /\ ~claims[k].live
  /\ claims' = [claims EXCEPT ![k] = [state |-> "held", owner |-> r, live |-> TRUE]]
  /\ cleaners' = [cleaners EXCEPT ![r] = [pc |-> "claimed", key |-> k]]
  /\ UNCHANGED <<rows, collection, sagas, spare>>

\* _authorize_orphan_cleanup: the lease is live and the collection still
\* unserved, or the claim is released.
Authorize(r) ==
  LET k == cleaners[r].key IN
  /\ cleaners[r].pc = "claimed"
  /\ IF Holds(r, k) /\ claims[k].live /\ Unserved(k)
     THEN At(r, "deleting") /\ UNCHANGED claims
     ELSE /\ EndCleaning(r)
          /\ claims' = IF Holds(r, k) /\ claims[k].live
                       THEN [claims EXCEPT ![k] = Unclaimed] ELSE claims
  /\ UNCHANGED <<rows, collection, sagas, spare>>

\* delete_collection, under no lock: the lease may have run out by now.
DeleteCollection(r) ==
  /\ cleaners[r].pc = "deleting"
  /\ collection' = [collection EXCEPT ![cleaners[r].key] = FALSE]
  /\ At(r, "deleted")
  /\ UNCHANGED <<rows, claims, sagas, spare>>

\* Qdrant refuses.
DeleteRefused(r) ==
  /\ cleaners[r].pc = "deleting" /\ Interrupt
  /\ At(r, "refused")
  /\ UNCHANGED <<rows, claims, collection, sagas>>

\* _complete_orphan_cleanup.
CompleteCleanup(r) ==
  LET k == cleaners[r].key IN
  /\ cleaners[r].pc = "deleted"
  /\ claims' = IF Holds(r, k)
               THEN [claims EXCEPT ![k].state = "completed", ![k].live = FALSE]
               ELSE claims
  /\ EndCleaning(r)
  /\ UNCHANGED <<rows, collection, sagas, spare>>

\* _expire_orphan_cleanup.
ExpireCleanup(r) ==
  LET k == cleaners[r].key IN
  /\ cleaners[r].pc = "refused"
  /\ claims' = IF Holds(r, k) THEN [claims EXCEPT ![k].live = FALSE] ELSE claims
  /\ EndCleaning(r)
  /\ UNCHANGED <<rows, collection, sagas, spare>>

\* A worker process dies.
CleanerDies(r) ==
  /\ cleaners[r].pc # "idle" /\ Interrupt
  /\ EndCleaning(r)
  /\ UNCHANGED <<rows, claims, collection, sagas>>

\* A cleanup lease runs out, of a reconciler that is slow or one that is gone.
LeaseExpires(k) ==
  /\ claims[k].state = "held" /\ claims[k].live
  /\ claims' = [claims EXCEPT ![k].live = FALSE]
  /\ IF \E r \in Reconcilers : Holds(r, k) /\ cleaners[r].key = k
     THEN Interrupt ELSE UNCHANGED spare
  /\ UNCHANGED <<rows, collection, sagas, cleaners>>

-----------------------------------------------------------------------------
SagaStep(s) ==
  \/ \E k \in Keys : Reserve(s, k) \/ Resume(s, k)
  \/ EnsureCollection(s) \/ Verify(s) \/ SagaFails(s) \/ SagaDies(s)
  \/ MarkFailed(s) \/ Activate(s)

CleanerStep(r) ==
  \/ \E k \in Keys : ClaimCleanup(r, k)
  \/ Authorize(r) \/ DeleteCollection(r) \/ CompleteCleanup(r) \/ ExpireCleanup(r)

Next ==
  \/ \E s \in Sagas : SagaStep(s)
  \/ \E k \in Keys : ReplayFails(k) \/ Abandon(k) \/ LeaseExpires(k)
  \/ ReplaceFilterSchema \/ DeleteKnowledgeBase \/ Purge
  \/ \E r \in Reconcilers : CleanerStep(r) \/ DeleteRefused(r) \/ CleanerDies(r)

\* Every worker sweeps again and again, and time passes.
Fairness ==
  /\ \A r \in Reconcilers : WF_vars(CleanerStep(r))
  /\ \A k \in Keys : WF_vars(LeaseExpires(k) /\ UNCHANGED spare)

Spec == Init /\ [][Next]_vars
FairSpec == Spec /\ Fairness

-----------------------------------------------------------------------------
(* Properties.                                                              *)

TypeOK ==
  /\ status \in {"active", "deleting", "gone"}
  /\ active \in Keys \cup {None} /\ pending \in Keys \cup {None}
  /\ revision \in 0 .. MaxRevision /\ applied \in [Keys -> 0 .. MaxRevision]
  /\ gens \in [Keys -> {"absent", "building", "active", "failed", "retiring"}]
  /\ request \in [Keys -> {"absent", "building", "succeeded", "failed"}]
  /\ claims \in [Keys -> Claim]
  /\ collection \in [Keys -> BOOLEAN]
  /\ sagas \in [Sagas -> Saga] /\ cleaners \in [Reconcilers -> Cleaner]
  /\ spare \in 0 .. Interruptions

\* The pointers of the knowledge base name exactly the generation that serves
\* and the one being built, so a build nobody works on any more can always be
\* replayed or abandoned, and none blocks the next unseen (_reserve, _activate,
\* _mark_failed and abandon_generation each write both sides).
PointersAgree ==
  \A k \in Keys :
    (gens[k] = "active" <=> active = k) /\ (gens[k] = "building" <=> pending = k)

\* Searches go to a collection that exists: no order of creations, replays,
\* abandonments and cleanups activates a generation whose collection a
\* reconciler deleted (_activate, reconcile_orphan_collections).
ServedCollectionExists ==
  status = "active" /\ active # None => collection[active]

\* The rows agree with each other and with Qdrant, through every race of
\* creation, replay, abandonment, purge and cleanup.
GenerationsConsistent == TypeOK /\ PointersAgree /\ ServedCollectionExists

\* A reconciler whose lease ran out between its authorization and its delete
\* still deletes nothing that serves, served or is being built.
OnlyOrphansDeleted ==
  [][\A k \in Keys :
       collection[k] /\ ~collection'[k]
         => gens[k] \in {"absent", "failed"} \/ status' = "gone"]_vars

\* A generation that failed or was abandoned never comes back, however many
\* requests with its key are still running, and neither does its answer.
FailureIsFinal ==
  [][\A k \in Keys :
       /\ gens[k] = "failed" => gens'[k] = "failed" \/ status' = "gone"
       /\ request[k] = "failed" => request'[k] = "failed" \/ status' = "gone"]_vars

\* No late step undoes what another decided: a cleanup takes nothing that is in
\* use, and a creation revives nothing that failed.
NothingUndone == OnlyOrphansDeleted /\ FailureIsFinal

\* The collection of a generation that failed, or of a knowledge base that is
\* gone, is deleted unless it was cleaned up once already.
OrphansCollected ==
  \A k \in Keys :
    /\ collection[k] /\ gens[k] \in {"absent", "failed"}
    /\ claims[k].state # "completed"
    ~> ~collection[k] \/ claims[k].state = "completed"

=============================================================================
