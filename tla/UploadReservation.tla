------------------------- MODULE UploadReservation -------------------------
(***************************************************************************)
(* Document uploads: DocumentUploadService stages the source in MinIO,     *)
(* publishes it under a key of its own and reserves the document in        *)
(* PostgreSQL with SqlAlchemyUploadRepository.reserve.                     *)
(*                                                                         *)
(* The reservation runs in a task of its own, shielded from the client's   *)
(* disconnect, so the request and its transaction are two processes: the   *)
(* request may be cancelled, time out or lose the answer of the commit and *)
(* must then decide whether the object it published may be deleted.        *)
(* Deletes are best effort, and copies and deletes may land after the call *)
(* that started them gave up.  The orphan object reconciler sweeps beside  *)
(* all this.                                                               *)
(***************************************************************************)
EXTENDS MultipartStaging, FiniteSets

\* A request is also the document, version, job and object key it generates.
CONSTANTS
  Keys,       \* idempotency keys of one agent in one knowledge base
  Contents,   \* source checksums
  Forms,      \* what else the fingerprint covers: file name, tags, metadata
  Uploads,    \* what the clients send: for each request its key, if any,
              \* its fingerprint and the call it makes
  MaxConfig,  \* changes of the generation or its filter schema
  None        \* no key, no snapshot, no row

Calls == {"upload", "upload_multipart"}

ASSUME NoneAssumption ==
  None \notin Requests /\ None \notin Keys /\ None \notin Nat
ASSUME UploadsAssumption ==
  Uploads \subseteq [Requests -> (Keys \cup {None}) \X Contents \X Forms \X Calls]
ASSUME MaxConfigAssumption == MaxConfig \in Nat

VARIABLES
  kb,       \* the active generation and filter schema of the knowledge base,
            \* None once it is being deleted
  lock,     \* the reservation that holds the row lock on it
  rows,     \* requests whose document, version, state and job were inserted
  idem,     \* document_upload_idempotency
  temps,    \* objects under tmp/uploads
  objects,  \* objects under source keys
  copying,  \* copies publish_temp gave up on
  doomed,   \* deletes of source keys under way
  request,  \* the requests
  task      \* their reservation tasks

database == <<kb, lock, rows, idem>>
store == <<temps, objects, copying, doomed>>
vars == <<kb, lock, rows, idem, temps, objects, copying, doomed, request, task, staging>>

-----------------------------------------------------------------------------
Fingerprints == Contents \X Forms
Refused == {"rejected", "reused", "duplicate"}      \* BusinessErrors
Resolved == Refused \cup {"created", "replayed", "error"}

Request == [pc : {"new", "staging", "publishing", "reserving", "resolving",
                  "notifying", "done"},
            call : Calls, key : Keys \cup {None}, print : Fingerprints,
            snapshot : (0 .. MaxConfig) \cup {None},   \* UploadPreflight
            outcome : Refused \cup {"none", "accepted", "uncertain", "cancelled",
                                    "failed", "crashed"},
            result : Requests \cup {None}]

Task == Resolved \cup {"none", "running", "locked", "verified"}

Init ==
  /\ kb = 0
  /\ lock = None
  /\ rows = {}
  /\ idem = [k \in Keys |-> None]
  /\ temps = {} /\ objects = {} /\ copying = {} /\ doomed = {}
  /\ \E u \in Uploads :
       request = [r \in Requests |->
         [pc |-> "new", call |-> u[r][4], key |-> u[r][1],
          print |-> <<u[r][2], u[r][3]>>, snapshot |-> None, outcome |-> "none",
          result |-> None]]
  /\ task = [r \in Requests |-> "none"]
  /\ StagingInit

-----------------------------------------------------------------------------
At(r, pc) == request[r].pc = pc
Put(r, v) == request' = [request EXCEPT ![r] = v]
Goto(r, pc) == Put(r, [request[r] EXCEPT !.pc = pc])
Ends(r, outcome) == Put(r, [request[r] EXCEPT !.pc = "done", !.outcome = outcome])

\* _cleanup_final of the temporary key: the delete may fail or come too late.
CleanupTemp(r) == temps' \in {temps, temps \ {r}}

\* _cleanup_final of the source key: the delete may land any time from now on.
CleanupFinal(r) == doomed' = doomed \cup {r}

-----------------------------------------------------------------------------
(* The request up to its reservation.                                       *)

\* SqlAlchemyUploadRepository.preflight.
Snapshot == kb

\* _authorize_preflight of a key with the capability and the scope: without an
\* index configuration only a request with a key goes on, since it may be a
\* replay.
Preflight(r) ==
  /\ At(r, "new")
  /\ IF kb # None \/ request[r].key # None
     THEN Put(r, [request[r] EXCEPT !.pc = "staging", !.snapshot = Snapshot])
     ELSE Ends(r, "rejected")
  /\ UNCHANGED <<database, store, task, staging>>

\* _stage_source.
StageSource(r) ==
  /\ At(r, "staging") /\ request[r].call = "upload"
  /\ temps' = temps \cup {r}
  /\ Goto(r, "publishing")
  /\ UNCHANGED <<database, objects, copying, doomed, task, staging>>

\* A put that fails or is given up may land all the same.
MayLand(r) == temps' \in {temps, temps \cup {r}}

\* The source is refused, MinIO fails or the client leaves.
StageFails(r) ==
  /\ At(r, "staging") /\ request[r].call = "upload"
  /\ MayLand(r)
  /\ Ends(r, "failed")
  /\ UNCHANGED <<database, objects, copying, doomed, task, staging>>

\* stage_multipart_upload: the parser and the upload it started.
InMultipart(r) == At(r, "staging") /\ request[r].call = "upload_multipart"

ParserStep(r) ==
  /\ InMultipart(r)
  /\ \/ \E file \in FilePart, n \in 0 .. MaxPieces : Slice(r, file, n)
     \/ Send(r) \/ BodyEnds(r)
  /\ UNCHANGED <<database, store, request, task>>

\* The body, the file or, once it is stored, the form is refused; the upload
\* failed; its receipt is not what the parser saw.
StagingRaises(r) ==
  /\ InMultipart(r)
  /\ \/ staging[r].at = "body"
     \/ UploadFailed(r)
     \/ staging[r].at = "receipt" /\ staging[r].upload = "stored"
  /\ Abort(r)
  /\ UNCHANGED <<database, store, request, task>>

\* The client leaves: stage_multipart_upload is cancelled where it waits.
ClientLeaves(r) ==
  /\ InMultipart(r) /\ staging[r].at # "abort"
  /\ Abort(r)
  /\ UNCHANGED <<database, store, request, task>>

\* abort waited for the upload, and _cleanup_multipart_temp gave up or is done.
StagingAborted(r) ==
  /\ InMultipart(r) /\ staging[r].at = "abort" /\ Settled(r)
  /\ CleanupTemp(r)
  /\ Ends(r, "failed") /\ Becomes(r, NotStaged)
  /\ UNCHANGED <<database, objects, copying, doomed, task>>

MultipartStaged(r) ==
  /\ InMultipart(r) /\ staging[r].at = "receipt" /\ staging[r].upload = "stored"
  /\ ReceiptMatches(r)
  /\ Goto(r, "publishing") /\ Becomes(r, NotStaged)
  /\ UNCHANGED <<database, store, task>>

UploadTakes(r) ==
  /\ Take(r)
  /\ UNCHANGED <<database, store, request, task>>

UploadStores(r) ==
  /\ StreamEnds(r)
  /\ temps' = temps \cup {r}
  /\ UNCHANGED <<database, objects, copying, doomed, request, task>>

UploadSettles(r, from) ==
  /\ Settles(r, from)
  /\ MayLand(r)
  /\ UNCHANGED <<database, objects, copying, doomed, request, task>>

\* publish_temp, and _reserve starting the reservation task.
Publish(r) ==
  /\ At(r, "publishing") /\ r \in temps
  /\ objects' = objects \cup {r}
  /\ CleanupTemp(r)
  /\ Goto(r, "reserving")
  /\ task' = [task EXCEPT ![r] = "running"]
  /\ UNCHANGED <<database, copying, doomed, staging>>

\* The metadata is refused, publish_temp fails or the client leaves; the copy
\* may still be running.
PublishFails(r) ==
  /\ At(r, "publishing")
  /\ CleanupTemp(r) /\ CleanupFinal(r)
  /\ copying' \in {copying, IF r \in temps THEN copying \cup {r} ELSE copying}
  /\ Ends(r, "failed")
  /\ UNCHANGED <<database, objects, task, staging>>

-----------------------------------------------------------------------------
(* The reservation transaction, _reservation_operation.                     *)

\* _existing_idempotency.
Existing(r) == IF request[r].key = None THEN None ELSE idem[request[r].key]
Resolve(r, outcome) == task' = [task EXCEPT ![r] = outcome]

\* _replay.
Replay(r) ==
  Resolve(r, IF request[Existing(r)].print = request[r].print
             THEN "replayed" ELSE "reused")

\* The generation the preflight saw is still the active one, unchanged.
SnapshotCurrent(r) == request[r].snapshot = kb

\* reserve: the knowledge base row is locked and everything in PostgreSQL is
\* compared.  A revoked key, a lost scope or capability, an unsettled rebuild
\* job and refused metadata reject the request whatever the rest says.
ReserveLocks(r) ==
  /\ task[r] = "running" /\ lock = None
  /\ \/ Resolve(r, "rejected") /\ UNCHANGED lock
     \/ /\ kb # None /\ Existing(r) # None
        /\ Replay(r) /\ UNCHANGED lock
     \/ /\ kb # None /\ Existing(r) = None /\ SnapshotCurrent(r)
        /\ Resolve(r, "locked") /\ lock' = r
  /\ UNCHANGED <<kb, rows, idem, store, request, staging>>

Unlock(r) == lock' = IF lock = r THEN None ELSE lock

\* verify_object, under the lock.  Its failure is no BusinessError.
VerifyObject(r) ==
  /\ task[r] = "locked"
  /\ IF r \in objects
     THEN Resolve(r, "verified") /\ UNCHANGED lock
     ELSE Resolve(r, "error") /\ Unlock(r)
  /\ UNCHANGED <<kb, rows, idem, store, request, staging>>

\* A row of the same knowledge base and checksum exists.
Duplicate(r) == \E q \in rows : request[q].print[1] = request[r].print[1]

\* The inserts and the commit, whose answer may get lost.
ReserveCommits(r) ==
  /\ task[r] = "verified"
  /\ IF Duplicate(r)
     THEN Resolve(r, "duplicate") /\ UNCHANGED <<rows, idem>>
     ELSE /\ rows' = rows \cup {r}
          /\ idem' = IF request[r].key = None THEN idem
                     ELSE [idem EXCEPT ![request[r].key] = r]
          /\ Resolve(r, "created") \/ Resolve(r, "error")
  /\ Unlock(r)
  /\ UNCHANGED <<kb, store, request, staging>>

\* The database or the object store fails: rolled back.
ReserveFails(r) ==
  /\ task[r] \in {"running", "locked", "verified"}
  /\ Resolve(r, "error") /\ Unlock(r)
  /\ UNCHANGED <<kb, rows, idem, store, request, staging>>

-----------------------------------------------------------------------------
(* The request when its reservation is resolved or not.                     *)

\* Mutant of SafeToCleanup: an unknown outcome is treated as a failure.
UnlessCreated(t) == t # "created"

\* The object of a replay or of a refusal may go.  An unknown outcome, or one
\* that is still to come, may be a row that references it.
SafeToCleanup(t) == t \in Refused \cup {"replayed"}

\* Mutant of ResultOf: a replay answers with the ids of its own request.
ResultOwn(r) == r

ResultOf(r) == IF task[r] = "replayed" THEN Existing(r) ELSE r

Accepts(r) ==
  Put(r, [request[r] EXCEPT !.pc = "done", !.outcome = "accepted",
                            !.result = ResultOf(r)])

\* The end of _publish_and_reserve.
Answer(r) ==
  /\ At(r, "reserving") /\ task[r] \in Resolved
  /\ IF SafeToCleanup(task[r]) THEN CleanupFinal(r) ELSE UNCHANGED doomed
  /\ CASE task[r] = "created"  -> Goto(r, "notifying")
       [] task[r] = "replayed" -> Accepts(r)
       [] task[r] = "error" -> Ends(r, "uncertain")
       [] OTHER -> Ends(r, task[r])
  /\ UNCHANGED <<database, temps, objects, copying, task, staging>>

\* _notify_after_commit: a notification that fails or takes too long is let go.
NotifyAfterCommit(r) ==
  /\ At(r, "notifying")
  /\ Accepts(r)
  /\ UNCHANGED <<database, store, task, staging>>

\* The client leaves meanwhile: the document stays.
NotifyCancelled(r) ==
  /\ At(r, "notifying")
  /\ Ends(r, "cancelled")
  /\ UNCHANGED <<database, store, task, staging>>

\* The client leaves while the reservation runs.
Cancel(r) ==
  /\ At(r, "reserving")
  /\ Goto(r, "resolving")
  /\ UNCHANGED <<database, store, task, staging>>

\* _reserve after the cancellation: the task is given
\* commit_resolution_timeout_seconds, and the object is deleted only when the
\* task is known not to have referenced it.
ResolveCancelled(r) ==
  /\ At(r, "resolving")
  /\ IF SafeToCleanup(task[r]) THEN CleanupFinal(r) ELSE UNCHANGED doomed
  /\ Ends(r, "cancelled")
  /\ UNCHANGED <<database, temps, objects, copying, task, staging>>

\* The process dies: the request ends, an open transaction is rolled back.
Crash(r) ==
  /\ request[r].pc \notin {"new", "done"} \/ task[r] \in Task \ (Resolved \cup {"none"})
  /\ request' = IF At(r, "done") THEN request
                ELSE [request EXCEPT ![r].pc = "done", ![r].outcome = "crashed"]
  /\ task' = IF task[r] \in Resolved \cup {"none"} THEN task
             ELSE [task EXCEPT ![r] = "error"]
  /\ Unlock(r)
  /\ IF Settled(r) THEN UNCHANGED temps ELSE MayLand(r)
  /\ Becomes(r, NotStaged)
  /\ UNCHANGED <<kb, rows, idem, objects, copying, doomed>>

-----------------------------------------------------------------------------
(* MinIO and the reconciler.                                                *)

\* A late copy succeeds and finalize of _schedule_eventual_cleanup deletes it,
\* or the copy fails or its process is gone.
LateCopy(r) ==
  /\ r \in copying
  /\ copying' = copying \ {r}
  /\ \/ objects' = objects \cup {r} /\ doomed' \in {doomed, doomed \cup {r}}
     \/ UNCHANGED <<objects, doomed>>
  /\ UNCHANGED <<database, temps, request, task, staging>>

\* A delete lands, or is lost.
Delete(r) ==
  /\ r \in doomed
  /\ doomed' = doomed \ {r}
  /\ objects' \in {objects, objects \ {r}}
  /\ UNCHANGED <<database, temps, copying, request, task, staging>>

ReconcileTemp(r) ==
  /\ r \in temps
  /\ temps' = temps \ {r}
  /\ UNCHANGED <<database, objects, copying, doomed, request, task, staging>>

\* object_key_cleanup_is_allowed for a source key: the knowledge base is locked
\* and no version row references the key.
CleanupAllowed(r) == lock = None /\ r \notin rows

\* reconcile_orphan_objects; the delete is made under the lock, whatever the
\* age of the object.  The grace period, which the listing compares with the
\* object's age, is only needed for the delete that outlives its call.
ReconcileObject(r) ==
  /\ r \in objects /\ CleanupAllowed(r)
  /\ objects' = objects \ {r}
  /\ UNCHANGED <<database, temps, copying, doomed, request, task, staging>>

\* Such a late delete, of a key whose upload is over since the grace period.
ReconcileLate(r) ==
  /\ r \in objects /\ CleanupAllowed(r)
  /\ At(r, "done") /\ task[r] \in Resolved \cup {"none"}
  /\ CleanupFinal(r)
  /\ UNCHANGED <<database, temps, objects, copying, request, task, staging>>

-----------------------------------------------------------------------------
(* What else happens to the knowledge base, each under its row lock.        *)

ChangeKb(v) ==
  /\ lock = None /\ kb' = v
  /\ UNCHANGED <<lock, rows, idem, store, request, task, staging>>

KnowledgeBaseChanges ==
  \/ kb # None /\ ChangeKb(None)
  \/ kb # None /\ kb < MaxConfig /\ ChangeKb(kb + 1)

-----------------------------------------------------------------------------
RequestStep(r) ==
  \/ Preflight(r) \/ StageSource(r) \/ StageFails(r)
  \/ ParserStep(r) \/ StagingRaises(r) \/ StagingAborted(r) \/ MultipartStaged(r)
  \/ Publish(r) \/ PublishFails(r)
  \/ Answer(r) \/ ResolveCancelled(r) \/ NotifyAfterCommit(r)
UploadStep(r) == UploadTakes(r) \/ UploadStores(r) \/ UploadSettles(r, "cancelling")
ReserveStep(r) == ReserveLocks(r) \/ VerifyObject(r) \/ ReserveCommits(r)
StoreStep(r) == LateCopy(r) \/ Delete(r) \/ ReconcileTemp(r) \/ ReconcileObject(r)

Next ==
  \/ \E r \in Requests :
       \/ RequestStep(r) \/ UploadStep(r) \/ ReserveStep(r) \/ StoreStep(r)
       \/ UploadSettles(r, "running") \/ ReserveFails(r)
       \/ ClientLeaves(r) \/ Cancel(r) \/ NotifyCancelled(r)
       \/ Crash(r) \/ ReconcileLate(r)
  \/ KnowledgeBaseChanges

\* Clients send their body, requests and tasks run, MinIO gets done with its calls and the reconciler
\* sweeps.
Fairness ==
  \A r \in Requests :
    /\ WF_vars(RequestStep(r)) /\ WF_vars(UploadStep(r)) /\ WF_vars(ReserveStep(r))
    /\ WF_vars(LateCopy(r)) /\ WF_vars(Delete(r))
    /\ WF_vars(ReconcileTemp(r)) /\ WF_vars(ReconcileObject(r))

Spec == Init /\ [][Next]_vars
FairSpec == Spec /\ Fairness

-----------------------------------------------------------------------------
(* Properties.                                                              *)

TypeOK ==
  /\ kb \in (0 .. MaxConfig) \cup {None}
  /\ lock \in Requests \cup {None}
  /\ rows \subseteq Requests
  /\ idem \in [Keys -> Requests \cup {None}]
  /\ temps \subseteq Requests /\ objects \subseteq Requests
  /\ copying \subseteq Requests /\ doomed \subseteq Requests
  /\ request \in [Requests -> Request]
  /\ task \in [Requests -> Task]
  /\ \A r \in Requests :
       /\ [staging[r] EXCEPT !.pending = <<>>, !.queue = <<>>] \in Staging
       /\ Len(staging[r].queue) <= QueueSize

\* The source of every reserved document is in MinIO: neither the cleanup of a
\* request that was cancelled, refused or left in the dark by its commit, nor a
\* copy or delete that lands late, nor the reconciler takes it away.
ReservedSourceExists == rows \subseteq objects

\* The upload a request is answered for holds the whole file: when the upload
\* task is done, what it took from the queue is what the parser validated.
ReceiptsMatch ==
  \A r \in Requests :
    staging[r].at = "receipt" /\ staging[r].upload = "stored" => ReceiptMatches(r)

\* What a document row names is there and is what the client sent
\* (_publish_and_reserve, stage_multipart_upload).
SourcesWhole == ReservedSourceExists /\ ReceiptsMatch

\* An upload is accepted once: whatever was retried, raced or answered from the
\* idempotency row, the answer names a reserved document, and two accepted
\* requests with one key are answered with the same one.
AcceptedOnce ==
  \A r \in Requests :
    request[r].outcome = "accepted" =>
      /\ request[r].result \in rows
      /\ request[request[r].result].print = request[r].print
      /\ \A q \in Requests :
           request[q].outcome = "accepted" /\ request[q].key = request[r].key
             /\ request[r].key # None => request[q].result = request[r].result

\* A client that repeats an upload whose outcome it never learned, with the same
\* key and content, is never told DUPLICATE_DOCUMENT about its own document.
RetryNotDuplicate ==
  \A r, q \in Requests :
    /\ request[r].outcome = "duplicate" /\ request[r].key # None
    /\ q \in rows /\ request[q].print[1] = request[r].print[1]
    => request[q].key # request[r].key

\* Repeating an upload is safe: it is answered like the first, in any order of
\* reservation, replay, collision and lost answer (reserve_upload).
RepeatsAnswerAlike == TypeOK /\ AcceptedOnce /\ RetryNotDuplicate

\* Every request comes to an end, also when its parser waits for room in the
\* queue of an upload that has failed, and every temporary or source object without
\* a row is collected, whoever crashed and whatever landed late.
NothingLeftBehind ==
  <>[](temps = {} /\ objects \subseteq rows /\ \A r \in Requests : At(r, "done"))
=============================================================================
