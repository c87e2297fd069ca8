----------------------------- MODULE ObjectStore -----------------------------
(***************************************************************************)
(* infrastructure/minio_store.py: asyncio operations over a synchronous    *)
(* SDK.  An operation is a sequence of SDK calls; each call runs on a      *)
(* thread of a bounded executor and cannot be stopped, so an operation     *)
(* that times out or is cancelled leaves its call behind, together with    *)
(* tasks that clean up once the call has ended.  aclose stops admission,   *)
(* drains operations, calls and cleanup, and after its deadline cancels    *)
(* what is left.  The model keeps every operation's steps, the calls that  *)
(* outlive them, the pipe of an upload (UploadPipe), the temporary file a  *)
(* download hands from its thread to its reader, and the objects.          *)
(*                                                                         *)
(* Abstractions.  All operations concern one final key; an upload writes a *)
(* staging key of its own and a publication starts from a temporary key of *)
(* its own, both called staged.  Content stands for bytes, their size,     *)
(* their checksum and their ETag.  The SDK is external: a call may fail at *)
(* any time, with or without its effect.  Deadlines and grace periods pass *)
(* at any time.  Validation of arguments and of the SDK's private methods  *)
(* is left out: it raises before any call.                                 *)
(***************************************************************************)
EXTENDS UploadPipe, Sequences

CONSTANTS
    Ops,         \* the operations of the run
    Starts,      \* the operations, objects and buckets to start from
    Payloads,    \* what an object may hold
    MaxWorkers,  \* bound: the largest io_max_workers of a start
    Limit,       \* the limit of one listing
    ScanFactor,  \* a listing looks at limit * 8 objects (here: * ScanFactor)
    MaxScan      \* and at no more than 1000 (here: MaxScan)

ASSUME StoreAssumption ==
    /\ MaxWorkers \in Nat \ {0} /\ Limit \in Nat \ {0}
    /\ ScanFactor \in Nat \ {0} /\ MaxScan \in Nat \ {0}
    /\ "none" \notin Payloads /\ "partial" \notin Payloads

Kinds == {"upload", "publish", "readStream", "readBytes", "verify", "delete",
          "list", "none"}

\* A start says which operations will be asked for, of which content, which of
\* the temporary keys exist, what the final key holds, what another
\* process publishes there, the objects a listing
\* meets in the order of their keys (TRUE: old enough), which operations their
\* callers may cancel, the size of the executor and how many of its threads hang,
\* and whether aclose may meet them.  The pipe and the page are those of one
\* upload and of one listing.
ASSUME StartsAssumption ==
    /\ IsFiniteSet(Ops)
    /\ \A s \in Starts :
          /\ s.kind \in [Ops -> Kinds] /\ s.want \in [Ops -> Payloads]
          /\ {s.final, s.rival} \subseteq Payloads \union {"none"}
          /\ s.bucket \in Seq(BOOLEAN)
          /\ s.workers \in 1 .. MaxWorkers /\ s.busy \in 0 .. s.workers
          /\ \A k \in {"upload", "list"} : \A o, p \in Ops :
                s.kind[o] = k /\ s.kind[p] = k => o = p

VARIABLES
    kind, want,     \* what each operation is, and the content it is about
    pc, res,        \* its place, and how it ended
    cancel, hit,    \* who cancelled its task; the CancelledError is on its way
    call,           \* the SDK call of each caller
    tasks,          \* the background tasks of each operation
    active, ended,  \* executor capacity taken; futures done but not released
    exec,           \* the executor: open or closed, its io_max_workers, and the
                    \* threads that calls of other operations hold for ever
    close,          \* where aclose is; kept: it is not called before the store is idle
    staged, final,  \* the objects
    rival,          \* what another process is about to publish at the final key
    spool,          \* the temporary file of a download and its slot
    page,           \* a listing: the bucket, the cursor, what was returned
    excused         \* history: operations whose cleanup failed or was cancelled

callVars == <<call, active, ended, exec>>
opVars == <<kind, want, pc, res, cancel, hit>>
objectVars == <<staged, final, rival>>
storeVars == <<opVars, callVars, close, objectVars, tasks, spool, page, excused,
          pipeVars>>

\* An operation calls the SDK for itself; its tasks delete its staged object
\* (at once, or after the call it abandoned) and the final key of a late copy.
Callers == Ops \X {"op", "staging", "late", "eventual"}

Steps == {"put", "headSource", "headFinal", "copy", "raced", "verify", "head",
          "get", "remove", "list"}

Outcomes == {"none", "ok", "error", "missing", "changed", "exists", "failed",
             "limit", "stream"} \union Payloads \union {"partial"}

\* half: a copy whose parts are copied and whose upload is not complete.
NoCall == [st |-> "idle", what |-> "head", out |-> "none"]

Asked(what) == [st |-> "asked", what |-> what, out |-> "none"]

Own(o) == <<o, "op">>

InThread(c) == call[c].st \in {"running", "half"}

StoreTypeOK ==
    /\ kind \in [Ops -> Kinds]
    /\ want \in [Ops -> Payloads]
    /\ pc \in [Ops -> Steps \union {"new", "grace", "settle", "yield",
                                    "cleanup", "done"}]
    /\ res \in [Ops -> {"none", "ok", "reused", "conflict", "unavailable",
                        "failed", "limit", "stream", "cancelled", "refused"}]
    /\ cancel \in [Ops -> {"no", "never", "caller", "close"}] /\ hit \in [Ops -> BOOLEAN]
    /\ call \in [Callers ->
          [st : {"idle", "asked", "running", "half", "ended"},
           what : Steps, out : Outcomes]]
    /\ tasks \in [Ops -> [staging : {"none", "delete", "done"},
                         eventual : {"none", "wait", "late", "delete",
                                     "done"}]]
    /\ active \in 0 .. MaxWorkers /\ ended \in 0 .. MaxWorkers
    /\ exec \in [st : {"open", "closed"}, workers : 1 .. MaxWorkers,
                 busy : 0 .. MaxWorkers]
    /\ active <= exec.workers
    /\ close \in {"open", "kept", "drain", "executor", "retire", "closed",
                  "failed"}
    /\ staged \in [Ops -> Payloads \union {"none", "partial"}]
    /\ final \in Payloads \union {"none"} /\ rival \in Payloads \union {"none"}
    /\ spool \in [Ops -> [file : {"none", "open", "published", "owned",
                                  "closed"}, abandoned : BOOLEAN]]
    /\ excused \subseteq Ops
    /\ PipeTypeOK

FirstStep(k) ==
    CASE k = "upload"  -> "put"
      [] k = "publish" -> "headSource"
      [] k = "delete"  -> "remove"
      [] k = "list"    -> "list"
      [] OTHER         -> "head"

StoreInit ==
    /\ \E start \in Starts :
          /\ kind = start.kind /\ want = start.want
          /\ final = start.final /\ rival = start.rival
          /\ staged = [o \in Ops |-> IF kind[o] = "publish" /\ o \in start.temp
                                     THEN want[o] ELSE "none"]
          /\ cancel = [o \in Ops |-> IF o \in start.cancels THEN "no"
                                                           ELSE "never"]
          /\ exec = [st |-> "open", workers |-> start.workers,
                     busy |-> start.busy]
          /\ active = start.busy
          /\ close = IF start.closes THEN "open" ELSE "kept"
          /\ page = [bucket |-> start.bucket, after |-> 0, got |-> <<>>]
    /\ pc = [o \in Ops |-> "new"] /\ res = [o \in Ops |-> "none"]
    /\ hit = [o \in Ops |-> FALSE]
    /\ call = [c \in Callers |-> NoCall]
    /\ tasks = [o \in Ops |-> [staging |-> "none", eventual |-> "none"]]
    /\ ended = 0
    /\ spool = [o \in Ops |-> [file |-> "none", abandoned |-> FALSE]]
    /\ excused = {}
    /\ PipeInit

-----------------------------------------------------------------------------
(* The life of an operation: admission, the next step, the way out.        *)

\* _admit_operation: a closed store refuses.
Admit(o) ==
    /\ pc[o] = "new" /\ kind[o] # "none"
    /\ IF close \notin {"open", "kept"}
       THEN /\ pc' = [pc EXCEPT ![o] = "done"]
            /\ res' = [res EXCEPT ![o] = "refused"]
            /\ UNCHANGED call
       ELSE /\ pc' = [pc EXCEPT ![o] = FirstStep(kind[o])]
            /\ call' = [call EXCEPT ![Own(o)] = Asked(FirstStep(kind[o]))]
            /\ UNCHANGED res
    /\ UNCHANGED <<kind, want, cancel, hit, active, ended, exec, close,
                   objectVars, tasks, spool, page, excused, pipeVars>>

InProgress(o) == pc[o] \notin {"new", "done"}

\* The task of o is not about to receive a CancelledError.
Runs(o) == ~hit[o]

\* The next SDK call of the operation.
NextCall(o, step) ==
    /\ pc' = [pc EXCEPT ![o] = step]
    /\ call' = [call EXCEPT ![Own(o)] = Asked(step)]
    /\ UNCHANGED <<res, tasks, excused>>

\* The finally of upload_stream runs _cleanup_staging only if the SDK was given
\* the stream (sdk_admitted), that of publish_temp always.
CleansUp(o) ==
    \/ kind[o] = "upload" /\ (call[Own(o)].what # "put"
                              \/ call[Own(o)].st # "asked")
    \/ kind[o] = "publish"

\* Mutant of Eventual: what lands late is left.
EventualNever(o, t) == t

\* _schedule_eventual_cleanup, unless aclose cancelled the operation.
Eventual(o, t) ==
    IF cancel[o] = "close" THEN t ELSE [t EXCEPT ![o].eventual = "wait"]

Cancelling(o) == cancel[o] \in {"caller", "close"}

\* The operation ends with r: _cleanup_staging, then _release_operation.  A
\* task that is being cancelled does not wait for the cleanup it started; one
\* cancelled by aclose starts none.
LeaveWith(o, r, t) ==
    LET cleanup == CleansUp(o) /\ cancel[o] # "close" IN
    /\ res' = [res EXCEPT ![o] = r]
    /\ pc' = [pc EXCEPT ![o] = IF cleanup /\ ~Cancelling(o) THEN "cleanup"
                                                               ELSE "done"]
    /\ tasks' = IF cleanup THEN [t EXCEPT ![o].staging = "delete"] ELSE t
    /\ call' = [call EXCEPT
          ![<<o, "staging">>] = IF cleanup THEN Asked("remove") ELSE @,
          ![Own(o)] = IF @.st = "asked" \/ (@.st = "ended" /\ t = tasks)
                      THEN NoCall ELSE @]
    /\ excused' = excused \union (IF cancel[o] = "close" THEN {o} ELSE {})

Leave(o, r) == LeaveWith(o, r, tasks)

\* shield(cleanup) returns: the delete is over, however it ended.
CleanedUp(o) ==
    /\ pc[o] = "cleanup" /\ Runs(o) /\ tasks[o].staging = "done"
    /\ pc' = [pc EXCEPT ![o] = "done"]
    /\ UNCHANGED <<kind, want, res, cancel, hit, callVars, close, objectVars,
                   tasks, spool, page, excused, pipeVars>>

-----------------------------------------------------------------------------
(* The executor: capacity is taken before the call and given back by a     *)
(* callback of the finished future, never by the caller that leaves.       *)

\* submit waits, or raises: the executor is closed, or full until the deadline.
NoCapacity == exec.st = "closed" \/ active >= exec.workers

\* submit got capacity; for an upload put_object starts to read the pipe and
\* the producer task is created, for a download the thread opens its file.
Submit(c) ==
    /\ call[c].st = "asked" /\ (c[2] = "op" => Runs(c[1]))
    /\ ~NoCapacity
    /\ active' = active + 1
    /\ call' = [call EXCEPT ![c].st = "running"]
    /\ IF call[c].what = "put"
       THEN /\ cons' = [cons EXCEPT !.st = "read"]
            /\ prod' = [prod EXCEPT !.st = "created"]
            /\ UNCHANGED pipe
       ELSE UNCHANGED pipeVars
    /\ spool' = IF call[c].what = "get" /\ kind[c[1]] = "readStream"
                THEN [spool EXCEPT ![c[1]].file = "open"] ELSE spool
    /\ UNCHANGED <<opVars, close, objectVars, ended, exec, tasks, page,
                   excused>>

\* _release_capacity.
Release ==
    /\ ended > 0
    /\ ended' = ended - 1 /\ active' = active - 1
    /\ UNCHANGED <<opVars, call, exec, close, objectVars, tasks, spool, page,
                   excused, pipeVars>>

\* Mutant of SubmitRefused: a call waits until a thread is free.
NeverRefused == exec.st = "closed"

\* submit raises while there is no capacity.
SubmitRefused == NoCapacity

\* An upload fails its pipe; its stream is closed without having been read.
SubmitFails(o) ==
    /\ InProgress(o) /\ Runs(o) /\ call[Own(o)].st = "asked" /\ SubmitRefused
    /\ Leave(o, "unavailable")
    /\ IF call[Own(o)].what = "put"
       THEN pipe' = Failed(pipe, "cancelled", TRUE) /\ UNCHANGED <<prod, cons>>
       ELSE UNCHANGED pipeVars
    /\ UNCHANGED <<kind, want, cancel, hit, active, ended, exec, close,
                   objectVars, spool, page>>

\* Somebody still waits for the call of c: its operation, the task that cleans
\* up after it, or the task that makes it.
Heard(c) ==
    CASE c[2] = "op"      -> pc[c[1]] \in Steps \union {"grace", "settle"}
                             \/ tasks[c[1]].eventual = "wait"
      [] c[2] = "staging" -> tasks[c[1]].staging = "delete"
      [] c[2] = "late"    -> tasks[c[1]].eventual = "late"
      [] OTHER            -> tasks[c[1]].eventual = "delete"

\* The thread of c returns out: the future is done, its capacity not yet free.
EndCall(c, out) ==
    /\ call' = [call EXCEPT ![c] = IF Heard(c)
                                   THEN [@ EXCEPT !.st = "ended", !.out = out]
                                   ELSE NoCall]
    /\ ended' = ended + 1
    /\ UNCHANGED <<active, exec>>

-----------------------------------------------------------------------------
(* What the threads do.                                                    *)

\* stat_object.
StatRuns(c) ==
    LET key == IF call[c].what = "headSource" THEN staged[c[1]] ELSE final IN
    /\ call[c].st = "running"
    /\ call[c].what \in {"headSource", "headFinal", "raced", "verify", "head"}
    /\ EndCall(c, IF key = "none" THEN "missing" ELSE key)
    /\ UNCHANGED <<objectVars, spool, page, pipeVars>>

\* remove_object, of the final key for delete_best_effort and for a late copy.
RemoveRuns(c) ==
    /\ call[c].st = "running" /\ call[c].what = "remove"
    /\ IF c[2] \in {"op", "late"}
       THEN final' = "none" /\ UNCHANGED staged
       ELSE staged' = [staged EXCEPT ![c[1]] = "none"] /\ UNCHANGED final
    /\ EndCall(c, "ok")
    /\ UNCHANGED <<rival, spool, page, pipeVars>>

\* The parts are copied if the source still has the ETag.
CopyPartsRun(c) ==
    /\ call[c].st = "running" /\ call[c].what = "copy"
    /\ IF staged[c[1]] = want[c[1]]
       THEN call' = [call EXCEPT ![c].st = "half"]
            /\ UNCHANGED <<active, ended, exec>>
       ELSE EndCall(c, "error")
    /\ UNCHANGED <<objectVars, spool, page, pipeVars>>

\* Mutant of Completes: the condition is forgotten.
CompletesAlways == TRUE

\* If-None-Match: * on the completion; otherwise the upload is aborted.
Completes == final = "none"

CopyCompletes(c) ==
    /\ call[c].st = "half"
    /\ IF Completes
       THEN /\ final' = want[c[1]]
            /\ \/ EndCall(c, "ok")
               \/ EndCall(c, "error")     \* the answer is lost
       ELSE UNCHANGED final /\ EndCall(c, "exists")
    /\ UNCHANGED <<staged, rival, spool, page, pipeVars>>

\* Mutant of PublishFile: nobody asks whether the caller has left.
PublishAnyway(slot) == [slot EXCEPT !.file = "published"]

\* Another process publishes at the same key, under the same condition.
RivalCompletes ==
    /\ rival # "none" /\ Completes
    /\ final' = rival /\ rival' = "none"
    /\ UNCHANGED <<opVars, callVars, close, staged, tasks, spool, page, excused,
                   pipeVars>>

\* The slot of a download: publish closes the file of a caller that has left.
PublishFile(slot) == [slot EXCEPT !.file = IF slot.abandoned THEN "closed"
                                                          ELSE "published"]

\* The bytes that arrive have the size and the checksum that were asked for.
Verified(o) == final = want[o]

\* get_object, hashed as it arrives: _download_verified_temporary_sync for a
\* stream, _read_bytes_sync otherwise.
GetRuns(c) ==
    LET good == Verified(c[1])
        streams == kind[c[1]] = "readStream" IN
    /\ call[c].st = "running" /\ call[c].what = "get"
    /\ spool' = IF ~streams THEN spool
                ELSE IF good THEN [spool EXCEPT ![c[1]] = PublishFile(@)]
                             ELSE [spool EXCEPT ![c[1]].file = "closed"]
    /\ EndCall(c, IF ~good THEN "failed"
                  ELSE IF streams /\ spool[c[1]].abandoned THEN "error"
                  ELSE "ok")
    /\ UNCHANGED <<objectVars, page, pipeVars>>

\* put_object is over: the finally of _put_sync stops the consumer.
EndPut(c, out) ==
    /\ EndCall(c, out)
    /\ pipe' = Stopped(pipe)
    /\ cons' = [cons EXCEPT !.st = "none"]
    /\ UNCHANGED <<prod, spool, page>>

\* The object appears when put_object completes it, with what was read.
PutStores(c) ==
    /\ call[c].st = "running" /\ call[c].what = "put" /\ cons.st = "store"
    /\ staged' = [staged EXCEPT ![c[1]] =
          IF prod.res = "ok" /\ cons.got = prod.total THEN want[c[1]]
                                                      ELSE "partial"]
    /\ EndPut(c, "ok")
    /\ UNCHANGED <<final, rival>>

PutRaises(c) ==
    /\ call[c].st = "running" /\ call[c].what = "put" /\ ReadRaises
    /\ EndPut(c, IF pipe.failure = "cancelled" THEN "error" ELSE pipe.failure)
    /\ UNCHANGED objectVars

PutReads(c) ==
    /\ call[c].st = "running" /\ call[c].what = "put"
    /\ Read
    /\ UNCHANGED <<callVars, objectVars, spool, page>>

\* The SDK gives up: no connection, a refusal, a changed source.
SdkFails(c) ==
    /\ InThread(c) /\ (call[c].what = "put" => cons.st # "wait")
    /\ IF call[c].what = "put"
       THEN EndPut(c, "error")
       ELSE /\ EndCall(c, "error")
               \/ (call[c].what = "copy" /\ EndCall(c, "changed"))
            /\ spool' = IF call[c].what = "get" /\ kind[c[1]] = "readStream"
                        THEN [spool EXCEPT ![c[1]].file = "closed"] ELSE spool
            /\ UNCHANGED <<page, pipeVars>>
    /\ UNCHANGED objectVars

ListRuns(c) ==
    /\ call[c].st = "running" /\ call[c].what = "list"
    /\ EndCall(c, "ok")
    /\ UNCHANGED <<objectVars, spool, page, pipeVars>>

ReadPipe(c) ==
    /\ PutReads(c) \/ PutRaises(c)
    /\ UNCHANGED <<opVars, close, tasks, excused>>

Sdk(c) ==
    /\ \/ StatRuns(c) \/ RemoveRuns(c) \/ CopyPartsRun(c) \/ CopyCompletes(c)
       \/ GetRuns(c) \/ PutStores(c) \/ ListRuns(c) \/ SdkFails(c)
    /\ UNCHANGED <<opVars, close, tasks, excused>>

-----------------------------------------------------------------------------
(* What an operation does with an answer.                                  *)

Answered(o, step) == pc[o] = step /\ Runs(o) /\ call[Own(o)].st = "ended"

Out(o) == call[Own(o)].out

OpStep == UNCHANGED <<kind, want, cancel, hit, active, ended, exec, close,
                      objectVars, page>>

\* A stat that failed, or whose object is not the expected one.
Unverified(o) == IF Out(o) = "error" THEN "unavailable" ELSE "failed"

\* _verify_source_version for an upload, _verified_stat for a publication.
VerifySourceVersion(o) ==
    /\ Answered(o, "headSource")
    /\ \/ Out(o) = want[o] /\ NextCall(o, "headFinal")
       \/ Out(o) # want[o] /\ Leave(o, Unverified(o))
    /\ OpStep /\ UNCHANGED <<spool, pipeVars>>

\* _reuse_or_conflict.
ReuseOrConflict(o) == IF Out(o) = want[o] THEN "reused" ELSE "conflict"

\* _publish_verified_source: an existing object is kept.
PublishVerifiedSource(o) ==
    /\ Answered(o, "headFinal")
    /\ \/ Out(o) = "missing" /\ NextCall(o, "copy")
       \/ Out(o) \in Payloads /\ Leave(o, ReuseOrConflict(o))
       \/ Out(o) = "error" /\ Leave(o, "unavailable")
    /\ OpStep /\ UNCHANGED <<spool, pipeVars>>

CopyIfAbsent(o) ==
    /\ Answered(o, "copy")
    /\ \/ Out(o) = "ok" /\ NextCall(o, "verify")
       \/ Out(o) = "exists" /\ NextCall(o, "raced")
       \/ Out(o) \in {"changed", "error"}
          /\ Leave(o, IF Out(o) = "error" THEN "unavailable" ELSE "failed")
    /\ OpStep /\ UNCHANGED <<spool, pipeVars>>

\* The completion found an object: the one that won is looked at.
CopyRaced(o) ==
    /\ Answered(o, "raced")
    /\ Leave(o, IF Out(o) \in Payloads THEN ReuseOrConflict(o)
                                       ELSE "unavailable")
    /\ OpStep /\ UNCHANGED <<spool, pipeVars>>

VerifyPublished(o) ==
    /\ Answered(o, "verify")
    /\ Leave(o, IF Out(o) = want[o] THEN "ok" ELSE Unverified(o))
    /\ OpStep /\ UNCHANGED <<spool, pipeVars>>

\* The stat of verify_object, read_bytes and read_stream.
HeadDone(o) ==
    /\ Answered(o, "head")
    /\ IF Out(o) = want[o] /\ kind[o] # "verify"
       THEN NextCall(o, "get")
       ELSE Leave(o, IF Out(o) = want[o] THEN "ok" ELSE Unverified(o))
    /\ OpStep /\ UNCHANGED <<spool, pipeVars>>

\* The bytes are verified; read_stream owns the file and yields from it.
ReadDone(o) ==
    /\ Answered(o, "get")
    /\ IF Out(o) = "ok" /\ kind[o] = "readStream"
       THEN /\ pc' = [pc EXCEPT ![o] = "yield"]
            /\ spool' = [spool EXCEPT ![o].file = "owned"]
            /\ UNCHANGED <<res, call, tasks, excused>>
       ELSE /\ Leave(o, IF Out(o) = "ok" THEN "ok" ELSE Unverified(o))
            /\ UNCHANGED spool
    /\ OpStep /\ UNCHANGED pipeVars

\* The last chunk, or the reader closes the generator.
StreamRead(o) ==
    /\ pc[o] = "yield" /\ Runs(o)
    /\ Leave(o, "ok")
    /\ spool' = [spool EXCEPT ![o].file = "closed"]
    /\ OpStep /\ UNCHANGED pipeVars

DeleteDone(o) ==
    /\ Answered(o, "remove")
    /\ Leave(o, IF Out(o) = "ok" THEN "ok" ELSE "unavailable")
    /\ OpStep /\ UNCHANGED <<spool, pipeVars>>

\* The members of a set of numbers in order.
Ascending(S) ==
    [i \in 1 .. Cardinality(S) |->
        CHOOSE x \in S : Cardinality({y \in S : y <= x}) = i]

\* One page: the first Limit old objects among the next ScanLimit ones, and
\* where to go on.  0 stands for no cursor.
ScanLimit == Min({MaxScan, Max({Limit + 1, Limit * ScanFactor})})

ListOlderThan(bucket, after) ==
    LET scanned == after + 1 .. Min({Len(bucket), after + ScanLimit})
        old == Ascending({i \in scanned : bucket[i]}) IN
    IF Len(old) > Limit
    THEN [items |-> SubSeq(old, 1, Limit), next |-> old[Limit]]
    ELSE [items |-> old,
          next |-> IF Len(bucket) > after + ScanLimit THEN after + ScanLimit
                                                      ELSE 0]

ListDone(o) ==
    /\ Answered(o, "list")
    /\ Leave(o, IF Out(o) = "ok" THEN "ok" ELSE "unavailable")
    /\ LET found == ListOlderThan(page.bucket, page.after) IN
       page' = IF Out(o) = "ok"
               THEN [page EXCEPT !.after = found.next,
                                 !.got = @ \o found.items]
               ELSE page
    /\ UNCHANGED <<kind, want, cancel, hit, active, ended, exec, close,
                   objectVars, spool, pipeVars>>

\* The caller of list_older_than asks for the next page.
NextPage(o) ==
    /\ kind[o] = "list" /\ pc[o] = "done" /\ res[o] = "ok" /\ page.after > 0
    /\ pc' = [pc EXCEPT ![o] = "new"] /\ res' = [res EXCEPT ![o] = "none"]
    /\ UNCHANGED <<kind, want, cancel, hit, callVars, close, objectVars, tasks,
                   spool, page, excused, pipeVars>>

-----------------------------------------------------------------------------
(* _put_stream: the consumer's answer first, then the producer's.          *)

\* The finally: nobody reads the pipe any more, and nobody should write it.
StopPipe ==
    /\ pipe' = Stopped(pipe) /\ cons' = Notify(cons)
    /\ prod' = [prod EXCEPT !.cancel = prod.st # "done"]

\* The caller gives up: what is buffered is dropped and the reader must raise.
FailPipe ==
    /\ pipe' = Stopped(Failed(pipe, "cancelled", TRUE))
    /\ cons' = Notify(cons)
    /\ prod' = [prod EXCEPT !.cancel = prod.st # "done"]

\* put_object has read up to the end of the file, so the producer ended well:
\* what _put_stream does with its errors here is for an SDK that stops early.
PutDone(o) ==
    /\ Answered(o, "put") /\ Out(o) = "ok"
    /\ prod.st = "done" /\ prod.res = "ok"
    /\ NextCall(o, "headSource")
    /\ StopPipe
    /\ OpStep /\ UNCHANGED spool

\* The object is stored but the stream's aclose outlives the deadline.
PutOverdue(o) ==
    /\ Answered(o, "put") /\ Out(o) = "ok" /\ prod.st # "done"
    /\ Leave(o, "failed")
    /\ StopPipe
    /\ OpStep /\ UNCHANGED spool

PutFailed(o) ==
    /\ Answered(o, "put") /\ Out(o) # "ok"
    /\ pc' = [pc EXCEPT ![o] = "settle"]
    /\ StopPipe
    /\ OpStep /\ UNCHANGED <<res, call, tasks, spool, excused>>

\* The grace period of the producer is over.  A producer that is still closing
\* its stream has no result, which counts as an error of the stream.
PutError(o) ==
    IF "limit" \in {Out(o), prod.res} THEN "limit"
    ELSE IF /\ Out(o) # "stream" /\ prod.st = "done"
            /\ prod.res \in {"stopped", "cancelled", "ok"} THEN "unavailable"
    ELSE "stream"

PutSettled(o) ==
    /\ pc[o] = "settle" /\ hit' = [hit EXCEPT ![o] = FALSE]
    /\ Leave(o, PutError(o))
    /\ UNCHANGED <<kind, want, cancel, active, ended, exec, close, objectVars,
                   page, spool, pipeVars>>

-----------------------------------------------------------------------------
(* Leaving a call behind: deadlines and cancellation.                      *)

\* abandon: the caller of a download leaves; a file already handed over is
\* closed here, otherwise publish will close it.
Abandon(slot) ==
    [file |-> IF slot.file = "published" THEN "closed" ELSE slot.file,
     abandoned |-> TRUE]

\* The deadline passes while the thread is still busy.
Timeout(o) ==
    LET what == call[Own(o)].what IN
    /\ pc[o] \in Steps /\ Runs(o) /\ InThread(Own(o))
    /\ LeaveWith(o, "unavailable",
                 IF what \in {"put", "copy"} THEN Eventual(o, tasks) ELSE tasks)
    /\ IF what = "put" THEN FailPipe ELSE UNCHANGED pipeVars
    /\ spool' = IF what = "get" /\ kind[o] = "readStream"
                THEN [spool EXCEPT ![o] = Abandon(@)] ELSE spool
    /\ OpStep

\* The task that runs the operation is cancelled, for instance by a client
\* that disconnects.
CancelOp(o) ==
    /\ InProgress(o) /\ cancel[o] = "no"
    /\ cancel' = [cancel EXCEPT ![o] = "caller"]
    /\ hit' = [hit EXCEPT ![o] = TRUE]
    /\ UNCHANGED <<kind, want, pc, res, callVars, close, objectVars, tasks,
                   spool, page, excused, pipeVars>>

\* CancelledError at the operation's await.
Cancelled(o) ==
    LET what == call[Own(o)].what
        asked == call[Own(o)].st = "asked" IN
    /\ hit[o] /\ hit' = [hit EXCEPT ![o] = FALSE]
    /\ \/ /\ pc[o] = "cleanup"                       \* the cleanup is shielded
          /\ pc' = [pc EXCEPT ![o] = "done"]
          /\ res' = [res EXCEPT ![o] = "cancelled"]
          /\ UNCHANGED <<call, tasks, spool, excused, pipeVars>>
       \/ /\ pc[o] \in {"put", "copy"} /\ ~asked     \* the call gets a grace
          /\ pc' = [pc EXCEPT ![o] = "grace"]
          /\ IF what = "put" THEN FailPipe ELSE UNCHANGED pipeVars
          /\ UNCHANGED <<res, call, tasks, spool, excused>>
       \/ /\ \/ pc[o] \in (Steps \ {"put", "copy"}) \union {"yield"}
             \/ pc[o] \in {"put", "copy"} /\ asked
          /\ Leave(o, "cancelled")
          /\ IF what = "put"
             THEN pipe' = Failed(pipe, "cancelled", TRUE)
                  /\ UNCHANGED <<prod, cons>>
             ELSE UNCHANGED pipeVars
          /\ spool' =
               CASE pc[o] = "yield" -> [spool EXCEPT ![o].file = "closed"]
                 [] pc[o] = "get" /\ ~asked /\ kind[o] = "readStream" ->
                      [spool EXCEPT ![o] = Abandon(@)]
                 [] OTHER -> spool
    /\ UNCHANGED <<kind, want, cancel, active, ended, exec, close,
                   objectVars, page>>

\* The grace is over, or a cancellation ends it, which _wait_grace swallows: a
\* copy is always followed up, a put only if it goes on.
GraceOver(o) ==
    LET follow == call[Own(o)].what = "copy" \/ call[Own(o)].st # "ended" IN
    /\ pc[o] = "grace" /\ hit' = [hit EXCEPT ![o] = FALSE]
    /\ LeaveWith(o, "cancelled", IF follow THEN Eventual(o, tasks) ELSE tasks)
    /\ UNCHANGED <<kind, want, cancel, active, ended, exec, close, objectVars,
                   page, spool, pipeVars>>

Operation(o) ==
    \/ Submit(Own(o)) \/ Admit(o) \/ CleanedUp(o) \/ SubmitFails(o) \/ Timeout(o)
    \/ VerifySourceVersion(o) \/ PublishVerifiedSource(o) \/ CopyIfAbsent(o)
    \/ CopyRaced(o) \/ VerifyPublished(o) \/ HeadDone(o) \/ ReadDone(o)
    \/ StreamRead(o) \/ DeleteDone(o) \/ ListDone(o) \/ PutDone(o)
    \/ PutOverdue(o) \/ PutFailed(o) \/ PutSettled(o) \/ Cancelled(o)
    \/ GraceOver(o)

-----------------------------------------------------------------------------
(* Background tasks.                                                       *)

BackgroundFrame == UNCHANGED <<opVars, active, ended, exec, close,
                               objectVars, spool, page, pipeVars>>

\* finalize: the abandoned call has ended.  A copy that succeeded after all is
\* undone first: nobody was told of the object.
EventualWakes(o) ==
    LET late == call[Own(o)].what = "copy" /\ Out(o) = "ok" IN
    /\ tasks[o].eventual = "wait" /\ call[Own(o)].st = "ended"
    /\ tasks' = [tasks EXCEPT ![o].eventual = IF late THEN "late" ELSE "delete"]
    /\ call' = [call EXCEPT
          ![Own(o)] = NoCall,
          ![<<o, IF late THEN "late" ELSE "eventual">>] = Asked("remove")]
    /\ UNCHANGED excused /\ BackgroundFrame

\* _delete_best_effort in a task returns, with the answer or without one.
DeleteReturns(o, who) ==
    LET c == <<o, who>>
        st == IF who = "staging" THEN tasks[o].staging ELSE tasks[o].eventual
        left == [call EXCEPT ![c] = IF @.st \in {"asked", "ended"} THEN NoCall
                                                                   ELSE @] IN
    /\ st = (IF who = "late" THEN "late" ELSE "delete")
    /\ call[c].st = "asked" => SubmitRefused
    /\ excused' = IF call[c].st = "ended" /\ call[c].out = "ok"
                  THEN excused ELSE excused \union {o}
    /\ tasks' = CASE who = "staging"  -> [tasks EXCEPT ![o].staging = "done"]
                 [] who = "late"     -> [tasks EXCEPT ![o].eventual = "delete"]
                 [] who = "eventual" -> [tasks EXCEPT ![o].eventual = "done"]
    /\ call' = IF who = "late"
               THEN [left EXCEPT ![<<o, "eventual">>] = Asked("remove")]
               ELSE left
    /\ BackgroundFrame

Background(o) ==
    \/ EventualWakes(o)
    \/ \E who \in {"staging", "late", "eventual"} :
          Submit(<<o, who>>) \/ DeleteReturns(o, who)

-----------------------------------------------------------------------------
(* aclose.                                                                 *)

TaskLive(o) ==
    \/ tasks[o].staging = "delete"
    \/ tasks[o].eventual \in {"wait", "late", "delete"}

\* _live_lifecycle_tasks: operations, wrappers of SDK calls, background tasks.
Live ==
    \/ \E o \in Ops : InProgress(o) \/ TaskLive(o)
    \/ \E c \in Callers : InThread(c)
    \/ prod.st \notin {"none", "done"}

\* _cancel_lifecycle_tasks: every live task is cancelled and marked as
\* cancelled by close; the threads run on.
CancelLive ==
    /\ cancel' = [o \in Ops |-> IF InProgress(o) THEN "close" ELSE cancel[o]]
    /\ hit' = [o \in Ops |-> InProgress(o)]
    /\ tasks' = [o \in Ops |->
          [staging |-> IF tasks[o].staging = "delete" THEN "done"
                                                     ELSE tasks[o].staging,
           eventual |-> IF tasks[o].eventual \in {"wait", "late", "delete"}
                        THEN "done" ELSE tasks[o].eventual]]
    /\ call' = [c \in Callers |->
          IF c[2] # "op" /\ call[c].st = "asked" THEN NoCall ELSE call[c]]
    /\ excused' = excused \union {o \in Ops : InProgress(o) \/ TaskLive(o)}
    /\ prod' = [prod EXCEPT !.cancel = @ \/ prod.st \notin {"none", "done"}]
    /\ UNCHANGED <<kind, want, pc, res, active, ended, objectVars, spool,
                   page, pipe, cons>>

CloseFrame == UNCHANGED <<opVars, call, active, ended, objectVars,
                          tasks, spool, page, excused, pipeVars>>

Aclose ==
    /\ close = "open" \/ (close = "kept" /\ ~Live)
    /\ close' = "drain"
    /\ CloseFrame /\ UNCHANGED exec

\* aclose is called again.  A store whose close has failed is retired again.
AcloseAgain ==
    \/ /\ close = "failed"
       /\ close' = "retire"
       /\ CancelLive /\ UNCHANGED exec
    \/ /\ close = "closed"
       /\ close' = "drain"
       /\ CloseFrame /\ UNCHANGED exec

\* Nothing is live: the executor refuses new calls and is drained.
CloseExecutor ==
    /\ close = "drain" /\ ~Live
    /\ close' = "executor"
    /\ exec' = [exec EXCEPT !.st = "closed"]
    /\ CloseFrame

ExecutorDrained ==
    /\ close = "executor" /\ active = 0
    /\ close' = "closed"
    /\ CloseFrame /\ UNCHANGED exec

ExecutorOverdue ==
    /\ close = "executor" /\ active > 0
    /\ close' = "failed"
    /\ CloseFrame /\ UNCHANGED exec

\* The deadline passes, or the task in aclose is cancelled.
RetireFailedClose ==
    /\ \/ close = "drain" /\ Live
       \/ close = "executor" /\ active > 0
    /\ close' = "retire"
    /\ CancelLive /\ UNCHANGED exec

\* The grace periods of _cancel_lifecycle_tasks and of the executor are over.
Retired ==
    /\ close = "retire"
    /\ close' = "failed"
    /\ exec' = [exec EXCEPT !.st = "closed"]
    /\ CloseFrame

CloseStep == CloseExecutor \/ ExecutorDrained \/ ExecutorOverdue
             \/ RetireFailedClose \/ Retired

-----------------------------------------------------------------------------
ProducerStep ==
    /\ Producer
    /\ UNCHANGED <<opVars, callVars, close, objectVars, tasks, spool, page,
                   excused>>

Loop == \E o \in Ops : Operation(o) \/ Background(o)

StoreNext ==
    \/ Loop
    \/ \E o \in Ops : CancelOp(o) \/ NextPage(o)
    \/ \E c \in Callers : ReadPipe(c) \/ Sdk(c)
    \/ Release \/ ProducerStep \/ RivalCompletes
    \/ Aclose \/ AcloseAgain \/ CloseStep

StoreSpec == StoreInit /\ [][StoreNext]_storeVars

\* The event loop does not stop while a task is ready or a timer is due, and a
\* thread whose read of the pipe can return goes on.  Nothing is assumed of the
\* SDK's network, of the caller's stream, of which ready task runs first, or of
\* a caller that cancels or closes.
StoreFairness == WF_storeVars(Loop) /\ WF_storeVars(\E o \in Ops : ReadPipe(Own(o)))

StoreFairSpec == StoreSpec /\ StoreFairness

-----------------------------------------------------------------------------
(* Properties.                                                             *)

\* The executor's capacity follows the real calls: an operation that times out
\* or is cancelled never frees the thread its call still occupies, so at most
\* MaxWorkers calls are ever in flight (_MinioIoExecutor).
CapacityFollowsThreads ==
    active = Cardinality({c \in Callers : InThread(c)}) + ended + exec.busy

\* When aclose returns without an error nothing is left: no operation, no call
\* in a thread, no cleanup task, and no admission after it.
DrainedWhenClosed ==
    close = "closed" =>
        /\ \A o \in Ops : ~InProgress(o) /\ ~TaskLive(o)
        /\ \A c \in Callers : ~InThread(c)

\* The temporary file of a download is closed exactly by whoever holds it last:
\* once the reader is gone and the thread has ended, no file stays open,
\* however the two interleave (_TemporaryDownloadSlot).
SpoolsClosed ==
    \A o \in Ops : pc[o] = "done" /\ ~InThread(Own(o))
                      => spool[o].file \in {"none", "closed"}

\* Threads, tasks and temporary files are accounted for, whoever times out, is
\* cancelled or is closed over.
StoreAccounts == StoreTypeOK /\ CapacityFollowsThreads /\ DrainedWhenClosed /\ SpoolsClosed

\* A staging object whose upload or publication is over, with its calls and its
\* cleanup tasks, is gone, unless a delete failed or aclose cancelled it: also
\* when the put or the copy ended after its caller had left.
StagingRemoved ==
    \A o \in Ops :
        /\ kind[o] \in {"upload", "publish"}
        /\ pc[o] = "done" /\ res[o] # "refused" /\ ~TaskLive(o)
        /\ \A c \in Callers : c[1] = o => ~InThread(c)
        /\ o \notin excused
        => staged[o] = "none"

\* put_object never completes an object with a part of the stream: a limit, a
\* broken stream, a deadline or a cancellation reaches the reader as an error,
\* not as the end of the file.
StagedWhole == \A o \in Ops : staged[o] # "partial"

\* A final key is never given another content: two publications that both found
\* the key absent are decided by the store's condition on the completion.
FinalImmutable ==
    [][final # "none" /\ final' # "none" => final' = final]_storeVars

\* Paging with the cursor of the last page returns every old object once and in
\* order, whatever lies between them (_list_older_than_sync).
ListsAllOld ==
    \A o \in Ops :
        kind[o] = "list" /\ res[o] = "ok" /\ page.after = 0 =>
            page.got = Ascending({i \in DOMAIN page.bucket : page.bucket[i]})

\* The objects are what the callers were told: whole, removed when their
\* operation is over, and listed when they are old.
ObjectsSound == StagingRemoved /\ StagedWhole /\ ListsAllOld

\* An admitted operation ends, even if the SDK never answers and the caller's
\* stream never yields.
OperationsEnd ==
    \A o \in Ops : pc[o] \notin {"new", "done"} ~> pc[o] = "done"

\* The thread that reads the pipe of an upload whose operation has left does
\* not sleep in the pipe for ever: no wake-up is lost.
ReaderLetGo ==
    (\E o \in Ops : kind[o] = "upload" /\ pc[o] = "done")
        ~> cons.st \notin {"read", "wait"}

\* Neither an operation nor the thread of its upload is left waiting.
StoreProgress == OperationsEnd /\ ReaderLetGo

=============================================================================
