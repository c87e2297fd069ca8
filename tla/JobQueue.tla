------------------------------ MODULE JobQueue ------------------------------
(***************************************************************************)
(* The durable job queue of the RAG service and the runner slots that      *)
(* drain it.                                                               *)
(*                                                                         *)
(* The jobs table is PostgreSQL state; every repository method runs in one *)
(* transaction that ends in a single fenced UPDATE of the job row, so a    *)
(* repository call is one atomic step.  What happens between two calls of  *)
(* one slot is not atomic: the heartbeat task, the handler task, the other *)
(* slots and the clock all interleave there, and a slot may die.           *)
(*                                                                         *)
(* A slot is one run_once task.  The slots of one worker process share the *)
(* lease owner string, so the owner alone never tells two leases apart.    *)
(*                                                                         *)
(* Time is abstract.  A lease is "live" until LeaseExpires makes it        *)
(* "expired", and a delayed retry is not due until RetryDue makes it due:  *)
(* both can happen between any two transactions.  That loses nothing, the  *)
(* code compares both columns only with the database clock.                *)
(***************************************************************************)
EXTENDS Naturals, FiniteSets

CONSTANTS
  Jobs,         \* job identifiers; their order is ORDER BY created_at, id
  Slots,        \* run_once tasks of all worker processes
  OwnerOf,      \* the lease_owner string of a slot's process
  Handled,      \* jobs whose operation has a registered handler
  MaxAttempts,  \* jobs.max_attempts
  LastStage,    \* number of the last stage of an operation (first is 0)
  MaxBacklog,   \* bound on jobs that are not settled or that a slot still holds
  MaxFaults     \* bound on crashes and shutdowns together

ASSUME JobsAssumption == Jobs \subseteq Nat \ {0}
ASSUME SlotsAssumption == Slots # {} /\ IsFiniteSet(Slots)
ASSUME HandledAssumption == Handled \subseteq Jobs
ASSUME BoundsAssumption ==
  MaxAttempts \in Nat \ {0} /\ LastStage \in Nat /\ MaxBacklog \in Nat /\ MaxFaults \in Nat

VARIABLES
  jobs,    \* the jobs table
  slots,   \* what each run_once task, its handler and its heartbeat hold
  stop,    \* stop[s]: the stop event of the slot's process is set
  starts,  \* history: how often a handler was started for a job
  faults   \* crashes and shutdowns so far

vars == <<jobs, slots, stop, starts, faults>>

-----------------------------------------------------------------------------
(* The job row.                                                            *)

Terminal == {"succeeded", "failed", "cancelled"}
Pending  == {"queued", "running", "retry_wait"}
Status   == Pending \cup Terminal \cup {"absent"}
Lease    == {"none", "live", "expired"}
Owners   == {OwnerOf[s] : s \in Slots}
NoOwner  == "none"
Errors   == {"none", "handler", "exhausted"}
Stages   == 0 .. LastStage

Row == [status    : Status,
        attempt   : 0 .. MaxAttempts,
        epoch     : Nat,
        owner     : Owners \cup {NoOwner},
        lease     : Lease,
        due       : BOOLEAN,        \* next_retry_at <= clock_timestamp()
        stage     : Stages,
        cancel    : BOOLEAN,        \* cancel_requested_at IS NOT NULL
        retryable : BOOLEAN,
        error     : Errors]

\* The row the upload, purge and rebuild services insert.
NewRow == [status |-> "queued", attempt |-> 0, epoch |-> 0, owner |-> NoOwner,
           lease |-> "none", due |-> FALSE, stage |-> 0, cancel |-> FALSE,
           retryable |-> TRUE, error |-> "none"]

\* There is no row yet.
NoRow == [NewRow EXCEPT !.status = "absent"]

-----------------------------------------------------------------------------
(* What a slot holds: the task's control point, the JobLease in its         *)
(* JobExecutionContext, the heartbeat task, and an ExhaustedJob snapshot.   *)

HandlerPc == {"working",         \* handler between two transactions
              "advanced",        \* advance_stage committed, lease not stored
              "activating",      \* finalize_domain entered, for success
              "failing",         \* finalize_domain entered, for failure
              "finalCommitted"}  \* finalize_domain committed, not returned
\* finalization_in_progress: no await separates these from one another.
FinalizingPc == {"activating", "failing", "finalCommitted"}
OutcomePc == {"succeeding", "failRetryable", "failPermanent"}
\* "cancelled", "lost": the heartbeat cancelled the handler task, because
\* cancellation was requested (context.cancel_requested) or because the lease
\* could not be renewed (context.lease_lost).
Pc == {"idle", "exhausted", "claimed", "cancelling", "admitted",
       "cancelled", "lost"}
        \cup HandlerPc \cup OutcomePc
HbPc == {"off", "sleep", "sent", "beaten"}

NoJob == 0
\* The columns of an ExhaustedJob that exhausted_fence compares.
SnapshotOf(r) == [status |-> r.status, attempt |-> r.attempt, epoch |-> r.epoch,
                  owner |-> r.owner, stage |-> r.stage, cancel |-> r.cancel]
Snapshot == [status : Status, attempt : 0 .. MaxAttempts, epoch : Nat,
             owner : Owners \cup {NoOwner}, stage : Stages, cancel : BOOLEAN]
NoSnapshot == SnapshotOf(NewRow)

SlotState == [pc        : Pc,
              job       : Jobs \cup {NoJob},
              epoch     : Nat,       \* context.lease.lease_epoch
              stage     : Stages,    \* context.lease.stage
              newStage  : Stages,    \* stage of the lease advance_stage returns
              hb        : HbPc,
              hbStage   : Stages,    \* stage of the lease heartbeat() was given
              snap      : Snapshot]

Idle == [pc |-> "idle", job |-> NoJob, epoch |-> 0, stage |-> 0,
         newStage |-> 0, hb |-> "off", hbStage |-> 0, snap |-> NoSnapshot]

Row0(s) == jobs[slots[s].job]

-----------------------------------------------------------------------------
(* Fences.                                                                 *)

\* Mutant of Fence: only the lease identity is compared.
FenceIdentityOnly(s) == Row0(s).epoch = slots[s].epoch

\* SqlAlchemyJobRepository._fence for the lease held by slot s.
Fence(s) ==
  /\ Row0(s).status = "running"
  /\ Row0(s).owner = OwnerOf[s]
  /\ Row0(s).epoch = slots[s].epoch
  /\ Row0(s).lease = "live"

\* SqlAlchemyJobRepository._stage_fence.
StageFence(s) == Fence(s) /\ Row0(s).stage = slots[s].stage

\* Mutant of Eligible: an expired lease is never taken over.
EligibleWaitingOnly(r) ==
  \/ r.status = "queued"
  \/ r.status = "retry_wait" /\ r.due

\* The rows claim_next may return, and exhausted_fence's eligibility.
Eligible(r) ==
  \/ r.status = "queued"
  \/ r.status = "retry_wait" /\ r.due
  \/ r.status = "running" /\ r.lease = "expired"

\* claim_next: the candidate's attempts are used up.
Spent(r) == r.attempt >= MaxAttempts

\* SqlAlchemyJobRepository.exhausted_fence: the row still is the snapshot.
ExhaustedFence(s) ==
  /\ SnapshotOf(Row0(s)) = slots[s].snap
  /\ Row0(s).attempt = MaxAttempts
  /\ Eligible(Row0(s))

-----------------------------------------------------------------------------
(* Row updates shared by several transactions.                             *)

\* A terminal or waiting status clears the lease columns.
Unleased(r, st) == [r EXCEPT !.status = st, !.owner = NoOwner, !.lease = "none"]

\* Mutant of Succeeded: the cancellation request is ignored.
SucceededRegardless(r) ==
  [Unleased(r, "succeeded")
     EXCEPT !.retryable = FALSE, !.due = FALSE, !.error = "none"]

\* The UPDATE of mark_succeeded: a cancellation request wins.
Succeeded(r) ==
  [Unleased(r, IF r.cancel THEN "cancelled" ELSE "succeeded")
     EXCEPT !.retryable = FALSE, !.due = FALSE, !.error = "none"]

\* The UPDATE of mark_cancelled; error columns are left alone.
Cancelled(r) ==
  [Unleased(r, "cancelled") EXCEPT !.retryable = FALSE, !.due = FALSE]

\* The UPDATE of record_failure.
Failed(r, retryable) ==
  IF r.cancel
  THEN [Cancelled(r) EXCEPT !.error = "none"]
  ELSE [Unleased(r, IF retryable /\ r.attempt < MaxAttempts
                    THEN "retry_wait" ELSE "failed")
          EXCEPT !.retryable = retryable, !.due = FALSE, !.error = "handler"]

\* The UPDATE of release_claim: the attempt is given back, the epoch is not.
Released(r) ==
  [Unleased(r, "queued") EXCEPT !.attempt = @ - 1, !.retryable = TRUE,
                                !.due = FALSE, !.error = "none"]

\* The UPDATE of claim_next.
ClaimedBy(r, s) ==
  [r EXCEPT !.status = "running", !.attempt = @ + 1, !.epoch = @ + 1,
            !.owner = OwnerOf[s], !.lease = "live", !.due = FALSE,
            !.error = "none"]

\* The UPDATE of finalize_exhausted.
Exhausted(r) ==
  [Unleased(r, "failed") EXCEPT !.retryable = FALSE, !.due = FALSE,
                                !.error = "exhausted"]

-----------------------------------------------------------------------------
Init ==
  /\ jobs = [j \in Jobs |-> NoRow]
  /\ slots = [s \in Slots |-> Idle]
  /\ stop = [s \in Slots |-> FALSE]
  /\ starts = [j \in Jobs |-> 0]
  /\ faults = 0

EligibleJobs == {j \in Jobs : Eligible(jobs[j])}

SetSlot(s, st) == slots' = [slots EXCEPT ![s] = st]
SetRow(s, r)   == jobs' = [jobs EXCEPT ![slots[s].job] = r]
Return(s)      == SetSlot(s, Idle)
Goto(s, pc)    == SetSlot(s, [slots[s] EXCEPT !.pc = pc])
Others         == UNCHANGED <<stop, starts, faults>>

-----------------------------------------------------------------------------
(* Claiming.                                                               *)

\* lease_from_job: the slot's context starts with the lease of row r.
LeaseFrom(j, r) ==
  [Idle EXCEPT !.pc = "claimed", !.job = j, !.epoch = r.epoch, !.stage = r.stage]

\* JobRunner._claim and claim_next on candidate j.  With its attempts spent
\* the job is only read: the snapshot is finalised in another transaction.
Claim(s, j) ==
  /\ slots[s].pc = "idle" /\ ~stop[s]
  /\ Eligible(jobs[j])
  /\ IF Spent(jobs[j])
     THEN /\ SetSlot(s, [Idle EXCEPT !.pc = "exhausted", !.job = j,
                                     !.snap = SnapshotOf(jobs[j])])
          /\ UNCHANGED jobs
     ELSE /\ jobs' = [jobs EXCEPT ![j] = ClaimedBy(jobs[j], s)]
          /\ SetSlot(s, LeaseFrom(j, ClaimedBy(jobs[j], s)))
  /\ Others

\* A poll takes the oldest eligible row.
PollClaim(s) ==
  \E j \in EligibleJobs : (\A k \in EligibleJobs : j <= k) /\ Claim(s, j)

\* A notification names a job.  Redis may deliver it late or twice, and a
\* concurrent claim's SKIP LOCKED rows make a poll take a younger one.
NotifiedClaim(s, j) == Claim(s, j)

\* _finalize_exhausted: the CAS on the snapshot, or nothing.
FinalizeExhausted(s) ==
  /\ slots[s].pc = "exhausted"
  /\ IF ~stop[s] /\ ExhaustedFence(s)
     THEN SetRow(s, Exhausted(Row0(s)))
     ELSE UNCHANGED jobs
  /\ Return(s)
  /\ Others

-----------------------------------------------------------------------------
(* From the claim to the start of the handler.                             *)

\* Mutant of ReleaseClaim: a handler that already runs is released as well.
ReleaseStarted(s) ==
  /\ slots[s].pc \in {"claimed", "admitted", "working"} /\ stop[s]
  /\ IF Fence(s) THEN SetRow(s, Released(Row0(s))) ELSE UNCHANGED jobs
  /\ Return(s)
  /\ Others

\* _release_claim: the process is stopping and the handler never ran.
ReleaseClaim(s) ==
  /\ slots[s].pc \in {"claimed", "admitted"} /\ stop[s]
  /\ IF Fence(s) THEN SetRow(s, Released(Row0(s))) ELSE UNCHANGED jobs
  /\ Return(s)
  /\ Others

\* run_once's own check_cancellation, before the handler exists.  The stop
\* event may be set while the query is under way.
CheckAtStart(s) ==
  /\ slots[s].pc = "claimed"
  /\ IF Fence(s)
     THEN Goto(s, IF Row0(s).cancel THEN "cancelling" ELSE "admitted")
     ELSE Return(s)
  /\ UNCHANGED jobs
  /\ Others

\* The handler task and the heartbeat task are created.
StartHandler(s) ==
  /\ slots[s].pc = "admitted" /\ ~stop[s]
  /\ slots[s].job \in Handled
  /\ SetSlot(s, [slots[s] EXCEPT !.pc = "working", !.hb = "sleep"])
  /\ starts' = [starts EXCEPT ![slots[s].job] = @ + 1]
  /\ UNCHANGED <<jobs, stop, faults>>

\* No handler is registered: JOB_HANDLER_UNAVAILABLE.
NoHandler(s) ==
  /\ slots[s].pc = "admitted" /\ ~stop[s]
  /\ slots[s].job \notin Handled
  /\ Goto(s, "failPermanent")
  /\ UNCHANGED jobs
  /\ Others

-----------------------------------------------------------------------------
(* The handler task.                                                       *)

\* advance_stage: facts and the next stage commit together, or LostLease.
AdvanceStage(s) ==
  /\ slots[s].pc = "working" /\ slots[s].stage < LastStage
  /\ IF StageFence(s)
     THEN LET next == slots[s].stage + 1 IN
          /\ SetRow(s, [Row0(s) EXCEPT !.stage = next])
          /\ SetSlot(s, [slots[s] EXCEPT !.pc = "advanced", !.newStage = next])
     ELSE Return(s) /\ UNCHANGED jobs
  /\ Others

\* advance_stage returns: the context stores the new lease.
AdvanceReturns(s) ==
  /\ slots[s].pc = "advanced"
  /\ SetSlot(s, [slots[s] EXCEPT !.pc = "working", !.stage = slots[s].newStage,
                                 !.newStage = 0])
  /\ UNCHANGED jobs
  /\ Others

\* finalize_domain sets finalization_in_progress and opens its transaction,
\* to activate after the last stage or to fail the target at any stage.
FinalizeBegins(s, goal) ==
  /\ slots[s].pc = "working"
  /\ goal = "activating" => slots[s].stage = LastStage
  /\ Goto(s, goal)
  /\ UNCHANGED jobs
  /\ Others

\* The domain transaction: commit_activation and the repair's
\* _finalize_success, or commit_terminal_failure.  Job and domain rows turn
\* terminal together, under the stage fence and only with no cancellation.
FinalizeCommits(s) ==
  /\ slots[s].pc \in {"activating", "failing"}
  /\ IF StageFence(s) /\ ~Row0(s).cancel
     THEN /\ \/ /\ slots[s].pc = "activating"
                /\ SetRow(s, Succeeded(Row0(s)))
             \/ /\ slots[s].pc = "failing"
                /\ \E retryable \in BOOLEAN :
                     /\ retryable => Row0(s).attempt = MaxAttempts
                     /\ SetRow(s, Failed(Row0(s), retryable))
          /\ Goto(s, "finalCommitted")
     ELSE Return(s) /\ UNCHANGED jobs
  /\ Others

\* The activation meets a domain conflict and rolls back; the handler turns
\* to the terminal failure at once.
ActivationConflicts(s) ==
  /\ slots[s].pc = "activating"
  /\ Goto(s, "failing")
  /\ UNCHANGED jobs
  /\ Others

\* finalize_domain returns, the handler completes, run_once is done.
FinalizeReturns(s) ==
  /\ slots[s].pc = "finalCommitted"
  /\ Return(s)
  /\ UNCHANGED jobs
  /\ Others

\* The handler returns COMPLETE without finalising, or raises.  A commit whose
\* answer is lost raises too: the transaction stands, the context is stale.
HandlerEnds(s, outcome) ==
  /\ \/ slots[s].pc = "working"
     \/ slots[s].pc \in HandlerPc /\ outcome = "failPermanent"
  /\ Goto(s, outcome)
  /\ UNCHANGED jobs
  /\ Others

\* mark_succeeded, record_failure: fenced, silent when the lease is gone.
RecordOutcome(s) ==
  /\ slots[s].pc \in OutcomePc
  /\ IF Fence(s)
     THEN SetRow(s, CASE slots[s].pc = "succeeding"    -> Succeeded(Row0(s))
                      [] slots[s].pc = "failRetryable" -> Failed(Row0(s), TRUE)
                      [] slots[s].pc = "failPermanent" -> Failed(Row0(s), FALSE))
     ELSE UNCHANGED jobs
  /\ Return(s)
  /\ Others

\* mark_cancelled, at the start or after the handler was cancelled.
MarkCancelled(s) ==
  /\ slots[s].pc \in {"cancelling", "cancelled"}
  /\ IF Fence(s) THEN SetRow(s, Cancelled(Row0(s))) ELSE UNCHANGED jobs
  /\ Return(s)
  /\ Others

\* The lease was lost: run_once returns without a terminal write.
AbandonLost(s) ==
  /\ slots[s].pc = "lost"
  /\ Return(s)
  /\ UNCHANGED jobs
  /\ Others

-----------------------------------------------------------------------------
(* The heartbeat task, _maintain_lease.                                    *)

HandlerDone(s) == slots[s].pc \notin HandlerPc

\* The sleep ends and heartbeat() is called with the lease of that moment.
HeartbeatSends(s) ==
  /\ slots[s].hb = "sleep" /\ ~HandlerDone(s)
  /\ SetSlot(s, [slots[s] EXCEPT !.hb = "sent", !.hbStage = slots[s].stage])
  /\ UNCHANGED jobs
  /\ Others

\* Mutant of HeartbeatCommits: the lease given to heartbeat() is stored back.
HeartbeatRestoresLease(s) ==
  /\ slots[s].hb = "sent" /\ Fence(s)
  /\ SetRow(s, [Row0(s) EXCEPT !.lease = "live"])
  /\ SetSlot(s, [slots[s] EXCEPT !.hb = "beaten", !.hbStage = 0,
                                 !.stage = slots[s].hbStage])
  /\ Others

\* heartbeat(): the UPDATE renews the lease, and the lease read back from the
\* row is stored before the transaction releases its row lock.
HeartbeatCommits(s) ==
  /\ slots[s].hb = "sent" /\ Fence(s)
  /\ SetRow(s, [Row0(s) EXCEPT !.lease = "live"])
  /\ SetSlot(s, [slots[s] EXCEPT !.hb = "beaten", !.hbStage = 0,
                                 !.stage = Row0(s).stage])
  /\ Others

\* check_cancellation() after a heartbeat; a request cancels the handler task.
HeartbeatChecks(s) ==
  /\ slots[s].hb = "beaten" /\ Fence(s)
  /\ SetSlot(s, [slots[s] EXCEPT !.hb = IF Row0(s).cancel THEN "off" ELSE "sleep",
                                 !.pc = IF Row0(s).cancel /\ ~HandlerDone(s)
                                        THEN "cancelled" ELSE @])
  /\ UNCHANGED jobs
  /\ Others

\* Either call raises: the fence failed, or the database did not answer.  The
\* lease is given up unless finalize_domain is under way.
HeartbeatFails(s) ==
  /\ slots[s].hb \in {"sent", "beaten"}
  /\ SetSlot(s, [slots[s] EXCEPT !.hb = "off", !.hbStage = 0,
                                 !.pc = IF @ \in FinalizingPc \/ HandlerDone(s)
                                        THEN @ ELSE "lost"])
  /\ UNCHANGED jobs
  /\ Others

-----------------------------------------------------------------------------
(* The environment.                                                        *)

Backlog ==
  {j \in Jobs : jobs[j].status \in Pending \/ \E s \in Slots : slots[s].job = j}

\* A service inserts a job, in the transaction that also writes what it is
\* about.  Identifiers are handed out in the order of created_at.
Enqueue(j) ==
  /\ jobs[j].status = "absent"
  /\ \A k \in Jobs : k < j => jobs[k].status # "absent"
  /\ Cardinality(Backlog) < MaxBacklog
  /\ jobs' = [jobs EXCEPT ![j] = NewRow]
  /\ UNCHANGED <<slots, stop, starts, faults>>

LeaseExpires(j) ==
  /\ jobs[j].lease = "live"
  /\ jobs' = [jobs EXCEPT ![j].lease = "expired"]
  /\ UNCHANGED <<slots, stop, starts, faults>>

RetryDue(j) ==
  /\ jobs[j].status = "retry_wait" /\ ~jobs[j].due
  /\ jobs' = [jobs EXCEPT ![j].due = TRUE]
  /\ UNCHANGED <<slots, stop, starts, faults>>

\* cancel_requested_at is set from outside the service.
RequestCancel(j) ==
  /\ jobs[j].status \in Pending /\ ~jobs[j].cancel
  /\ jobs' = [jobs EXCEPT ![j].cancel = TRUE]
  /\ UNCHANGED <<slots, stop, starts, faults>>

\* SIGTERM sets the stop event of the process.
Stop(s) ==
  /\ ~stop[s] /\ faults < MaxFaults
  /\ stop' = [stop EXCEPT ![s] = TRUE]
  /\ faults' = faults + 1
  /\ UNCHANGED <<jobs, slots, starts>>

\* The process dies, the shutdown deadline cancels the task, or a database
\* error ends run_once: nothing more is written for this lease.
Crash(s) ==
  /\ slots[s].pc # "idle" /\ (stop[s] \/ faults < MaxFaults)
  /\ Return(s)
  /\ faults' = IF stop[s] THEN faults ELSE faults + 1
  /\ UNCHANGED <<jobs, stop, starts>>

\* A stopped process that drained its slot is started again.
Restart(s) ==
  /\ stop[s] /\ slots[s].pc = "idle"
  /\ stop' = [stop EXCEPT ![s] = FALSE]
  /\ UNCHANGED <<jobs, slots, starts, faults>>

-----------------------------------------------------------------------------
HandlerStep(s) ==
  \/ AdvanceStage(s) \/ AdvanceReturns(s)
  \/ \E g \in {"activating", "failing"} : FinalizeBegins(s, g)
  \/ FinalizeCommits(s) \/ ActivationConflicts(s) \/ FinalizeReturns(s)
  \/ \E o \in OutcomePc : HandlerEnds(s, o)

RunnerStep(s) ==
  \/ FinalizeExhausted(s) \/ ReleaseClaim(s) \/ CheckAtStart(s)
  \/ StartHandler(s) \/ NoHandler(s)
  \/ RecordOutcome(s) \/ MarkCancelled(s) \/ AbandonLost(s)

HeartbeatStep(s) ==
  \/ HeartbeatSends(s) \/ HeartbeatCommits(s)
  \/ HeartbeatChecks(s) \/ HeartbeatFails(s)

SlotStep(s) ==
  \/ PollClaim(s) \/ \E j \in Jobs : NotifiedClaim(s, j)
  \/ RunnerStep(s) \/ HandlerStep(s) \/ HeartbeatStep(s)
  \/ Stop(s) \/ Crash(s) \/ Restart(s)

JobStep(j) == Enqueue(j) \/ LeaseExpires(j) \/ RetryDue(j) \/ RequestCancel(j)

Next ==
  \/ \E s \in Slots : SlotStep(s)
  \/ \E j \in Jobs : JobStep(j)

\* The lease of a job no slot is executing any more.
Orphaned(j) == \A s \in Slots : slots[s].job = j => slots[s].epoch # jobs[j].epoch

\* The event loop runs every ready task, a process supervisor restarts a
\* stopped worker, workers poll, and the clock passes every deadline.  A lease
\* is only sure to run out once nobody renews it.
Fairness ==
  /\ \A s \in Slots :
       /\ WF_vars(PollClaim(s))
       /\ WF_vars(RunnerStep(s))
       /\ WF_vars(HandlerStep(s))
       /\ WF_vars(Restart(s))
  /\ \A j \in Jobs :
       /\ WF_vars(Orphaned(j) /\ LeaseExpires(j))
       /\ WF_vars(RetryDue(j))

Spec == Init /\ [][Next]_vars
FairSpec == Spec /\ Fairness

-----------------------------------------------------------------------------
(* Properties.                                                             *)

TypeOK ==
  /\ jobs \in [Jobs -> Row]
  /\ slots \in [Slots -> SlotState]
  /\ stop \in [Slots -> BOOLEAN]
  /\ starts \in [Jobs -> Nat]
  /\ faults \in 0 .. MaxFaults

\* A slot could still write its job row: the row is leased under its epoch.
Holds(s) ==
  /\ slots[s].pc \notin {"idle", "exhausted"}
  /\ Row0(s).status = "running"
  /\ Row0(s).epoch = slots[s].epoch

\* The fencing token works: however leases expire, are released and taken
\* again, two run_once tasks never both hold an epoch the row accepts, even
\* when they share one lease owner (claim_next bumps lease_epoch).
SingleHolder ==
  \A s, t \in Slots :
    Holds(s) /\ Holds(t) /\ slots[s].job = slots[t].job => s = t

\* While a handler that holds its job runs between transactions, the stage in
\* its context is the stage of the row, whatever heartbeats raced with its
\* advance_stage: the next _stage_fence never fails for a stale lease alone.
HandlerLeaseCurrent ==
  \A s \in Slots :
    slots[s].pc \in {"working", "activating", "failing"} /\ Holds(s)
      => slots[s].stage = Row0(s).stage

\* The heartbeat never cancels a handler whose domain finalization has
\* committed: a cancelled run_once finds no terminal row of its own epoch,
\* other than one a later poller wrote because the attempts were exhausted.
NoLostFinalization ==
  \A s \in Slots :
    slots[s].pc \in {"cancelled", "lost"} /\ Row0(s).epoch = slots[s].epoch
      => \/ Row0(s).status \notin Terminal
         \/ Row0(s).error = "exhausted"

\* A lease is worth what it says, through expiry, takeover, heartbeats that race
\* with stage advances and finalization, and shutdown: one holder for a job, a
\* holder whose stage is the row's, and no cancelled holder whose work stands
\* (_fence, _stage_fence, _maintain_lease).
LeaseSafety == TypeOK /\ SingleHolder /\ HandlerLeaseCurrent /\ NoLostFinalization

\* A handler is started at most max_attempts times for a job: an attempt is
\* given back only by release_claim, before the handler could start.
StartsWithinBudget ==
  \A j \in Jobs : starts[j] <= MaxAttempts

\* Only an expired lease can leave a job with no attempt to spend: a waiting
\* row always has one left, so the queue never strands it.
WaitingHasBudget ==
  \A j \in Jobs :
    jobs[j].status \in {"queued", "retry_wait"} => jobs[j].attempt < MaxAttempts

\* The attempts of a job are counted right although release_claim gives some
\* back: never a start too many, and never a waiting job without one.
AttemptsWithinBudget == StartsWithinBudget /\ WaitingHasBudget

\* A terminal row never changes again, whichever slot, stale lease, late
\* snapshot or cancellation request reaches it.
TerminalStable ==
  [][\A j \in Jobs : jobs[j].status \in Terminal => jobs'[j] = jobs[j]]_vars

\* A job asked to cancel before it ended never succeeds, whether the runner
\* marks it or a domain transaction finalises it.
CancelNeverSucceeds ==
  \A j \in Jobs : jobs[j].cancel => jobs[j].status # "succeeded"

-----------------------------------------------------------------------------
(* The inductive invariant behind them.                                    *)

Active(s) == slots[s].pc \notin {"idle", "exhausted"}

\* The table's lease constraint; a running job has been charged an attempt.
RowInv ==
  \A j \in Jobs :
    /\ jobs[j].lease # "none" <=> jobs[j].status = "running"
    /\ jobs[j].status = "running" => jobs[j].attempt >= 1
    /\ jobs[j].status = "absent" => jobs[j] = NoRow

SlotInv ==
  \A s \in Slots :
    /\ slots[s].pc # "idle" => slots[s].job \in Jobs
    /\ slots[s].hb # "off" => slots[s].pc \in HandlerPc \cup OutcomePc

\* An epoch is handed out once: no lease is ahead of its row, and no two
\* leases of a job carry one epoch.
EpochInv ==
  /\ \A s \in Slots : Active(s) => slots[s].epoch <= Row0(s).epoch
  /\ \A s, t \in Slots :
       /\ Active(s) /\ Active(t) /\ s # t
       /\ slots[s].job = slots[t].job
       => slots[s].epoch # slots[t].epoch

\* The claims of a job whose handler has not started.
Unstarted(j) ==
  {s \in Slots : slots[s].job = j /\ slots[s].pc \in {"claimed", "admitted"}}

\* Every start and every claim still to be started was charged an attempt.
BudgetInv ==
  \A j \in Jobs : starts[j] + Cardinality(Unstarted(j)) <= jobs[j].attempt

\* Until a slot has written its outcome, a row with its epoch is running, or
\* was failed by a poller that found the attempts exhausted.
OwnInv ==
  \A s \in Slots :
    /\ Active(s) /\ slots[s].pc \notin {"finalCommitted", "failPermanent"}
    /\ Row0(s).epoch = slots[s].epoch
    => \/ Row0(s).status = "running"
       \/ Row0(s).status = "failed" /\ Row0(s).error = "exhausted"

\* The context's stage follows the row's; after advance_stage committed it is
\* the returned lease that does; after finalize_domain committed the lease of
\* that epoch is over.
StageInv ==
  \A s \in Slots :
    Holds(s) =>
      /\ slots[s].pc # "finalCommitted"
      /\ slots[s].pc = "advanced" => slots[s].newStage = Row0(s).stage
      /\ slots[s].pc \in {"claimed", "admitted", "working", "activating", "failing"}
           => slots[s].stage = Row0(s).stage

IInv ==
  RowInv /\ SlotInv /\ EpochInv /\ BudgetInv /\ OwnInv /\ StageInv
    /\ WaitingHasBudget /\ CancelNeverSucceeds

-----------------------------------------------------------------------------
(* Refinement: forget slots, epochs, leases and stages.                    *)

PhaseOf(st) ==
  CASE st = "running"                             -> "leased"
    [] st \in {"absent", "queued", "retry_wait"}  -> "waiting"
    [] OTHER                                      -> st

Lifecycle == INSTANCE JobLifecycle WITH
  phase <- [j \in Jobs |-> PhaseOf(jobs[j].status)],
  spent <- [j \in Jobs |-> jobs[j].attempt]

\* The queue implements the abstract lifecycle: a job is leased out within its
\* budget, only a leased job is put back or settled, it is put back only with
\* budget left, and it settles once, across every race of the slots.
ImplementsLifecycle == Lifecycle!LifecycleSpec

-----------------------------------------------------------------------------
\* Every job ends, through crashes, lost heartbeats, shutdowns and retries.
EveryJobSettles ==
  \A j \in Jobs : jobs[j].status \in Pending ~> jobs[j].status \in Terminal
=============================================================================
