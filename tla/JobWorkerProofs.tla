--------------------------- MODULE JobWorkerProofs ---------------------------
(***************************************************************************)
(* Proofs about the job queue, for every set of jobs and slots, every      *)
(* attempt budget, every number of stages and every number of faults; and, *)
(* at the end, about the worker process around the slots, with which the   *)
(* queue shares no variable.                                               *)
(***************************************************************************)
EXTENDS JobQueue, WorkerProcess, FiniteSetTheorems, TLAPS

(***************************************************************************)
(* Row updates keep the row well typed.                                    *)
(***************************************************************************)
USE DEF Terminal, Pending, Status, Lease, Errors, Stages, NoOwner, NoJob,
        HandlerPc, OutcomePc, FinalizingPc, Pc, HbPc,
        JobsAssumption, HandledAssumption, BoundsAssumption

\* Row q is row r after its lease ended with n attempts charged.
Closed(r, q, n) ==
  /\ q.lease = "none" /\ q.status # "running"
  /\ q.epoch = r.epoch /\ q.attempt = n /\ q.cancel = r.cancel

\* Row q is row r after its holder recorded an outcome.
Settled(r, q) ==
  /\ Closed(r, q, r.attempt)
  /\ q.status \in Terminal \cup {"retry_wait"}
  /\ q.status = "retry_wait" => r.attempt < MaxAttempts
  /\ q.status = "succeeded" => ~r.cancel

\* Row q is row r under a new lease.
Leased(r, q) ==
  /\ q.lease = "live" /\ q.status = "running"
  /\ q.epoch = r.epoch + 1 /\ q.attempt = r.attempt + 1
  /\ q.cancel = r.cancel /\ q.stage = r.stage

\* Every UPDATE the queue issues against a well-typed row leaves one.
LEMMA RowUpdates ==
  ASSUME NEW r \in Row, NEW s \in Slots, NEW b \in BOOLEAN
  PROVE  /\ Succeeded(r) \in Row
         /\ Cancelled(r) \in Row
         /\ Failed(r, b) \in Row
         /\ Exhausted(r) \in Row
         /\ r.attempt >= 1 => Released(r) \in Row
         /\ r.attempt < MaxAttempts => ClaimedBy(r, s) \in Row
<1>1. Owners \cup {NoOwner} # {} /\ OwnerOf[s] \in Owners
  BY DEF Owners
<1>2. Succeeded(r) \in Row /\ Cancelled(r) \in Row /\ Exhausted(r) \in Row
  BY ZenonT(60) DEF Row, Succeeded, Cancelled, Exhausted, Unleased
<1>3. Failed(r, b) \in Row
  BY ZenonT(60) DEF Row, Failed, Cancelled, Unleased
<1>4. ASSUME r.attempt >= 1 PROVE Released(r) \in Row
  <2> DEFINE u == Unleased(r, "queued")
  <2>1. u \in Row /\ u.attempt = r.attempt
    BY DEF Row, Unleased
  <2>2. u.attempt - 1 \in 0 .. MaxAttempts
    BY <1>4, <2>1, BoundsAssumption DEF Row
  <2>3. Released(r) = [u EXCEPT !.attempt = u.attempt - 1, !.retryable = TRUE,
                                !.due = FALSE, !.error = "none"]
    BY DEF Released
  <2> HIDE DEF u
  <2> QED BY <2>1, <2>2, <2>3 DEF Row
<1>5. ASSUME r.attempt < MaxAttempts PROVE ClaimedBy(r, s) \in Row
  <2>1. r.attempt + 1 \in 0 .. MaxAttempts /\ r.epoch + 1 \in Nat
    BY <1>5, BoundsAssumption DEF Row
  <2> QED BY <1>1, <2>1 DEF Row, ClaimedBy
<1> QED
  BY <1>2, <1>3, <1>4, <1>5

\* What each row update does to the columns the invariant speaks of.
LEMMA RowShapes ==
  ASSUME NEW r \in Row, NEW s \in Slots, NEW b \in BOOLEAN
  PROVE  /\ Settled(r, Succeeded(r)) /\ Settled(r, Cancelled(r))
         /\ Settled(r, Failed(r, b))
         /\ Closed(r, Exhausted(r), r.attempt)
         /\ Exhausted(r).status = "failed" /\ Exhausted(r).error = "exhausted"
         /\ Closed(r, Released(r), r.attempt - 1) /\ Released(r).status = "queued"
         /\ Leased(r, ClaimedBy(r, s))
<1>1. Settled(r, Succeeded(r))
  BY DEF Row, Settled, Closed, Succeeded, Unleased
<1>2. Settled(r, Cancelled(r))
  BY DEF Row, Settled, Closed, Cancelled, Unleased
<1>3. Settled(r, Failed(r, b))
  BY DEF Row, Settled, Closed, Failed, Cancelled, Unleased
<1>4. /\ Closed(r, Exhausted(r), r.attempt)
      /\ Exhausted(r).status = "failed" /\ Exhausted(r).error = "exhausted"
  BY DEF Row, Closed, Exhausted, Unleased
<1>5. Closed(r, Released(r), r.attempt - 1) /\ Released(r).status = "queued"
  BY DEF Row, Closed, Released, Unleased
<1>6. Leased(r, ClaimedBy(r, s))
  BY DEF Row, Leased, ClaimedBy
<1> QED
  BY <1>1, <1>2, <1>3, <1>4, <1>5, <1>6

\* The idle slot is well typed and has no heartbeat.
LEMMA IdleType == Idle \in SlotState /\ Idle.pc = "idle" /\ Idle.hb = "off"
  BY BoundsAssumption DEF Idle, SlotState, Snapshot, NoSnapshot, SnapshotOf, NewRow


(***************************************************************************)
(* The shape of a step.  Each action replaces one slot by st and one row   *)
(* by r in one of eight ways; the invariants are proved from the ways.      *)
(***************************************************************************)
Pre == {"claimed", "admitted"}
Current == {"claimed", "admitted", "working", "activating", "failing"}
Ended == {"finalCommitted", "failPermanent"}

\* st keeps the lease of slot s.
KeepsLease(s, st) ==
  /\ Active(s) /\ st.pc \notin {"idle", "exhausted"}
  /\ st.job = slots[s].job /\ st.epoch = slots[s].epoch
  /\ st.hb # "off" => st.pc \in HandlerPc \cup OutcomePc
  /\ slots[s].pc \in Ended => st.pc \in Ended

\* st's stages agree with row r wherever StageInv speaks of them.
StagesAgree(st, r) ==
  /\ st.pc # "finalCommitted"
  /\ st.pc = "advanced" => st.newStage = r.stage
  /\ st.pc \in Current => st.stage = r.stage

\* A claim.
ByClaim(s, st, j, r) ==
  /\ slots[s].pc = "idle" /\ Eligible(jobs[j]) /\ jobs[j].attempt < MaxAttempts
  /\ st.pc = "claimed" /\ st.hb = "off" /\ st.job = j
  /\ st.epoch = r.epoch /\ st.stage = r.stage
  /\ Leased(jobs[j], r)
  /\ starts' = starts

\* A read of an exhausted candidate, or a return without a write.
ByReturn(s, st, j, r) ==
  /\ r = jobs[j]
  /\ st.hb = "off"
  /\ st.pc = "idle" \/ (st.pc = "exhausted" /\ st.job \in Jobs)
  /\ starts' = starts

\* A step of the slot's memory alone.
ByMemory(s, st, j, r) ==
  /\ j = slots[s].job /\ r = jobs[j]
  /\ KeepsLease(s, st)
  /\ Holds(s) => StagesAgree(st, r)
  /\ st.pc \in Pre => slots[s].pc \in Pre
  /\ \/ starts' = starts
     \/ slots[s].pc \in Pre /\ st.pc \notin Pre
          /\ starts' = [starts EXCEPT ![j] = @ + 1]

\* A fenced write that keeps the lease.
ByProgress(s, st, j, r) ==
  /\ j = slots[s].job /\ Fence(s)
  /\ r.status = "running" /\ r.lease = "live" /\ r.epoch = jobs[j].epoch
  /\ r.attempt = jobs[j].attempt /\ r.cancel = jobs[j].cancel
  /\ KeepsLease(s, st) /\ StagesAgree(st, r)
  /\ st.pc \notin Pre
  /\ starts' = starts

\* A fenced write of an outcome.
ByOutcome(s, st, j, r) ==
  /\ j = slots[s].job /\ Fence(s) /\ Active(s)
  /\ Settled(jobs[j], r)
  /\ \/ st.pc = "idle" /\ st.hb = "off"
     \/ KeepsLease(s, st) /\ st.pc = "finalCommitted"
  /\ starts' = starts

\* A fenced release of a claim.
ByRelease(s, st, j, r) ==
  /\ j = slots[s].job /\ Fence(s) /\ slots[s].pc \in Pre
  /\ Closed(jobs[j], r, jobs[j].attempt - 1) /\ r.status = "queued"
  /\ st.pc = "idle" /\ st.hb = "off"
  /\ starts' = starts

\* The failure of an exhausted job.
ByExhaustion(s, st, j, r) ==
  /\ slots[s].pc = "exhausted" /\ j = slots[s].job
  /\ Eligible(jobs[j]) /\ jobs[j].attempt = MaxAttempts
  /\ Closed(jobs[j], r, jobs[j].attempt)
  /\ r.status = "failed" /\ r.error = "exhausted"
  /\ st.pc = "idle" /\ st.hb = "off"
  /\ starts' = starts

\* A row is inserted, or the clock or a cancellation request touches one.
ByEnvironment(s, st, j, r) ==
  /\ st = slots[s]
  /\ \/ jobs[j].status # "absent" /\ r.status = jobs[j].status
     \/ jobs[j] = NoRow /\ r = NewRow
  /\ r.epoch = jobs[j].epoch
  /\ r.attempt = jobs[j].attempt /\ r.stage = jobs[j].stage
  /\ r.error = jobs[j].error
  /\ r.lease = "none" <=> jobs[j].lease = "none"
  /\ r.cancel => jobs[j].cancel \/ jobs[j].status \notin Terminal
  /\ jobs[j].status \in Terminal => r = jobs[j]
  /\ starts' = starts

Shape(s, st, j, r) ==
  /\ st \in SlotState /\ r \in Row
  /\ slots' = [slots EXCEPT ![s] = st]
  /\ jobs' = [jobs EXCEPT ![j] = r]
  /\ stop' \in [Slots -> BOOLEAN] /\ faults' \in 0 .. MaxFaults
  /\ \/ ByClaim(s, st, j, r) \/ ByReturn(s, st, j, r) \/ ByMemory(s, st, j, r)
     \/ ByProgress(s, st, j, r) \/ ByOutcome(s, st, j, r)
     \/ ByRelease(s, st, j, r) \/ ByExhaustion(s, st, j, r)
     \/ ByEnvironment(s, st, j, r)

\* What the shape lemmas use of the state before the step.
Before == TypeOK /\ RowInv /\ SlotInv /\ StageInv

Shaped(s) == \E st \in SlotState, j \in Jobs, r \in Row : Shape(s, st, j, r)

\* A slot that is not idle and its row are well typed.
LEMMA Held ==
  ASSUME Before, NEW s \in Slots
  PROVE  /\ slots[s] \in SlotState
         /\ slots[s].pc # "idle" => slots[s].job \in Jobs /\ Row0(s) \in Row
         /\ jobs \in [Jobs -> Row] /\ slots \in [Slots -> SlotState]
         /\ stop \in [Slots -> BOOLEAN] /\ faults \in 0 .. MaxFaults
  BY DEF Before, TypeOK, SlotInv, Row0

\* claim_next has a shape: a new lease, or a look at an exhausted candidate.
LEMMA ClaimShape ==
  ASSUME Before, NEW s \in Slots, NEW j \in Jobs, Claim(s, j)
  PROVE  Shaped(s)
<1>a. /\ slots[s].pc = "idle" /\ Eligible(jobs[j]) /\ jobs[j] \in Row
      /\ starts' = starts /\ stop' = stop /\ faults' = faults
  BY Held DEF Claim, Others
<1>1. CASE Spent(jobs[j])
  <2> DEFINE st == [Idle EXCEPT !.pc = "exhausted", !.job = j,
                                !.snap = SnapshotOf(jobs[j])]
  <2>1. jobs[j] \in Row
    BY <1>a
  <2>2. st \in SlotState /\ st.pc = "exhausted" /\ st.job = j /\ st.hb = "off"
    BY <2>1, IdleType DEF SlotState, Snapshot, SnapshotOf, Row, Idle
  <2>3. slots' = [slots EXCEPT ![s] = st] /\ jobs' = [jobs EXCEPT ![j] = jobs[j]]
    BY <1>1, Held DEF Claim, SetSlot
  <2> HIDE DEF st
  <2>4. Shape(s, st, j, jobs[j])
    BY <1>a, <2>1, <2>2, <2>3, Held DEF Shape, ByReturn
  <2> QED BY <2>1, <2>2, <2>4 DEF Shaped
<1>2. CASE ~Spent(jobs[j])
  <2> DEFINE r == ClaimedBy(jobs[j], s)
             st == LeaseFrom(j, r)
  <2>1. jobs[j] \in Row /\ jobs[j].attempt < MaxAttempts
    BY <1>2, <1>a, BoundsAssumption DEF Row, Spent
  <2>2. r \in Row /\ Leased(jobs[j], r)
    BY <2>1, RowUpdates, RowShapes
  <2>3. /\ st \in SlotState /\ st.pc = "claimed" /\ st.job = j /\ st.hb = "off"
        /\ st.epoch = r.epoch /\ st.stage = r.stage
    <3>1. r.epoch \in Nat /\ r.stage \in Stages
      BY <2>2 DEF Row
    <3> HIDE DEF r
    <3> QED BY <3>1, IdleType DEF LeaseFrom, SlotState, Idle
  <2>4. slots' = [slots EXCEPT ![s] = st] /\ jobs' = [jobs EXCEPT ![j] = r]
    BY <1>2 DEF Claim, SetSlot
  <2> HIDE DEF st, r
  <2>6. ByClaim(s, st, j, r)
    BY <1>a, <2>1, <2>2, <2>3 DEF ByClaim
  <2>7. Shape(s, st, j, r)
    BY <1>a, <2>2, <2>3, <2>4, <2>6, Held DEF Shape
  <2> QED BY <2>2, <2>3, <2>7 DEF Shaped
<1> QED BY <1>1, <1>2

\* run_once returning without a write has a shape.
LEMMA ReturnShape ==
  ASSUME Before, NEW s \in Slots, slots[s].pc # "idle", Return(s),
         jobs' = jobs, starts' = starts,
         stop' \in [Slots -> BOOLEAN], faults' \in 0 .. MaxFaults
  PROVE  Shaped(s)
<1> DEFINE j == slots[s].job
<1>1. j \in Jobs /\ jobs[j] \in Row /\ jobs' = [jobs EXCEPT ![j] = jobs[j]]
  BY Held
<1>2. slots' = [slots EXCEPT ![s] = Idle]
  BY DEF Return, SetSlot
<1>3. Shape(s, Idle, j, jobs[j])
  BY <1>1, <1>2, IdleType DEF Shape, ByReturn
<1> QED BY <1>1, <1>3, IdleType DEF Shaped

\* finalize_exhausted has a shape: its snapshot fits the row, or nothing changes.
LEMMA ExhaustionShape ==
  ASSUME Before, NEW s \in Slots, FinalizeExhausted(s)
  PROVE  Shaped(s)
<1>1. slots[s].pc = "exhausted" /\ Return(s) /\ starts' = starts /\ stop' = stop
        /\ faults' = faults
  BY DEF FinalizeExhausted, Others
<1>2. CASE ~stop[s] /\ ExhaustedFence(s)
  <2> DEFINE j == slots[s].job
             r == Exhausted(jobs[j])
  <2>1. j \in Jobs /\ jobs[j] \in Row
    BY <1>1, Held
  <2>2. /\ r \in Row /\ Closed(jobs[j], r, jobs[j].attempt)
        /\ r.status = "failed" /\ r.error = "exhausted"
    BY <2>1, RowUpdates, RowShapes
  <2>3. slots' = [slots EXCEPT ![s] = Idle] /\ jobs' = [jobs EXCEPT ![j] = r]
    BY <1>1, <1>2 DEF FinalizeExhausted, Return, SetSlot, SetRow, Row0
  <2>4. Eligible(jobs[j]) /\ jobs[j].attempt = MaxAttempts
    BY <1>2 DEF ExhaustedFence, Row0
  <2> HIDE DEF r
  <2>5. ByExhaustion(s, Idle, j, r)
    BY <1>1, <2>2, <2>4, IdleType DEF ByExhaustion
  <2>6. Shape(s, Idle, j, r)
    BY <1>1, <2>2, <2>3, <2>5, Held, IdleType DEF Shape
  <2> QED BY <2>1, <2>2, <2>6, IdleType DEF Shaped
<1>3. CASE ~(~stop[s] /\ ExhaustedFence(s))
  <2>1. jobs' = jobs
    BY <1>3 DEF FinalizeExhausted
  <2> QED BY <1>1, <2>1, ReturnShape, Held
<1> QED BY <1>2, <1>3

\* A step of a slot's memory has a shape.
LEMMA MemoryShape ==
  ASSUME Before, NEW s \in Slots, NEW st \in SlotState, KeepsLease(s, st),
         slots' = [slots EXCEPT ![s] = st], jobs' = jobs,
         Holds(s) => StagesAgree(st, Row0(s)),
         st.pc \in Pre => slots[s].pc \in Pre,
         \/ starts' = starts
         \/ /\ slots[s].pc \in Pre /\ st.pc \notin Pre
            /\ starts' = [starts EXCEPT ![slots[s].job] = @ + 1],
         stop' = stop, faults' = faults
  PROVE  Shaped(s)
<1> DEFINE j == slots[s].job
<1>1. j \in Jobs /\ jobs[j] \in Row /\ jobs' = [jobs EXCEPT ![j] = jobs[j]]
  BY Held DEF KeepsLease, Active
<1>2. ByMemory(s, st, j, jobs[j])
  BY <1>1 DEF ByMemory, Row0
<1>3. Shape(s, st, j, jobs[j])
  BY <1>1, <1>2, Held DEF Shape
<1> QED BY <1>1, <1>3 DEF Shaped

\* A fenced write of an outcome has a shape.
LEMMA OutcomeShape ==
  ASSUME Before, NEW s \in Slots, NEW st \in SlotState, NEW r \in Row,
         Active(s), Fence(s), Settled(Row0(s), r), SetRow(s, r),
         slots' = [slots EXCEPT ![s] = st],
         \/ st.pc = "idle" /\ st.hb = "off"
         \/ KeepsLease(s, st) /\ st.pc = "finalCommitted",
         starts' = starts, stop' = stop, faults' = faults
  PROVE  Shaped(s)
<1> DEFINE j == slots[s].job
<1>1. j \in Jobs /\ jobs' = [jobs EXCEPT ![j] = r]
  BY Held DEF SetRow, Active
<1>2. ByOutcome(s, st, j, r)
  BY <1>1 DEF ByOutcome, Row0
<1>3. Shape(s, st, j, r)
  BY <1>1, <1>2, Held DEF Shape
<1> QED BY <1>1, <1>3 DEF Shaped

\* release_claim has a shape: the attempt it gives back was not started.
LEMMA ReleaseShape ==
  ASSUME Before, NEW s \in Slots, ReleaseClaim(s)
  PROVE  Shaped(s)
<1>1. /\ slots[s].pc \in Pre /\ Return(s)
      /\ starts' = starts /\ stop' = stop /\ faults' = faults
  BY DEF ReleaseClaim, Others, Pre
<1>2. CASE Fence(s)
  <2> DEFINE j == slots[s].job
             r == Released(jobs[j])
  <2>1. j \in Jobs /\ jobs[j] \in Row /\ jobs[j].status = "running"
    BY <1>1, <1>2, Held DEF Fence, Row0, Pre
  <2>2. jobs[j].attempt >= 1
    BY <2>1 DEF Before, RowInv
  <2>3. /\ r \in Row /\ r.status = "queued"
        /\ Closed(jobs[j], r, jobs[j].attempt - 1)
    BY <2>1, <2>2, RowUpdates, RowShapes
  <2>4. slots' = [slots EXCEPT ![s] = Idle] /\ jobs' = [jobs EXCEPT ![j] = r]
    BY <1>1, <1>2 DEF ReleaseClaim, Return, SetSlot, SetRow, Row0
  <2> HIDE DEF r
  <2>5. ByRelease(s, Idle, j, r)
    BY <1>1, <1>2, <2>3, IdleType DEF ByRelease
  <2>6. Shape(s, Idle, j, r)
    BY <1>1, <2>3, <2>4, <2>5, Held, IdleType DEF Shape
  <2> QED BY <2>1, <2>3, <2>6, IdleType DEF Shaped
<1>3. CASE ~Fence(s)
  <2>1. jobs' = jobs
    BY <1>3 DEF ReleaseClaim
  <2> QED BY <1>1, <2>1, ReturnShape, Held DEF Pre
<1> QED BY <1>2, <1>3

\* A move of the control point alone has a shape.
LEMMA GotoShape ==
  ASSUME Before, NEW s \in Slots, NEW p \in Pc, Goto(s, p), jobs' = jobs, Others,
         Active(s), p \notin {"idle", "exhausted", "advanced", "finalCommitted"},
         slots[s].hb # "off" => p \in HandlerPc \cup OutcomePc,
         slots[s].pc \in Ended => p \in Ended,
         p \in Current => slots[s].pc \in Current,
         p \in Pre => slots[s].pc \in Pre
  PROVE  Shaped(s)
<1> DEFINE st == [slots[s] EXCEPT !.pc = p]
<1>1. /\ st \in SlotState /\ st.pc = p /\ st.job = slots[s].job
      /\ st.epoch = slots[s].epoch /\ st.hb = slots[s].hb /\ st.stage = slots[s].stage
  BY Held DEF SlotState
<1>2. slots' = [slots EXCEPT ![s] = st]
  BY DEF Goto, SetSlot
<1> HIDE DEF st
<1>3. KeepsLease(s, st)
  BY <1>1 DEF KeepsLease
<1>4. Holds(s) => StagesAgree(st, Row0(s))
  BY <1>1 DEF StagesAgree, Before, StageInv, Current
<1> QED
  BY <1>1, <1>2, <1>3, <1>4, MemoryShape DEF Others

\* From the claim to the handler: the check, the start and the missing handler.
LEMMA StartShape ==
  ASSUME Before, NEW s \in Slots,
         CheckAtStart(s) \/ StartHandler(s) \/ NoHandler(s)
  PROVE  Shaped(s)
<1>0. slots[s].hb = "off" \/ slots[s].pc \in HandlerPc \cup OutcomePc
  BY DEF Before, SlotInv
<1>1. CASE CheckAtStart(s)
  <2>1. CASE Fence(s)
    <3> DEFINE p == IF Row0(s).cancel THEN "cancelling" ELSE "admitted"
    <3>1. Goto(s, p) /\ jobs' = jobs /\ Others /\ slots[s].pc = "claimed"
      BY <1>1, <2>1 DEF CheckAtStart
    <3>2. p \in {"cancelling", "admitted"}
      OBVIOUS
    <3> HIDE DEF p
    <3> QED BY <1>0, <3>1, <3>2, GotoShape DEF Active, Ended, Current, Pre
  <2>2. CASE ~Fence(s)
    BY <1>1, <2>2, ReturnShape, Held DEF CheckAtStart, Others
  <2> QED BY <2>1, <2>2
<1>2. CASE StartHandler(s)
  <2> DEFINE st == [slots[s] EXCEPT !.pc = "working", !.hb = "sleep"]
  <2>1. /\ st \in SlotState /\ st.pc = "working" /\ st.job = slots[s].job
        /\ st.epoch = slots[s].epoch /\ st.stage = slots[s].stage
    BY Held DEF SlotState
  <2>2. /\ slots' = [slots EXCEPT ![s] = st] /\ jobs' = jobs
        /\ slots[s].pc = "admitted" /\ stop' = stop /\ faults' = faults
        /\ starts' = [starts EXCEPT ![slots[s].job] = @ + 1]
    BY <1>2 DEF StartHandler, SetSlot
  <2> HIDE DEF st
  <2>3. KeepsLease(s, st)
    BY <2>1, <2>2 DEF KeepsLease, Active, Ended
  <2>4. Holds(s) => StagesAgree(st, Row0(s))
    BY <2>1, <2>2 DEF StagesAgree, Before, StageInv, Current
  <2> QED
    BY <2>1, <2>2, <2>3, <2>4, MemoryShape DEF Pre
<1>3. CASE NoHandler(s)
  BY <1>0, <1>3, GotoShape DEF NoHandler, Active, Ended, Current, Pre
<1> QED BY <1>1, <1>2, <1>3

\* advance_stage has a shape: the row moves on and the slot remembers where to.
LEMMA AdvanceShape ==
  ASSUME Before, NEW s \in Slots, AdvanceStage(s)
  PROVE  Shaped(s)
<1>1. /\ slots[s].pc = "working" /\ slots[s].stage < LastStage
      /\ starts' = starts /\ stop' = stop /\ faults' = faults
  BY DEF AdvanceStage, Others
<1>2. CASE StageFence(s)
  <2> DEFINE j == slots[s].job
             n == slots[s].stage + 1
             st == [slots[s] EXCEPT !.pc = "advanced", !.newStage = n]
             r == [jobs[j] EXCEPT !.stage = n]
  <2>1. j \in Jobs /\ jobs[j] \in Row /\ n \in Stages
    <3>1. slots[s].stage \in Stages
      BY Held DEF SlotState
    <3> QED BY <1>1, <3>1, Held, BoundsAssumption
  <2>2. /\ slots' = [slots EXCEPT ![s] = st] /\ jobs' = [jobs EXCEPT ![j] = r]
    BY <1>2 DEF AdvanceStage, SetRow, SetSlot, Row0
  <2>3. /\ jobs[j].status = "running" /\ jobs[j].lease = "live" /\ Fence(s)
    BY <1>2 DEF StageFence, Fence, Row0
  <2> HIDE DEF n
  <2>4. /\ r \in Row /\ r.status = "running" /\ r.lease = "live"
        /\ r.epoch = jobs[j].epoch /\ r.attempt = jobs[j].attempt
        /\ r.cancel = jobs[j].cancel /\ r.stage = n
    BY <2>1, <2>3 DEF Row
  <2>5. /\ st \in SlotState /\ st.pc = "advanced" /\ st.job = slots[s].job
        /\ st.epoch = slots[s].epoch /\ st.hb = slots[s].hb /\ st.newStage = n
    BY <2>1, Held DEF SlotState
  <2> HIDE DEF st, r
  <2>6. KeepsLease(s, st) /\ StagesAgree(st, r)
    BY <1>1, <2>4, <2>5 DEF KeepsLease, StagesAgree, Active, Ended, Current
  <2>7. ByProgress(s, st, j, r)
    BY <1>1, <2>3, <2>4, <2>5, <2>6 DEF ByProgress, Pre
  <2>8. Shape(s, st, j, r)
    BY <1>1, <2>2, <2>4, <2>5, <2>7, Held DEF Shape
  <2> QED BY <2>1, <2>4, <2>5, <2>8 DEF Shaped
<1>3. CASE ~StageFence(s)
  <2>1. Return(s) /\ jobs' = jobs
    BY <1>3 DEF AdvanceStage
  <2> QED BY <1>1, <2>1, ReturnShape, Held
<1> QED BY <1>2, <1>3

\* The return of advance_stage has a shape: the context catches up.
LEMMA AdvanceReturnsShape ==
  ASSUME Before, NEW s \in Slots, AdvanceReturns(s)
  PROVE  Shaped(s)
<1> DEFINE st == [slots[s] EXCEPT !.pc = "working", !.stage = slots[s].newStage,
                                  !.newStage = 0]
<1>1. /\ st \in SlotState /\ st.pc = "working" /\ st.job = slots[s].job
      /\ st.epoch = slots[s].epoch /\ st.stage = slots[s].newStage
  <2>1. 0 \in Stages
    BY BoundsAssumption
  <2> QED BY <2>1, Held DEF SlotState
<1>2. /\ slots' = [slots EXCEPT ![s] = st] /\ jobs' = jobs
      /\ slots[s].pc = "advanced" /\ Others
  BY DEF AdvanceReturns, SetSlot
<1> HIDE DEF st
<1>3. KeepsLease(s, st)
  BY <1>1, <1>2 DEF KeepsLease, Active, Ended
<1>4. Holds(s) => StagesAgree(st, Row0(s))
  BY <1>1, <1>2 DEF StagesAgree, Before, StageInv
<1> QED
  BY <1>1, <1>2, <1>3, <1>4, MemoryShape DEF Others, Pre

\* The commit of finalize_domain has a shape: the lease ends with the row.
LEMMA FinalizeShape ==
  ASSUME Before, NEW s \in Slots, FinalizeCommits(s)
  PROVE  Shaped(s)
<1>1. /\ slots[s].pc \in {"activating", "failing"}
      /\ starts' = starts /\ stop' = stop /\ faults' = faults
  BY DEF FinalizeCommits, Others
<1>2. CASE StageFence(s) /\ ~Row0(s).cancel
  <2> DEFINE st == [slots[s] EXCEPT !.pc = "finalCommitted"]
  <2>1. /\ st \in SlotState /\ st.pc = "finalCommitted" /\ st.job = slots[s].job
        /\ st.epoch = slots[s].epoch /\ st.hb = slots[s].hb
    BY Held DEF SlotState
  <2>2. slots' = [slots EXCEPT ![s] = st] /\ Fence(s)
    BY <1>2 DEF FinalizeCommits, Goto, SetSlot, StageFence
  <2>3. PICK r \in {Succeeded(Row0(s)), Failed(Row0(s), TRUE), Failed(Row0(s), FALSE)} :
          SetRow(s, r)
    BY <1>2 DEF FinalizeCommits
  <2>4. Row0(s) \in Row
    BY <1>1, Held
  <2>5. r \in Row /\ Settled(Row0(s), r)
    BY <2>3, <2>4, RowUpdates, RowShapes
  <2> HIDE DEF st
  <2>6. KeepsLease(s, st)
    BY <1>1, <2>1 DEF KeepsLease, Active, Ended
  <2> QED BY <1>1, <2>1, <2>2, <2>3, <2>5, <2>6, OutcomeShape DEF Active
<1>3. CASE ~(StageFence(s) /\ ~Row0(s).cancel)
  <2>1. Return(s) /\ jobs' = jobs
    BY <1>3 DEF FinalizeCommits
  <2> QED BY <1>1, <2>1, ReturnShape, Held
<1> QED BY <1>2, <1>3

\* The handler's moves between transactions have a shape.
LEMMA HandlerGotoShape ==
  ASSUME Before, NEW s \in Slots,
         \/ \E g \in {"activating", "failing"} : FinalizeBegins(s, g)
         \/ ActivationConflicts(s)
         \/ \E o \in OutcomePc : HandlerEnds(s, o)
  PROVE  Shaped(s)
<1>1. ASSUME NEW g \in {"activating", "failing"}, FinalizeBegins(s, g)
      PROVE  Shaped(s)
  BY <1>1, GotoShape DEF FinalizeBegins, Active, Ended, Current, Pre
<1>2. CASE ActivationConflicts(s)
  BY <1>2, GotoShape DEF ActivationConflicts, Active, Ended, Current, Pre
<1>3. ASSUME NEW o \in OutcomePc, HandlerEnds(s, o)
      PROVE  Shaped(s)
  BY <1>3, GotoShape DEF HandlerEnds, Active, Ended, Current, Pre
<1> QED BY <1>1, <1>2, <1>3

\* mark_succeeded and record_failure have a shape.
LEMMA RecordShape ==
  ASSUME Before, NEW s \in Slots, RecordOutcome(s) \/ MarkCancelled(s)
  PROVE  Shaped(s)
<1>1. /\ slots[s].pc \in OutcomePc \cup {"cancelling", "cancelled"} /\ Return(s)
      /\ starts' = starts /\ stop' = stop /\ faults' = faults
  BY DEF RecordOutcome, MarkCancelled, Others
<1>2. CASE Fence(s)
  <2>1. PICK r \in {Succeeded(Row0(s)), Failed(Row0(s), TRUE),
                    Failed(Row0(s), FALSE), Cancelled(Row0(s))} : SetRow(s, r)
    BY <1>2 DEF RecordOutcome, MarkCancelled
  <2>2. Row0(s) \in Row
    BY <1>1, Held
  <2>3. r \in Row /\ Settled(Row0(s), r)
    BY <2>1, <2>2, RowUpdates, RowShapes
  <2>4. slots' = [slots EXCEPT ![s] = Idle]
    BY <1>1 DEF Return, SetSlot
  <2> QED BY <1>1, <1>2, <2>1, <2>3, <2>4, IdleType, OutcomeShape DEF Active
<1>3. CASE ~Fence(s)
  <2>1. jobs' = jobs
    BY <1>3 DEF RecordOutcome, MarkCancelled
  <2> QED BY <1>1, <2>1, ReturnShape, Held
<1> QED BY <1>2, <1>3

\* mark_cancelled and a lost lease have a shape.
LEMMA QuietReturnShape ==
  ASSUME Before, NEW s \in Slots, AbandonLost(s) \/ FinalizeReturns(s) \/ Crash(s)
  PROVE  Shaped(s)
<1>1. CASE AbandonLost(s) \/ FinalizeReturns(s)
  BY <1>1, ReturnShape, Held DEF AbandonLost, FinalizeReturns, Others
<1>2. CASE Crash(s)
  <2>1. faults' \in 0 .. MaxFaults
    BY <1>2, Held, BoundsAssumption DEF Crash
  <2> QED BY <1>2, <2>1, ReturnShape, Held DEF Crash
<1> QED BY <1>1, <1>2

\* The heartbeat's departure has a shape.
LEMMA HeartbeatSendShape ==
  ASSUME Before, NEW s \in Slots, HeartbeatSends(s)
  PROVE  Shaped(s)
<1> DEFINE st == [slots[s] EXCEPT !.hb = "sent", !.hbStage = slots[s].stage]
<1>1. /\ st \in SlotState /\ st.pc = slots[s].pc /\ st.job = slots[s].job
      /\ st.epoch = slots[s].epoch /\ st.stage = slots[s].stage
      /\ st.newStage = slots[s].newStage
  BY Held DEF SlotState
<1>2. /\ slots' = [slots EXCEPT ![s] = st] /\ jobs' = jobs
      /\ slots[s].pc \in HandlerPc /\ Others
  BY DEF HeartbeatSends, HandlerDone, SetSlot
<1> HIDE DEF st
<1>3. KeepsLease(s, st)
  BY <1>1, <1>2 DEF KeepsLease, Active
<1>4. Holds(s) => StagesAgree(st, Row0(s))
  BY <1>1 DEF StagesAgree, Before, StageInv, Current
<1> QED
  BY <1>1, <1>2, <1>3, <1>4, MemoryShape DEF Others

\* The heartbeat's UPDATE has a shape: it renews the lease and nothing else.
LEMMA HeartbeatCommitShape ==
  ASSUME Before, NEW s \in Slots, HeartbeatCommits(s)
  PROVE  Shaped(s)
<1> DEFINE j == slots[s].job
           st == [slots[s] EXCEPT !.hb = "beaten", !.hbStage = 0,
                                  !.stage = jobs[j].stage]
           r == [jobs[j] EXCEPT !.lease = "live"]
<1>1. /\ slots[s].pc \in HandlerPc \cup OutcomePc /\ Fence(s)
      /\ starts' = starts /\ stop' = stop /\ faults' = faults
  BY DEF Before, SlotInv, HeartbeatCommits, Others
<1>2. j \in Jobs /\ jobs[j] \in Row
  BY <1>1, Held
<1>3. slots' = [slots EXCEPT ![s] = st] /\ jobs' = [jobs EXCEPT ![j] = r]
  BY DEF HeartbeatCommits, SetRow, SetSlot, Row0
<1>4. /\ r \in Row /\ r.status = "running" /\ r.lease = "live"
      /\ r.epoch = jobs[j].epoch /\ r.attempt = jobs[j].attempt
      /\ r.cancel = jobs[j].cancel /\ r.stage = jobs[j].stage
  BY <1>1, <1>2 DEF Row, Fence, Row0
<1>5. 0 \in Stages /\ jobs[j].stage \in Stages
  BY <1>2, BoundsAssumption DEF Row
<1>6. /\ st \in SlotState /\ st.pc = slots[s].pc /\ st.job = slots[s].job
      /\ st.epoch = slots[s].epoch /\ st.stage = jobs[j].stage
      /\ st.newStage = slots[s].newStage
  BY <1>5, Held DEF SlotState
<1>7. /\ slots[s].pc = "advanced" => slots[s].newStage = jobs[j].stage
      /\ slots[s].pc # "finalCommitted"
  BY <1>1 DEF Before, StageInv, Holds, Fence, Row0
<1> HIDE DEF st, r
<1>8. KeepsLease(s, st) /\ StagesAgree(st, r)
  BY <1>1, <1>4, <1>6, <1>7 DEF KeepsLease, Active, StagesAgree
<1>9. ByProgress(s, st, j, r)
  BY <1>1, <1>4, <1>6, <1>8 DEF ByProgress, Pre
<1>10. Shape(s, st, j, r)
  BY <1>1, <1>3, <1>4, <1>6, <1>9, Held DEF Shape
<1> QED BY <1>2, <1>4, <1>6, <1>10 DEF Shaped

\* A change of the heartbeat task that may cancel the handler has a shape.
LEMMA HeartbeatMemoryShape ==
  ASSUME Before, NEW s \in Slots, NEW h \in {"off", "sleep"}, NEW n \in Stages,
         NEW p \in {slots[s].pc, "cancelled", "lost"},
         slots' = [slots EXCEPT ![s] = [slots[s] EXCEPT !.hb = h, !.hbStage = n, !.pc = p]],
         jobs' = jobs, Others,
         slots[s].hb # "off",
         p # slots[s].pc => h = "off" /\ slots[s].pc \notin Ended
  PROVE  Shaped(s)
<1> DEFINE st == [slots[s] EXCEPT !.hb = h, !.hbStage = n, !.pc = p]
<1>1. p \in Pc /\ slots[s].pc \in HandlerPc \cup OutcomePc
  BY Held DEF SlotState, Before, SlotInv
<1>2. /\ st \in SlotState /\ st.pc = p /\ st.job = slots[s].job /\ st.hb = h
      /\ st.epoch = slots[s].epoch /\ st.stage = slots[s].stage
      /\ st.newStage = slots[s].newStage
  BY <1>1, Held DEF SlotState
<1>3. slots' = [slots EXCEPT ![s] = st]
  OBVIOUS
<1> HIDE DEF st
<1>4. KeepsLease(s, st)
  BY <1>1, <1>2 DEF KeepsLease, Active, Ended
<1>5. Holds(s) => StagesAgree(st, Row0(s))
  BY <1>2 DEF StagesAgree, Before, StageInv, Current
<1> QED
  BY <1>1, <1>2, <1>3, <1>4, <1>5, MemoryShape DEF Others, Pre

\* The heartbeat's look at the cancellation has a shape.
LEMMA HeartbeatCheckShape ==
  ASSUME Before, NEW s \in Slots, HeartbeatChecks(s)
  PROVE  Shaped(s)
<1> DEFINE h == IF Row0(s).cancel THEN "off" ELSE "sleep"
           p == IF Row0(s).cancel /\ ~HandlerDone(s) THEN "cancelled" ELSE slots[s].pc
           n == slots[s].hbStage
           st == [slots[s] EXCEPT !.hb = h, !.pc = p]
<1>1. slots[s] \in SlotState /\ n \in Stages
  BY Held DEF SlotState
<1>2. /\ slots' = [slots EXCEPT ![s] = st]
      /\ slots[s].hb = "beaten" /\ Fence(s) /\ jobs' = jobs /\ Others
  BY <1>1 DEF HeartbeatChecks, SetSlot, SlotState
<1>3. slots[s].pc # "finalCommitted" /\ slots[s].pc \in HandlerPc \cup OutcomePc
  BY <1>2 DEF Before, SlotInv, StageInv, Holds, Fence
<1>4. /\ h \in {"off", "sleep"} /\ p \in {slots[s].pc, "cancelled", "lost"}
      /\ p # slots[s].pc => h = "off" /\ slots[s].pc \notin Ended
  BY <1>3 DEF HandlerDone, Ended
<1> HIDE DEF h, p
<1>5. p \in Pc
  BY <1>1, <1>4 DEF SlotState
<1>6. st = [slots[s] EXCEPT !.hb = h, !.hbStage = n, !.pc = p]
  BY <1>1, <1>4, <1>5 DEF SlotState
<1> QED
  BY <1>1, <1>2, <1>4, <1>6, HeartbeatMemoryShape

\* A failed heartbeat stops a handler only outside a finalisation.
LEMMA HeartbeatFailShape ==
  ASSUME Before, NEW s \in Slots, HeartbeatFails(s)
  PROVE  Shaped(s)
<1> DEFINE p == IF slots[s].pc \in FinalizingPc \/ HandlerDone(s)
                THEN slots[s].pc ELSE "lost"
<1>1. /\ slots' = [slots EXCEPT ![s] = [slots[s] EXCEPT !.hb = "off", !.hbStage = 0,
                                                         !.pc = p]]
      /\ slots[s].hb # "off" /\ jobs' = jobs /\ Others
  BY Held DEF HeartbeatFails, SetSlot, SlotState
<1>2. /\ p \in {slots[s].pc, "cancelled", "lost"}
      /\ p # slots[s].pc => slots[s].pc \notin Ended
  BY DEF HandlerDone, Ended
<1>3. 0 \in Stages
  BY BoundsAssumption
<1> HIDE DEF p
<1> QED
  BY <1>1, <1>2, <1>3, HeartbeatMemoryShape

\* Insertion, the clock and cancellation requests.
LEMMA EnvironmentShape ==
  ASSUME Before, NEW j \in Jobs, NEW s \in Slots,
         Enqueue(j) \/ LeaseExpires(j) \/ RetryDue(j) \/ RequestCancel(j)
  PROVE  Shaped(s)
<1>1. jobs[j] \in Row /\ slots[s] \in SlotState
  BY Held
<1>2. /\ slots' = [slots EXCEPT ![s] = slots[s]] /\ starts' = starts
      /\ stop' = stop /\ faults' = faults
  BY Held DEF Enqueue, LeaseExpires, RetryDue, RequestCancel
<1>3. ASSUME NEW r \in Row, jobs' = [jobs EXCEPT ![j] = r],
             \/ jobs[j].status # "absent" /\ r.status = jobs[j].status
             \/ jobs[j] = NoRow /\ r = NewRow,
             r.epoch = jobs[j].epoch,
             r.attempt = jobs[j].attempt, r.stage = jobs[j].stage,
             r.error = jobs[j].error,
             r.lease = "none" <=> jobs[j].lease = "none",
             r.cancel => jobs[j].cancel \/ jobs[j].status \notin Terminal,
             jobs[j].status \notin Terminal
      PROVE  Shaped(s)
  <2>1. ByEnvironment(s, slots[s], j, r)
    BY <1>2, <1>3 DEF ByEnvironment
  <2>2. Shape(s, slots[s], j, r)
    BY <1>1, <1>2, <1>3, <2>1, Held DEF Shape
  <2> QED BY <1>1, <2>2 DEF Shaped
<1>4. CASE LeaseExpires(j)
  <2> DEFINE r == [jobs[j] EXCEPT !.lease = "expired"]
  <2>1. jobs' = [jobs EXCEPT ![j] = r] /\ jobs[j].lease = "live"
    BY <1>4 DEF LeaseExpires
  <2>2. jobs[j].status = "running"
    BY <2>1 DEF Before, RowInv
  <2> QED BY <1>1, <1>3, <2>1, <2>2 DEF Row
<1>5. CASE RetryDue(j)
  <2> DEFINE r == [jobs[j] EXCEPT !.due = TRUE]
  <2>1. jobs' = [jobs EXCEPT ![j] = r] /\ jobs[j].status = "retry_wait"
    BY <1>5 DEF RetryDue
  <2> QED BY <1>1, <1>3, <2>1 DEF Row
<1>6. CASE RequestCancel(j)
  <2> DEFINE r == [jobs[j] EXCEPT !.cancel = TRUE]
  <2>1. jobs' = [jobs EXCEPT ![j] = r] /\ jobs[j].status \in Pending
    BY <1>6 DEF RequestCancel
  <2> QED BY <1>1, <1>3, <2>1 DEF Row
<1>7. CASE Enqueue(j)
  <2>1. jobs' = [jobs EXCEPT ![j] = NewRow] /\ jobs[j] = NoRow
    BY <1>7 DEF Enqueue, Before, RowInv
  <2>2. NewRow \in Row
    BY BoundsAssumption DEF NewRow, Row
  <2>3. /\ NewRow.epoch = NoRow.epoch /\ NewRow.attempt = NoRow.attempt
        /\ NewRow.stage = NoRow.stage /\ NewRow.error = NoRow.error
        /\ NewRow.lease = NoRow.lease /\ ~NewRow.cancel
        /\ NoRow.status \notin Terminal
    BY DEF NewRow, NoRow
  <2> QED BY <1>3, <2>1, <2>2, <2>3
<1> QED BY <1>4, <1>5, <1>6, <1>7

(***************************************************************************)
(* Every step has a shape, or touches neither slots nor rows.              *)
(***************************************************************************)
Quiet ==
  /\ slots' = slots /\ jobs' = jobs /\ starts' = starts
  /\ stop' \in [Slots -> BOOLEAN] /\ faults' \in 0 .. MaxFaults

\* Every step has a shape or belongs to the environment.
LEMMA NextShape ==
  ASSUME Before, [Next]_vars
  PROVE  Quiet \/ \E s \in Slots : Shaped(s)
<1>1. CASE UNCHANGED vars
  BY <1>1 DEF vars, Quiet, Before, TypeOK
<1>2. ASSUME NEW j \in Jobs, JobStep(j)
      PROVE  \E s \in Slots : Shaped(s)
  <2>1. PICK s \in Slots : TRUE
    BY SlotsAssumption DEF SlotsAssumption
  <2>2. Shaped(s)
    BY <1>2, EnvironmentShape DEF JobStep
  <2> QED BY <2>2
<1>3. ASSUME NEW s \in Slots, SlotStep(s)
      PROVE  Quiet \/ Shaped(s)
  <2>1. ASSUME PollClaim(s) \/ \E j \in Jobs : NotifiedClaim(s, j)
        PROVE  Shaped(s)
    <3>1. PICK j \in Jobs : Claim(s, j)
      BY <2>1 DEF PollClaim, EligibleJobs, NotifiedClaim
    <3> QED BY <3>1, ClaimShape
  <2>2. ASSUME RunnerStep(s) PROVE Shaped(s)
    BY <2>2, ExhaustionShape, ReleaseShape, StartShape, RecordShape, QuietReturnShape
       DEF RunnerStep
  <2>3. ASSUME HandlerStep(s) PROVE Shaped(s)
    BY <2>3, AdvanceShape, AdvanceReturnsShape, FinalizeShape, HandlerGotoShape,
       QuietReturnShape DEF HandlerStep
  <2>4. ASSUME HeartbeatStep(s) PROVE Shaped(s)
    BY <2>4, HeartbeatSendShape, HeartbeatCommitShape, HeartbeatCheckShape,
       HeartbeatFailShape DEF HeartbeatStep
  <2>5. ASSUME Stop(s) PROVE Quiet
    BY <2>5, Held, BoundsAssumption DEF Stop, Quiet
  <2>6. ASSUME Restart(s) PROVE Quiet
    BY <2>6, Held DEF Restart, Quiet
  <2>7. ASSUME Crash(s) PROVE Shaped(s)
    BY <2>7, QuietReturnShape
  <2> QED BY <1>3, <2>1, <2>2, <2>3, <2>4, <2>5, <2>6, <2>7 DEF SlotStep
<1> QED BY <1>1, <1>2, <1>3 DEF Next

(***************************************************************************)
(* Each part of the invariant is kept by every shape.                      *)
(***************************************************************************)

\* A shape changes slot s and row j and nothing else.
LEMMA Frame ==
  ASSUME Before, NEW s \in Slots, NEW st \in SlotState, NEW j \in Jobs, NEW r \in Row,
         Shape(s, st, j, r)
  PROVE  /\ slots'[s] = st /\ \A t \in Slots : t # s => slots'[t] = slots[t]
         /\ jobs'[j] = r /\ \A k \in Jobs : k # j => jobs'[k] = jobs[k]
         /\ slots[s] \in SlotState /\ jobs[j] \in Row
         /\ jobs'[j].epoch >= jobs[j].epoch
<1>1. jobs \in [Jobs -> Row] /\ slots \in [Slots -> SlotState]
  BY Held
<1>2. r.epoch >= jobs[j].epoch
  BY <1>1 DEF Shape, ByClaim, ByReturn, ByMemory, ByProgress, ByOutcome, ByRelease,
     ByExhaustion, ByEnvironment, Leased, Settled, Closed, Row
<1> QED BY <1>1, <1>2 DEF Shape

\* A shape keeps the type invariant.
LEMMA TypeKept ==
  ASSUME Before, NEW s \in Slots, NEW st \in SlotState, NEW j \in Jobs, NEW r \in Row,
         Shape(s, st, j, r)
  PROVE  TypeOK'
<1>1. jobs' \in [Jobs -> Row] /\ slots' \in [Slots -> SlotState]
  BY Held DEF Shape
<1>2. starts' \in [Jobs -> Nat]
  <2>1. starts' = starts \/ starts' = [starts EXCEPT ![j] = @ + 1]
    BY DEF Shape, ByClaim, ByReturn, ByMemory, ByProgress, ByOutcome, ByRelease,
       ByExhaustion, ByEnvironment
  <2> QED BY <2>1 DEF Before, TypeOK
<1> QED BY <1>1, <1>2 DEF Shape, TypeOK

\* A shape keeps the invariants of single rows.
LEMMA RowsKept ==
  ASSUME Before, WaitingHasBudget, CancelNeverSucceeds,
         NEW s \in Slots, NEW st \in SlotState, NEW j \in Jobs, NEW r \in Row,
         Shape(s, st, j, r)
  PROVE  /\ RowInv' /\ WaitingHasBudget' /\ CancelNeverSucceeds'
         /\ jobs[j].status \in Terminal => r = jobs[j]
<1>1. /\ jobs[j] \in Row /\ jobs'[j] = r
      /\ \A k \in Jobs : k # j => jobs'[k] = jobs[k]
  BY Frame
<1>2. /\ jobs[j].lease # "none" <=> jobs[j].status = "running"
      /\ jobs[j].status = "running" => jobs[j].attempt >= 1
      /\ jobs[j].status \in {"queued", "retry_wait"} => jobs[j].attempt < MaxAttempts
      /\ jobs[j].cancel => jobs[j].status # "succeeded"
      /\ jobs[j].status = "absent" => jobs[j] = NoRow
  BY DEF Before, RowInv, WaitingHasBudget, CancelNeverSucceeds
<1>3. /\ r.lease # "none" <=> r.status = "running"
      /\ r.status = "running" => r.attempt >= 1
      /\ r.status \in {"queued", "retry_wait"} => r.attempt < MaxAttempts
      /\ r.cancel => r.status # "succeeded"
      /\ r.status = "absent" => r = NoRow
      /\ jobs[j].status \in Terminal => r = jobs[j]
  <2>1. CASE ByClaim(s, st, j, r)
    BY <1>1, <1>2, <2>1 DEF ByClaim, Leased, Eligible, Row
  <2>2. CASE ByReturn(s, st, j, r) \/ ByMemory(s, st, j, r)
    BY <1>2, <2>2 DEF ByReturn, ByMemory
  <2>3. CASE ByProgress(s, st, j, r)
    BY <1>2, <2>3 DEF ByProgress, Fence, Row0
  <2>4. CASE ByOutcome(s, st, j, r)
    BY <1>2, <2>4 DEF ByOutcome, Fence, Row0, Settled, Closed
  <2>5. CASE ByRelease(s, st, j, r)
    BY <1>1, <1>2, <2>5, BoundsAssumption DEF ByRelease, Fence, Row0, Closed, Row
  <2>6. CASE ByExhaustion(s, st, j, r)
    BY <1>2, <2>6 DEF ByExhaustion, Closed, Eligible
  <2>7. CASE ByEnvironment(s, st, j, r)
    BY <1>2, <2>7, BoundsAssumption DEF ByEnvironment, NoRow, NewRow
  <2> QED BY <2>1, <2>2, <2>3, <2>4, <2>5, <2>6, <2>7 DEF Shape
<1>4. RowInv' /\ WaitingHasBudget' /\ CancelNeverSucceeds'
  BY <1>1, <1>3 DEF Before, RowInv, WaitingHasBudget, CancelNeverSucceeds
<1> QED BY <1>3, <1>4

\* A shape keeps the invariant of single slots.
LEMMA SlotsKept ==
  ASSUME Before, NEW s \in Slots, NEW st \in SlotState, NEW j \in Jobs, NEW r \in Row,
         Shape(s, st, j, r)
  PROVE  SlotInv'
<1>1. /\ slots[s].pc # "idle" => slots[s].job \in Jobs
      /\ slots[s].hb # "off" => slots[s].pc \in HandlerPc \cup OutcomePc
  BY DEF Before, SlotInv
<1>2. /\ st.pc # "idle" => st.job \in Jobs
      /\ st.hb # "off" => st.pc \in HandlerPc \cup OutcomePc
  BY <1>1 DEF Shape, ByClaim, ByReturn, ByMemory, ByProgress, ByOutcome, ByRelease,
     ByExhaustion, ByEnvironment, KeepsLease, Active
<1> QED BY <1>2, Frame DEF Before, SlotInv

\* The epoch in a slot is its own lease's: kept, or the row's next one.
LEMMA EpochStep ==
  ASSUME Before, NEW s \in Slots, NEW st \in SlotState, NEW j \in Jobs, NEW r \in Row,
         Shape(s, st, j, r)
  PROVE  \/ st.pc \in {"idle", "exhausted"}
         \/ st.job = j /\ st.epoch = jobs[j].epoch + 1 /\ r.epoch = jobs[j].epoch + 1
         \/ Active(s) /\ st.job = slots[s].job /\ st.epoch = slots[s].epoch
  BY DEF Shape, ByClaim, ByReturn, ByMemory, ByProgress, ByOutcome, ByRelease,
     ByExhaustion, ByEnvironment, KeepsLease, Active, Leased

\* A shape keeps epochs unique and behind their rows.
LEMMA EpochsKept ==
  ASSUME Before, EpochInv,
         NEW s \in Slots, NEW st \in SlotState, NEW j \in Jobs, NEW r \in Row,
         Shape(s, st, j, r)
  PROVE  EpochInv'
<1>1. /\ slots'[s] = st /\ \A t \in Slots : t # s => slots'[t] = slots[t]
      /\ jobs'[j] = r /\ \A k \in Jobs : k # j => jobs'[k] = jobs[k]
      /\ r.epoch >= jobs[j].epoch
  BY Frame
<1>2. /\ \A k \in Jobs : jobs[k].epoch \in Nat
      /\ \A t \in Slots : slots[t].epoch \in Nat
      /\ \A t \in Slots : Active(t) => slots[t].job \in Jobs
      /\ r.epoch \in Nat /\ st.epoch \in Nat
  BY DEF Before, TypeOK, Row, SlotState, SlotInv, Active
<1>3. \A k \in Jobs : jobs'[k].epoch >= jobs[k].epoch /\ jobs'[k].epoch \in Nat
  BY <1>1, <1>2
<1>4. \A t \in Slots : Active(t) => slots[t].epoch <= jobs[slots[t].job].epoch
  BY DEF EpochInv, Row0
<1>5. ASSUME NEW t \in Slots, Active(t)'
      PROVE  slots'[t].epoch <= jobs'[slots'[t].job].epoch
  <2>1. CASE t # s
    BY <1>1, <1>2, <1>3, <1>4, <1>5, <2>1 DEF Active
  <2>2. CASE t = s
    BY <1>1, <1>2, <1>3, <1>4, <1>5, <2>2, EpochStep DEF Active
  <2> QED BY <2>1, <2>2
<1>6. ASSUME NEW t \in Slots, Active(t)', s # t, st.pc \notin {"idle", "exhausted"},
             st.job = slots'[t].job
      PROVE  st.epoch # slots'[t].epoch
  <2>1. slots'[t] = slots[t] /\ Active(t)
    BY <1>1, <1>6 DEF Active
  <2>2. CASE st.job = j /\ st.epoch = jobs[j].epoch + 1
    BY <1>2, <1>4, <1>6, <2>1, <2>2
  <2>3. CASE Active(s) /\ st.job = slots[s].job /\ st.epoch = slots[s].epoch
    BY <1>6, <2>1, <2>3 DEF EpochInv
  <2> QED BY <1>6, <2>2, <2>3, EpochStep
<1>7. ASSUME NEW t \in Slots, NEW u \in Slots, Active(t)', Active(u)', t # u,
             slots'[t].job = slots'[u].job
      PROVE  slots'[t].epoch # slots'[u].epoch
  <2>1. CASE t = s
    BY <1>1, <1>6, <1>7, <2>1 DEF Active
  <2>2. CASE u = s
    BY <1>1, <1>6, <1>7, <2>2 DEF Active
  <2>3. CASE t # s /\ u # s
    BY <1>1, <1>7, <2>3 DEF EpochInv, Active
  <2> QED BY <2>1, <2>2, <2>3
<1> QED BY <1>5, <1>7 DEF EpochInv, Row0

\* Two leases of one job never carry the epoch of its row.
LEMMA RivalStale ==
  ASSUME Before, EpochInv, NEW s \in Slots, NEW t \in Slots, s # t,
         Active(s), Active(t), slots[s].job = slots[t].job,
         Row0(s).epoch = slots[s].epoch
  PROVE  Row0(t).epoch # slots[t].epoch
  BY DEF EpochInv, Row0

\* A shape ends only the lease of the slot that takes it, or an exhausted one.
LEMMA OwnKept ==
  ASSUME Before, EpochInv, OwnInv,
         NEW s \in Slots, NEW st \in SlotState, NEW j \in Jobs, NEW r \in Row,
         Shape(s, st, j, r)
  PROVE  OwnInv'
<1> DEFINE Own(q) == q.status = "running" \/ (q.status = "failed" /\ q.error = "exhausted")
<1>1. /\ slots'[s] = st /\ \A t \in Slots : t # s => slots'[t] = slots[t]
      /\ jobs'[j] = r /\ \A k \in Jobs : k # j => jobs'[k] = jobs[k]
      /\ jobs[j].epoch \in Nat
  BY Frame DEF Row
<1>2. \A t \in Slots : Active(t) => slots[t].job \in Jobs
  BY DEF Before, SlotInv, Active
<1>3. \A t \in Slots : Active(t) /\ slots[t].pc \notin Ended
                         /\ jobs[slots[t].job].epoch = slots[t].epoch
                         => Own(jobs[slots[t].job])
  BY DEF OwnInv, Ended, Row0
<1>4. ASSUME st.pc \notin {"idle", "exhausted"} \cup Ended,
             jobs'[st.job].epoch = st.epoch
      PROVE  Own(jobs'[st.job])
  <2>1. CASE ByClaim(s, st, j, r) \/ ByProgress(s, st, j, r)
    BY <1>1, <2>1 DEF ByClaim, ByProgress, Leased, KeepsLease
  <2>2. CASE ByMemory(s, st, j, r)
    BY <1>1, <1>2, <1>3, <1>4, <2>2 DEF ByMemory, KeepsLease
  <2>3. CASE ByEnvironment(s, st, j, r)
    BY <1>1, <1>2, <1>3, <1>4, <2>3 DEF ByEnvironment, Active, NoRow, NewRow
  <2>4. ~ByReturn(s, st, j, r) /\ ~ByOutcome(s, st, j, r) /\ ~ByRelease(s, st, j, r)
          /\ ~ByExhaustion(s, st, j, r)
    BY <1>4 DEF ByReturn, ByOutcome, ByRelease, ByExhaustion, Ended
  <2> QED BY <2>1, <2>2, <2>3, <2>4 DEF Shape
<1>5. ASSUME NEW t \in Slots, t # s, Active(t), slots[t].pc \notin Ended,
             jobs'[slots[t].job].epoch = slots[t].epoch
      PROVE  Own(jobs'[slots[t].job])
  <2>1. CASE slots[t].job # j
    BY <1>1, <1>2, <1>3, <1>5, <2>1
  <2>2. CASE slots[t].job = j
    <3>1. r.epoch = slots[t].epoch
      BY <1>1, <1>5, <2>2
    <3>2. CASE ByClaim(s, st, j, r)
      <4>1. r.status = "running"
        BY <3>2 DEF ByClaim, Leased
      <4> QED BY <1>1, <2>2, <4>1
    <3>3. CASE ByReturn(s, st, j, r) \/ ByMemory(s, st, j, r)
      BY <1>1, <1>3, <1>5, <2>2, <3>1, <3>3 DEF ByReturn, ByMemory
    <3>4. CASE ByProgress(s, st, j, r)
      BY <1>1, <2>2, <3>4 DEF ByProgress
    <3>5. CASE ByOutcome(s, st, j, r) \/ ByRelease(s, st, j, r)
      <4>1. Active(s) /\ j = slots[s].job /\ Fence(s) /\ r.epoch = jobs[j].epoch
        BY <3>5 DEF ByOutcome, ByRelease, Active, Pre, Settled, Closed
      <4> QED BY <1>5, <2>2, <3>1, <4>1, RivalStale DEF Fence, Row0
    <3>6. CASE ByExhaustion(s, st, j, r)
      BY <1>1, <2>2, <3>6 DEF ByExhaustion
    <3>7. CASE ByEnvironment(s, st, j, r)
      BY <1>1, <1>3, <1>5, <2>2, <3>1, <3>7 DEF ByEnvironment, NoRow, NewRow
    <3> QED BY <3>2, <3>3, <3>4, <3>5, <3>6, <3>7 DEF Shape
  <2> QED BY <2>1, <2>2
<1>6. ASSUME NEW t \in Slots, Active(t)', slots'[t].pc \notin Ended,
             jobs'[slots'[t].job].epoch = slots'[t].epoch
      PROVE  Own(jobs'[slots'[t].job])
  BY <1>1, <1>4, <1>5, <1>6 DEF Active
<1> QED BY <1>6 DEF OwnInv, Ended, Row0

\* A shape keeps the stages of slot and row together.
LEMMA StagesKept ==
  ASSUME Before, EpochInv,
         NEW s \in Slots, NEW st \in SlotState, NEW j \in Jobs, NEW r \in Row,
         Shape(s, st, j, r)
  PROVE  StageInv'
<1>1. /\ slots'[s] = st /\ \A t \in Slots : t # s => slots'[t] = slots[t]
      /\ jobs'[j] = r /\ \A k \in Jobs : k # j => jobs'[k] = jobs[k]
      /\ jobs[j].epoch \in Nat
  BY Frame DEF Row
<1>2. \A t \in Slots : Active(t) => slots[t].job \in Jobs
  BY DEF Before, SlotInv, Active
<1>3. \A t \in Slots : Holds(t) => StagesAgree(slots[t], jobs[slots[t].job])
  BY DEF Before, StageInv, StagesAgree, Current, Row0
<1>4. ASSUME st.pc \notin {"idle", "exhausted"}, jobs'[st.job].status = "running",
             jobs'[st.job].epoch = st.epoch
      PROVE  StagesAgree(st, jobs'[st.job])
  <2>1. CASE ByClaim(s, st, j, r)
    BY <1>1, <2>1 DEF ByClaim, StagesAgree
  <2>2. CASE ByProgress(s, st, j, r)
    BY <1>1, <2>2 DEF ByProgress, KeepsLease
  <2>3. CASE ByMemory(s, st, j, r)
    BY <1>1, <1>2, <1>4, <2>3 DEF ByMemory, KeepsLease, Holds, Active, Row0
  <2>4. CASE ByEnvironment(s, st, j, r)
    <3>1. Holds(s) /\ StagesAgree(slots[s], jobs[slots[s].job])
      BY <1>1, <1>2, <1>3, <1>4, <2>4 DEF ByEnvironment, Holds, Active, Row0, NewRow
    <3> QED BY <1>1, <1>2, <2>4, <3>1 DEF ByEnvironment, StagesAgree, Holds, Active
  <2>5. CASE ByOutcome(s, st, j, r)
    BY <1>1, <1>4, <2>5 DEF ByOutcome, KeepsLease, Settled, Closed
  <2>6. ~ByReturn(s, st, j, r) /\ ~ByRelease(s, st, j, r) /\ ~ByExhaustion(s, st, j, r)
    BY <1>4 DEF ByReturn, ByRelease, ByExhaustion
  <2> QED BY <2>1, <2>2, <2>3, <2>4, <2>5, <2>6 DEF Shape
<1>5. ASSUME NEW t \in Slots, t # s, Active(t),
             jobs'[slots[t].job].status = "running",
             jobs'[slots[t].job].epoch = slots[t].epoch
      PROVE  StagesAgree(slots[t], jobs'[slots[t].job])
  <2>1. CASE slots[t].job # j
    BY <1>1, <1>2, <1>3, <1>5, <2>1 DEF Holds, Active, Row0
  <2>2. CASE slots[t].job = j
    <3>1. r.epoch = slots[t].epoch /\ r.status = "running"
      BY <1>1, <1>5, <2>2
    <3>2. CASE ByClaim(s, st, j, r)
      <4>1. slots[t].epoch <= jobs[j].epoch /\ slots[t].epoch \in Nat
        BY <1>5, <2>2 DEF EpochInv, Row0, Before, TypeOK, SlotState
      <4> QED BY <1>1, <3>1, <3>2, <4>1 DEF ByClaim, Leased
    <3>3. CASE ByReturn(s, st, j, r) \/ ByMemory(s, st, j, r)
      BY <1>1, <1>3, <1>5, <2>2, <3>1, <3>3 DEF ByReturn, ByMemory, Holds, Active, Row0
    <3>4. CASE ByProgress(s, st, j, r)
      <4>1. Active(s) /\ j = slots[s].job /\ Fence(s) /\ r.epoch = jobs[j].epoch
        BY <3>4 DEF ByProgress, KeepsLease
      <4> QED BY <1>5, <2>2, <3>1, <4>1, RivalStale DEF Fence, Row0
    <3>5. ~ByOutcome(s, st, j, r) /\ ~ByRelease(s, st, j, r) /\ ~ByExhaustion(s, st, j, r)
      BY <3>1 DEF ByOutcome, ByRelease, ByExhaustion, Settled, Closed
    <3>6. CASE ByEnvironment(s, st, j, r)
      <4>1. r.status = jobs[j].status /\ r.epoch = jobs[j].epoch
        BY <3>1, <3>6 DEF ByEnvironment, NewRow
      <4>2. StagesAgree(slots[t], jobs[j])
        BY <1>3, <1>5, <2>2, <3>1, <4>1 DEF Holds, Active, Row0
      <4> QED BY <1>1, <2>2, <3>6, <4>2 DEF ByEnvironment, StagesAgree
    <3> QED BY <3>2, <3>3, <3>4, <3>5, <3>6 DEF Shape
  <2> QED BY <2>1, <2>2
<1>6. ASSUME NEW t \in Slots, Holds(t)'
      PROVE  StagesAgree(slots'[t], jobs'[slots'[t].job])
  BY <1>1, <1>4, <1>5, <1>6 DEF Holds, Active, Row0
<1> QED BY <1>6 DEF StageInv, StagesAgree, Current, Row0

\* How a shape moves the claims whose handler has not started.
LEMMA UnstartedStep ==
  ASSUME Before, NEW s \in Slots, NEW st \in SlotState, NEW j \in Jobs, NEW r \in Row,
         Shape(s, st, j, r), NEW k \in Jobs
  PROVE  \/ Unstarted(k)' \subseteq Unstarted(k)
         \/ k = j /\ ByClaim(s, st, j, r) /\ Unstarted(j)' = Unstarted(j) \cup {s}
<1>1. slots'[s] = st /\ \A t \in Slots : t # s => slots'[t] = slots[t]
  BY Frame
<1>2. CASE ByClaim(s, st, j, r)
  BY <1>1, <1>2 DEF ByClaim, Unstarted
<1>3. CASE ~ByClaim(s, st, j, r)
  <2>1. st.pc \in Pre => slots[s].pc \in Pre /\ slots[s].job = st.job
    BY <1>3 DEF Shape, ByReturn, ByMemory, ByProgress, ByOutcome, ByRelease,
       ByExhaustion, ByEnvironment, KeepsLease, Pre
  <2> QED BY <1>1, <2>1 DEF Unstarted, Pre
<1> QED BY <1>2, <1>3

\* A shape keeps starts and unstarted claims within the attempts charged.
LEMMA BudgetKept ==
  ASSUME Before, BudgetInv,
         NEW s \in Slots, NEW st \in SlotState, NEW j \in Jobs, NEW r \in Row,
         Shape(s, st, j, r)
  PROVE  BudgetInv'
<1> SUFFICES ASSUME NEW k \in Jobs
             PROVE  starts'[k] + Cardinality(Unstarted(k)') <= jobs'[k].attempt
  BY DEF BudgetInv
<1> DEFINE U == Unstarted(k)
           V == Unstarted(k)'
<1>1. /\ slots'[s] = st /\ \A t \in Slots : t # s => slots'[t] = slots[t]
      /\ jobs'[j] = r /\ \A i \in Jobs : i # j => jobs'[i] = jobs[i]
  BY Frame
<1>2. /\ jobs[k].attempt \in Nat /\ starts[k] \in Nat /\ starts \in [Jobs -> Nat]
      /\ r.attempt \in Nat
  BY BoundsAssumption DEF Before, TypeOK, Row
<1>3. U \subseteq Slots /\ V \subseteq Slots
  BY DEF Unstarted
<1>4. /\ IsFiniteSet(U) /\ IsFiniteSet(V)
      /\ Cardinality(U) \in Nat /\ Cardinality(V) \in Nat
  BY <1>3, SlotsAssumption, FS_Subset, FS_CardinalityType DEF SlotsAssumption
<1>5. starts[k] + Cardinality(U) <= jobs[k].attempt
  BY DEF BudgetInv
<1>6. V \subseteq U => Cardinality(V) <= Cardinality(U)
  BY <1>4, FS_Subset
<1>7. CASE k = j /\ ByClaim(s, st, j, r) /\ V = U \cup {s}
  <2>1. s \notin U
    BY <1>7 DEF ByClaim, Unstarted
  <2>2. Cardinality(V) = Cardinality(U) + 1
    BY <1>4, <1>7, <2>1, FS_AddElement
  <2>3. r.attempt = jobs[k].attempt + 1 /\ starts' = starts
    BY <1>7 DEF ByClaim, Leased
  <2> QED BY <1>1, <1>2, <1>4, <1>5, <1>7, <2>2, <2>3
<1>8. CASE V \subseteq U
  <2>1. CASE k = j /\ s \in U /\ s \notin V
             /\ starts'[k] + 1 - r.attempt = starts[k] + 2 - jobs[k].attempt
    <3>1. V \subseteq U \ {s} /\ IsFiniteSet(U \ {s})
      BY <1>4, <1>8, <2>1, FS_RemoveElement
    <3>2. Cardinality(V) <= Cardinality(U \ {s}) /\ Cardinality(U \ {s}) = Cardinality(U) - 1
      BY <1>4, <2>1, <3>1, FS_RemoveElement, FS_Subset
    <3>3. starts'[k] \in Nat
      BY <1>2 DEF Shape, ByClaim, ByReturn, ByMemory, ByProgress, ByOutcome, ByRelease,
         ByExhaustion, ByEnvironment
    <3> QED BY <1>1, <1>2, <1>4, <1>5, <2>1, <3>2, <3>3
  <2>2. CASE starts'[k] = starts[k] /\ jobs'[k].attempt >= jobs[k].attempt
    <3>1. jobs'[k].attempt \in Nat
      BY <1>1, <1>2
    <3> QED BY <1>2, <1>4, <1>5, <1>6, <1>8, <2>2, <3>1
  <2>3. CASE k # j
    <3>1. starts'[k] = starts[k]
      BY <1>2, <2>3 DEF Shape, ByClaim, ByReturn, ByMemory, ByProgress, ByOutcome,
         ByRelease, ByExhaustion, ByEnvironment
    <3> QED BY <1>1, <1>2, <2>2, <2>3, <3>1
  <2>4. CASE k = j /\ ByMemory(s, st, j, r) /\ starts' # starts
    <3>1. s \in U /\ s \notin V
      BY <1>1, <2>4 DEF ByMemory, Unstarted, Pre
    <3>2. starts'[k] = starts[k] + 1 /\ r.attempt = jobs[k].attempt
      BY <1>2, <2>4 DEF ByMemory
    <3> QED BY <1>2, <2>1, <2>4, <3>1, <3>2
  <2>5. CASE k = j /\ ByRelease(s, st, j, r)
    <3>1. s \in U /\ s \notin V
      BY <1>1, <2>5 DEF ByRelease, Unstarted, Pre
    <3>2. starts'[k] = starts[k] /\ r.attempt = jobs[k].attempt - 1
      BY <2>5 DEF ByRelease, Closed
    <3> QED BY <1>2, <2>1, <2>5, <3>1, <3>2
  <2>6. CASE k = j /\ ~ByRelease(s, st, j, r) /\ ~(ByMemory(s, st, j, r) /\ starts' # starts)
    <3>1. starts' = starts
      BY <2>6 DEF Shape, ByClaim, ByReturn, ByMemory, ByProgress, ByOutcome,
         ByExhaustion, ByEnvironment
    <3>2. r.attempt >= jobs[k].attempt
      BY <1>2, <2>6 DEF Shape, ByClaim, ByReturn, ByMemory, ByProgress, ByOutcome,
         ByExhaustion, ByEnvironment, Leased, Settled, Closed
    <3> QED BY <1>1, <2>2, <2>6, <3>1, <3>2
  <2> QED BY <2>3, <2>4, <2>5, <2>6
<1> QED BY <1>7, <1>8, UnstartedStep

(***************************************************************************)
(* The inductive invariant.                                                *)
(***************************************************************************)
LEMMA InitIInv == Init => TypeOK /\ IInv
<1> SUFFICES ASSUME Init PROVE TypeOK /\ IInv
  OBVIOUS
<1>1. NoRow \in Row
  <2>1. NewRow \in Row
    BY BoundsAssumption DEF NewRow, Row
  <2> QED BY <2>1 DEF NoRow, Row
<1>2. TypeOK
  BY <1>1, IdleType, BoundsAssumption DEF Init, TypeOK
<1>3. RowInv /\ WaitingHasBudget /\ CancelNeverSucceeds
  BY BoundsAssumption DEF Init, RowInv, WaitingHasBudget, CancelNeverSucceeds, NoRow, NewRow
<1>4. \A s \in Slots : slots[s].pc = "idle" /\ slots[s].hb = "off"
  BY IdleType DEF Init
<1>5. SlotInv /\ EpochInv /\ OwnInv /\ StageInv
  BY <1>4 DEF SlotInv, EpochInv, OwnInv, StageInv, Active, Holds
<1>6. BudgetInv
  <2>1. \A j \in Jobs : Unstarted(j) = {}
    BY <1>4 DEF Unstarted
  <2>2. \A j \in Jobs : Cardinality(Unstarted(j)) = 0
    BY <2>1, FS_EmptySet
  <2>3. \A j \in Jobs : starts[j] = 0 /\ jobs[j].attempt = 0
    BY DEF Init, NoRow, NewRow
  <2> QED BY <2>2, <2>3 DEF BudgetInv
<1> QED BY <1>2, <1>3, <1>5, <1>6 DEF IInv

\* Every step keeps the type invariant and the inductive invariant.
LEMMA NextIInv == TypeOK /\ IInv /\ [Next]_vars => (TypeOK /\ IInv)'
<1> SUFFICES ASSUME TypeOK, IInv, [Next]_vars PROVE (TypeOK /\ IInv)'
  OBVIOUS
<1>1. Before
  BY DEF Before, IInv
<1>2. CASE Quiet
  <2>1. TypeOK'
    BY <1>2 DEF Quiet, TypeOK
  <2>2. IInv'
    BY <1>2 DEF Quiet, IInv, RowInv, SlotInv, EpochInv, BudgetInv, OwnInv, StageInv,
       WaitingHasBudget, CancelNeverSucceeds, Active, Holds, Unstarted, Row0
  <2> QED BY <2>1, <2>2
<1>3. ASSUME NEW s \in Slots, Shaped(s)
      PROVE  (TypeOK /\ IInv)'
  <2>1. PICK st \in SlotState, j \in Jobs, r \in Row : Shape(s, st, j, r)
    BY <1>3 DEF Shaped
  <2>2. TypeOK' /\ SlotInv'
    BY <1>1, <2>1, TypeKept, SlotsKept
  <2>3. RowInv' /\ WaitingHasBudget' /\ CancelNeverSucceeds'
    BY <1>1, <2>1, RowsKept DEF IInv
  <2>4. EpochInv' /\ OwnInv' /\ StageInv' /\ BudgetInv'
    BY <1>1, <2>1, EpochsKept, OwnKept, StagesKept, BudgetKept DEF IInv
  <2> QED BY <2>2, <2>3, <2>4 DEF IInv
<1> QED BY <1>1, <1>2, <1>3, NextShape

\* Every reachable state of the queue is well typed and satisfies the
\* inductive invariant: the lease columns follow the status, an epoch is
\* handed out once, every handler start was charged an attempt, and a lease's
\* stage follows its row.
THEOREM Invariance == Spec => [](TypeOK /\ IInv)
  BY InitIInv, NextIInv, PTL DEF Spec

\* Every reachable row and slot has the columns and values of the code's
\* tables and dataclasses: attempts stay within max_attempts, leases are
\* never left half-set.
THEOREM TypeCorrect == Spec => []TypeOK
  BY Invariance, PTL

\* Fencing: no two run_once tasks of any number of processes ever both hold a
\* lease the jobs table accepts for one job.
THEOREM Fencing == Spec => []SingleHolder
<1>1. TypeOK /\ IInv => SingleHolder
  BY DEF IInv, EpochInv, SingleHolder, Holds, Active, Row0
<1> QED BY <1>1, Invariance, PTL

\* The stage in a running handler's context is the stage of its row, however
\* heartbeats interleave with advance_stage.
THEOREM LeaseCurrent == Spec => []HandlerLeaseCurrent
<1>1. TypeOK /\ IInv => HandlerLeaseCurrent
  BY DEF IInv, StageInv, HandlerLeaseCurrent
<1> QED BY <1>1, Invariance, PTL

\* The heartbeat task never cancels a handler whose finalize_domain committed.
THEOREM FinalizationKept == Spec => []NoLostFinalization
<1>1. TypeOK /\ IInv => NoLostFinalization
  BY DEF IInv, OwnInv, NoLostFinalization, Active
<1> QED BY <1>1, Invariance, PTL

\* claim_next and release_claim together never let a handler start more than
\* max_attempts times.
THEOREM StartsBounded == Spec => []StartsWithinBudget
<1>1. ASSUME TypeOK, IInv, NEW j \in Jobs PROVE starts[j] <= MaxAttempts
  <2>1. Unstarted(j) \subseteq Slots
    BY DEF Unstarted
  <2>2. Cardinality(Unstarted(j)) \in Nat
    BY <2>1, SlotsAssumption, FS_Subset, FS_CardinalityType DEF SlotsAssumption
  <2>3. starts[j] \in Nat /\ jobs[j].attempt \in 0 .. MaxAttempts
    BY <1>1 DEF TypeOK, Row
  <2>4. starts[j] + Cardinality(Unstarted(j)) <= jobs[j].attempt
    BY <1>1 DEF IInv, BudgetInv
  <2> QED BY <2>2, <2>3, <2>4, BoundsAssumption
<1>2. TypeOK /\ IInv => StartsWithinBudget
  BY <1>1 DEF StartsWithinBudget
<1> QED BY <1>2, Invariance, PTL

\* A queued or delayed job can always be claimed once more.
THEOREM WaitingClaimable == Spec => []WaitingHasBudget
<1>1. TypeOK /\ IInv => WaitingHasBudget
  BY DEF IInv
<1> QED BY <1>1, Invariance, PTL

\* What a lease promises, for any number of jobs, slots, stages and attempts:
\* one holder, whose stage is the row's, and no cancelled holder whose
\* finalization stands.
THEOREM LeasesSafe == Spec => []LeaseSafety
<1>1. TypeOK /\ SingleHolder /\ HandlerLeaseCurrent /\ NoLostFinalization => LeaseSafety
  BY DEF LeaseSafety
<1> QED BY <1>1, TypeCorrect, Fencing, LeaseCurrent, FinalizationKept, PTL

\* The budget of a job is neither exceeded nor lost.
THEOREM AttemptsKept == Spec => []AttemptsWithinBudget
<1>1. StartsWithinBudget /\ WaitingHasBudget => AttemptsWithinBudget
  BY DEF AttemptsWithinBudget
<1> QED BY <1>1, StartsBounded, WaitingClaimable, PTL

\* A job with a cancellation request never ends as succeeded.
THEOREM CancelHonoured == Spec => []CancelNeverSucceeds
<1>1. TypeOK /\ IInv => CancelNeverSucceeds
  BY DEF IInv
<1> QED BY <1>1, Invariance, PTL

\* No transaction of any slot changes a terminal row.
THEOREM TerminalKept == Spec => TerminalStable
<1>1. TypeOK /\ IInv /\ [Next]_vars
        => [\A j \in Jobs : jobs[j].status \in Terminal => jobs'[j] = jobs[j]]_vars
  <2> SUFFICES ASSUME TypeOK, IInv, [Next]_vars, NEW j \in Jobs,
                      jobs[j].status \in Terminal
               PROVE  jobs'[j] = jobs[j]
    OBVIOUS
  <2>1. Before
    BY DEF Before, IInv
  <2>2. CASE Quiet
    BY <2>2 DEF Quiet
  <2>3. ASSUME NEW s \in Slots, Shaped(s) PROVE jobs'[j] = jobs[j]
    <3>1. PICK st \in SlotState, k \in Jobs, r \in Row : Shape(s, st, k, r)
      BY <2>3 DEF Shaped
    <3> QED BY <2>1, <3>1, Frame, RowsKept DEF IInv
  <2> QED BY <2>1, <2>2, <2>3, NextShape
<1> QED BY <1>1, Invariance, PTL DEF Spec, TerminalStable

(***************************************************************************)
(* Refinement of the abstract lifecycle.                                   *)
(***************************************************************************)
phaseBar == [j \in Jobs |-> PhaseOf(jobs[j].status)]
spentBar == [j \in Jobs |-> jobs[j].attempt]

\* A step that changes row j from phase p, spent n to phase q, spent m does
\* that to the abstract state.
LEMMA BarStep ==
  ASSUME Before, NEW s \in Slots, NEW st \in SlotState, NEW j \in Jobs, NEW r \in Row,
         Shape(s, st, j, r)
  PROVE  /\ phaseBar' = [phaseBar EXCEPT ![j] = PhaseOf(r.status)]
         /\ spentBar' = [spentBar EXCEPT ![j] = r.attempt]
         /\ phaseBar[j] = PhaseOf(jobs[j].status) /\ spentBar[j] = jobs[j].attempt
<1>1. jobs'[j] = r /\ \A k \in Jobs : k # j => jobs'[k] = jobs[k]
  BY Frame
<1>2. phaseBar' = [phaseBar EXCEPT ![j] = PhaseOf(r.status)]
  BY <1>1 DEF phaseBar
<1>3. spentBar' = [spentBar EXCEPT ![j] = r.attempt]
  BY <1>1 DEF spentBar
<1> QED BY <1>2, <1>3 DEF phaseBar, spentBar

\* Under the refinement mapping a shape is a lifecycle step or a stutter.
LEMMA ShapeRefines ==
  ASSUME Before, WaitingHasBudget,
         NEW s \in Slots, NEW st \in SlotState, NEW j \in Jobs, NEW r \in Row,
         Shape(s, st, j, r)
  PROVE  [Lifecycle!LifecycleNext]_(Lifecycle!lifecycleVars)
<1>1. /\ phaseBar' = [phaseBar EXCEPT ![j] = PhaseOf(r.status)]
      /\ spentBar' = [spentBar EXCEPT ![j] = r.attempt]
      /\ phaseBar[j] = PhaseOf(jobs[j].status) /\ spentBar[j] = jobs[j].attempt
  BY BarStep
<1>2. /\ jobs[j] \in Row /\ jobs[j].attempt \in Int /\ jobs[j].status \in Status
      /\ jobs[j].status \in {"queued", "retry_wait"} => jobs[j].attempt < MaxAttempts
  BY Frame DEF WaitingHasBudget, Row
<1>3. CASE ByClaim(s, st, j, r)
  <2>1. /\ PhaseOf(jobs[j].status) \in {"waiting", "leased"}
        /\ PhaseOf(r.status) = "leased" /\ r.attempt = jobs[j].attempt + 1
        /\ jobs[j].attempt < MaxAttempts
    BY <1>3 DEF ByClaim, Eligible, Leased, PhaseOf
  <2>2. Lifecycle!LeaseOut(j)
    BY <1>1, <2>1 DEF Lifecycle!LeaseOut, phaseBar, spentBar
  <2> QED BY <2>2 DEF Lifecycle!LifecycleNext
<1>4. CASE PhaseOf(r.status) = PhaseOf(jobs[j].status) /\ r.attempt = jobs[j].attempt
  <2>1. phaseBar' = phaseBar /\ spentBar' = spentBar
    BY <1>1, <1>4 DEF phaseBar, spentBar
  <2> QED BY <2>1 DEF Lifecycle!lifecycleVars, phaseBar, spentBar
<1>5. CASE /\ jobs[j].status = "running" /\ r.status \in Terminal
           /\ r.attempt = jobs[j].attempt
  <2>1. /\ PhaseOf(jobs[j].status) = "leased"
        /\ PhaseOf(r.status) \in {"succeeded", "failed", "cancelled"}
    BY <1>5 DEF PhaseOf
  <2>2. spentBar' = spentBar
    BY <1>1, <1>5 DEF spentBar
  <2>3. Lifecycle!Settle(j)
    BY <1>1, <2>1, <2>2 DEF Lifecycle!Settle, Lifecycle!Outcomes, phaseBar, spentBar
  <2> QED BY <2>3 DEF Lifecycle!LifecycleNext
<1>6. CASE /\ jobs[j].status = "running" /\ r.status \in {"queued", "retry_wait"}
           /\ r.attempt \in {jobs[j].attempt, jobs[j].attempt - 1}
           /\ r.attempt < MaxAttempts
  <2>1. PhaseOf(jobs[j].status) = "leased" /\ PhaseOf(r.status) = "waiting"
    BY <1>6 DEF PhaseOf
  <2>2. Lifecycle!PutBack(j)
    BY <1>1, <1>6, <2>1 DEF Lifecycle!PutBack, phaseBar, spentBar
  <2> QED BY <2>2 DEF Lifecycle!LifecycleNext
<1>7. CASE ByReturn(s, st, j, r) \/ ByMemory(s, st, j, r) \/ ByEnvironment(s, st, j, r)
             \/ ByProgress(s, st, j, r)
  BY <1>4, <1>7 DEF ByReturn, ByMemory, ByEnvironment, ByProgress, Fence, Row0,
     PhaseOf, NoRow, NewRow
<1>8. CASE ByOutcome(s, st, j, r)
  BY <1>5, <1>6, <1>8 DEF ByOutcome, Fence, Row0, Settled, Closed
<1>9. CASE ByRelease(s, st, j, r)
  <2>1. jobs[j].attempt \in 0 .. MaxAttempts
    BY <1>2 DEF Row
  <2> QED BY <1>6, <1>9, <2>1, BoundsAssumption DEF ByRelease, Fence, Row0, Closed
<1>10. CASE ByExhaustion(s, st, j, r)
  BY <1>2, <1>5, <1>10 DEF ByExhaustion, Eligible, Closed
<1> QED BY <1>3, <1>7, <1>8, <1>9, <1>10 DEF Shape

\* The queue implements the abstract lifecycle: whatever the slots,
\* heartbeats, crashes and stale snapshots do to the jobs table, a job is only
\* leased within its budget, put back with budget left, and settled once.
THEOREM Refinement == Spec => ImplementsLifecycle
<1>1. Init => Lifecycle!LifecycleInit
  BY DEF Init, NoRow, NewRow, Lifecycle!LifecycleInit, PhaseOf
<1>2. TypeOK /\ IInv /\ [Next]_vars
        => [Lifecycle!LifecycleNext]_(Lifecycle!lifecycleVars)
  <2> SUFFICES ASSUME TypeOK, IInv, [Next]_vars
               PROVE  [Lifecycle!LifecycleNext]_(Lifecycle!lifecycleVars)
    OBVIOUS
  <2>1. Before /\ WaitingHasBudget
    BY DEF Before, IInv
  <2>2. CASE Quiet
    BY <2>2 DEF Quiet, Lifecycle!lifecycleVars
  <2>3. ASSUME NEW s \in Slots, Shaped(s)
        PROVE  [Lifecycle!LifecycleNext]_(Lifecycle!lifecycleVars)
    <3>1. PICK st \in SlotState, j \in Jobs, r \in Row : Shape(s, st, j, r)
      BY <2>3 DEF Shaped
    <3> QED BY <2>1, <3>1, ShapeRefines
  <2> QED BY <2>1, <2>2, <2>3, NextShape
<1> QED
  BY <1>1, <1>2, Invariance, PTL DEF Spec, ImplementsLifecycle, Lifecycle!LifecycleSpec

-----------------------------------------------------------------------------
(***************************************************************************)
(* The process that runs the slots, for any number of slots and resources. *)
(***************************************************************************)
HIDE DEF Terminal, Pending, Status, Lease, Errors, Stages, NoOwner, NoJob,
         HandlerPc, OutcomePc, FinalizingPc, Pc, HbPc

USE RunnerSlotsAssumption, ResourcesAssumption DEF Callers

\* Up to the start of the runner nothing runs but the first question to the
\* gate, which is asked when everything is built.
NothingBeforeStart ==
  /\ phase = "build" => ~check.running /\ caller["main"] = "off"
  /\ phase \in {"build", "preflight"} =>
       /\ recon = "off" /\ loop = "top" /\ read = "none" /\ ~health.deps
       /\ \A s \in RunnerSlots : caller[s] = "off"
  /\ caller["main"] # "off" => phase = "preflight"

\* After the drain no slot asks or reports any more, and after the cleanup has
\* begun the last report stands.
NothingAfterDrain ==
  /\ phase \in {"clean", "barrier", "closing", "exited"} =>
       \A s \in RunnerSlots : caller[s] \in {"off", "detached"}
  /\ phase \in {"barrier", "closing", "exited"} => ~health.accepting

\* Something is closed, or not yet built, only where nobody can ask the gate
\* or start a pass.
ClosedWhenQuiet ==
  /\ open # Resources \/ database = "closed" =>
       /\ phase \in {"build", "clean", "barrier", "closing", "exited"}
       /\ ~check.running /\ recon = "off"
  /\ phase = "closing" => ~check.running /\ recon = "off"
  /\ database = "closed" => phase = "exited"

ProcessIInv ==
  /\ ProcessTypeOK /\ WaitersHaveCheck /\ HealthyIsRunning /\ OneReadInFlight
  /\ NothingBeforeStart /\ NothingAfterDrain /\ ClosedWhenQuiet

-----------------------------------------------------------------------------
\* The process has built nothing and asked nobody.
LEMMA InitProcess == ProcessInit => ProcessIInv
<1> SUFFICES ASSUME ProcessInit PROVE ProcessIInv
  OBVIOUS
<1>1. ProcessTypeOK
  BY DEF ProcessInit, ProcessTypeOK
<1>2. WaitersHaveCheck /\ HealthyIsRunning /\ OneReadInFlight
  BY DEF ProcessInit, WaitersHaveCheck, HealthyIsRunning, HealthMain,
         OneReadInFlight
<1>3. NothingBeforeStart /\ NothingAfterDrain /\ ClosedWhenQuiet
  BY DEF ProcessInit, NothingBeforeStart, NothingAfterDrain, ClosedWhenQuiet
<1> QED
  BY <1>1, <1>2, <1>3 DEF ProcessIInv

\* Everybody who waits gets the answer, and nobody else.
LEMMA AnswerEffect ==
  ASSUME ProcessTypeOK, NEW a \in {"yes", "no"}
  PROVE  /\ Answer(a) \in [Callers -> {"off", "idle", "waiting", "yes", "no", "work", "detached"}]
         /\ \A w \in Callers : Answer(a)[w] = IF caller[w] = "waiting" THEN a ELSE caller[w]
BY DEF ProcessTypeOK, Answer

\* Who asks waits for a check that may answer, or is refused together with
\* everybody who waits.
LEMMA AskEffect ==
  ASSUME ProcessTypeOK, WaitersHaveCheck, NEW v \in Callers,
  Ask(v)
  PROVE  /\ check' \in [running : BOOLEAN, past : BOOLEAN, invalid : BOOLEAN]
         /\ caller' \in [Callers -> {"off", "idle", "waiting", "yes", "no", "work", "detached"}]
         /\ caller'[v] \in {"waiting", "no"}
         /\ \A w \in Callers \ {v} :
              caller'[w] = caller[w] \/ (caller[w] = "waiting" /\ caller'[w] = "no")
         /\ WaitersHaveCheck'
<1>1. CASE Refused
  <2>1. /\ check' = [check EXCEPT !.invalid = check.running]
        /\ caller' = [Answer("no") EXCEPT ![v] = "no"]
    BY <1>1 DEF Ask
  <2>2. \A w \in Callers : caller'[w] = IF w = v \/ caller[w] = "waiting" THEN "no" ELSE caller[w]
    BY <2>1, AnswerEffect
  <2>3. caller' \in [Callers -> {"off", "idle", "waiting", "yes", "no", "work", "detached"}]
    BY <2>1, AnswerEffect
  <2>4. check' \in [running : BOOLEAN, past : BOOLEAN, invalid : BOOLEAN]
    BY <2>1 DEF ProcessTypeOK
  <2> QED
    BY <2>2, <2>3, <2>4 DEF WaitersHaveCheck
<1>2. CASE ~Refused
  <2>1. /\ check' = IF check.running THEN check
                    ELSE [running |-> TRUE, past |-> FALSE, invalid |-> FALSE]
        /\ caller' = [caller EXCEPT ![v] = "waiting"]
    BY <1>2 DEF Ask
  <2>2. check'.running /\ ~check'.invalid
    BY <1>2, <2>1 DEF Refused, ProcessTypeOK
  <2> QED
    BY <2>1, <2>2 DEF ProcessTypeOK, WaitersHaveCheck
<1> QED
  BY <1>1, <1>2

\* The signal only sets the event.
LEMMA StepSignal ==
  ASSUME ProcessIInv, Signal
  PROVE  ProcessIInv'
<1> USE DEF ProcessIInv, ProcessTypeOK, process, runner, Signal
<1>1. ProcessTypeOK'
  OBVIOUS
<1>2. WaitersHaveCheck'
  BY DEF WaitersHaveCheck, NothingBeforeStart
<1>3. HealthyIsRunning'
  BY DEF HealthyIsRunning, HealthMain, NothingBeforeStart, NothingAfterDrain
<1>4. OneReadInFlight'
  BY DEF OneReadInFlight, NothingBeforeStart
<1>5. NothingBeforeStart'
  BY DEF NothingBeforeStart
<1>6. NothingAfterDrain'
  BY DEF NothingAfterDrain, NothingBeforeStart
<1>7. ClosedWhenQuiet'
  BY DEF ClosedWhenQuiet, NothingBeforeStart
<1> QED
  BY <1>1, <1>2, <1>3, <1>4, <1>5, <1>6, <1>7

\* The end of a check leaves nobody waiting.
LEMMA StepCheckEnds ==
  ASSUME ProcessIInv, NEW ok \in BOOLEAN, CheckEnds(ok)
  PROVE  ProcessIInv'
<1> USE DEF ProcessIInv, ProcessTypeOK, process, runner, CheckEnds
<1>0. caller' = Answer("yes") \/ caller' = Answer("no")
  OBVIOUS
<1>1. ProcessTypeOK'
  <2>1. check' \in [running : BOOLEAN, past : BOOLEAN, invalid : BOOLEAN]
    OBVIOUS
  <2>2. caller' \in [Callers -> {"off", "idle", "waiting", "yes", "no", "work", "detached"}]
    BY <1>0, AnswerEffect
  <2>3. caller'["health"] # "off" => caller["health"] # "off"
    BY <1>0, AnswerEffect
  <2> QED
    BY <2>1, <2>2, <2>3
<1>2. WaitersHaveCheck'
  BY <1>0, AnswerEffect DEF WaitersHaveCheck, NothingBeforeStart
<1>3. HealthyIsRunning'
  BY <1>0, AnswerEffect DEF HealthyIsRunning, HealthMain, NothingBeforeStart,
         NothingAfterDrain
<1>4. OneReadInFlight'
  BY DEF OneReadInFlight, NothingBeforeStart
<1>5. NothingBeforeStart'
  BY <1>0, AnswerEffect DEF NothingBeforeStart
<1>6. NothingAfterDrain'
  BY <1>0, AnswerEffect DEF NothingAfterDrain, NothingBeforeStart
<1>7. ClosedWhenQuiet'
  BY <1>0, AnswerEffect DEF ClosedWhenQuiet, NothingBeforeStart
<1> QED
  BY <1>1, <1>2, <1>3, <1>4, <1>5, <1>6, <1>7

\* So do its deadline and the stop event, which close the gate.
LEMMA StepDeadline ==
  ASSUME ProcessIInv, DeadlinePasses \/ Expire \/ StopSeen
  PROVE  ProcessIInv'
<1> USE DEF ProcessIInv, ProcessTypeOK, process, runner,
       DeadlinePasses, Expire, StopSeen
<1>1. ProcessTypeOK'
  <2>1. check' \in [running : BOOLEAN, past : BOOLEAN, invalid : BOOLEAN]
    OBVIOUS
  <2>2. caller' \in [Callers -> {"off", "idle", "waiting", "yes", "no", "work", "detached"}]
    BY AnswerEffect
  <2>3. caller'["health"] # "off" => caller["health"] # "off"
    BY AnswerEffect
  <2> QED
    BY <2>1, <2>2, <2>3
<1>2. WaitersHaveCheck'
  BY AnswerEffect DEF WaitersHaveCheck, NothingBeforeStart
<1>3. HealthyIsRunning'
  BY AnswerEffect DEF HealthyIsRunning, HealthMain, NothingBeforeStart,
         NothingAfterDrain
<1>4. OneReadInFlight'
  BY DEF OneReadInFlight, NothingBeforeStart
<1>5. NothingBeforeStart'
  BY AnswerEffect DEF NothingBeforeStart
<1>6. NothingAfterDrain'
  BY AnswerEffect DEF NothingAfterDrain, NothingBeforeStart
<1>7. ClosedWhenQuiet'
  BY AnswerEffect DEF ClosedWhenQuiet, NothingBeforeStart
<1> QED
  BY <1>1, <1>2, <1>3, <1>4, <1>5, <1>6, <1>7

\* Before the first question there is no check and no task.
LEMMA StepBuild ==
  ASSUME ProcessIInv, Build \/ BuildFails
  PROVE  ProcessIInv'
<1> USE DEF ProcessIInv, ProcessTypeOK, process, runner, Build,
       BuildFails
<1>1. ProcessTypeOK'
  OBVIOUS
<1>2. WaitersHaveCheck'
  BY DEF WaitersHaveCheck, NothingBeforeStart
<1>3. HealthyIsRunning'
  BY DEF HealthyIsRunning, HealthMain, NothingBeforeStart, NothingAfterDrain
<1>4. OneReadInFlight'
  BY DEF OneReadInFlight, NothingBeforeStart
<1>5. NothingBeforeStart'
  BY DEF NothingBeforeStart
<1>6. NothingAfterDrain'
  BY DEF NothingAfterDrain, NothingBeforeStart
<1>7. ClosedWhenQuiet'
  BY DEF ClosedWhenQuiet, NothingBeforeStart
<1> QED
  BY <1>1, <1>2, <1>3, <1>4, <1>5, <1>6, <1>7

\* The first question: everything is built.
LEMMA StepFirstPreflight ==
  ASSUME ProcessIInv, FirstPreflight
  PROVE  ProcessIInv'
<1> USE DEF ProcessIInv, ProcessTypeOK, process, runner, FirstPreflight
<1>0. Ask("main")
  OBVIOUS
<1>1. ProcessTypeOK'
  BY <1>0, AskEffect
<1>2. WaitersHaveCheck'
  BY <1>0, AskEffect
<1>3. HealthyIsRunning'
  BY <1>0, AskEffect DEF HealthyIsRunning, HealthMain, NothingBeforeStart,
         NothingAfterDrain
<1>4. OneReadInFlight'
  BY DEF OneReadInFlight, NothingBeforeStart
<1>5. NothingBeforeStart'
  BY <1>0, AskEffect DEF NothingBeforeStart
<1>6. NothingAfterDrain'
  BY <1>0, AskEffect DEF NothingAfterDrain, NothingBeforeStart
<1>7. ClosedWhenQuiet'
  BY <1>0, AskEffect DEF ClosedWhenQuiet, NothingBeforeStart
<1> QED
  BY <1>1, <1>2, <1>3, <1>4, <1>5, <1>6, <1>7

\* The tasks start when nothing reads yet.
LEMMA StepStarted ==
  ASSUME ProcessIInv, Started
  PROVE  ProcessIInv'
<1> USE DEF ProcessIInv, ProcessTypeOK, process, runner, Started,
       Report
<1>1. ProcessTypeOK'
  OBVIOUS
<1>2. WaitersHaveCheck'
  BY DEF WaitersHaveCheck, NothingBeforeStart
<1>3. HealthyIsRunning'
  BY DEF HealthyIsRunning, HealthMain, NothingBeforeStart, NothingAfterDrain
<1>4. OneReadInFlight'
  BY DEF OneReadInFlight, NothingBeforeStart
<1>5. NothingBeforeStart'
  BY DEF NothingBeforeStart
<1>6. NothingAfterDrain'
  BY DEF NothingAfterDrain, NothingBeforeStart
<1>7. ClosedWhenQuiet'
  BY DEF ClosedWhenQuiet, NothingBeforeStart
<1> QED
  BY <1>1, <1>2, <1>3, <1>4, <1>5, <1>6, <1>7

\* The health task asks only while the runner runs.
LEMMA StepHealthAsks ==
  ASSUME ProcessIInv, HealthAsks
  PROVE  ProcessIInv'
<1> USE DEF ProcessIInv, ProcessTypeOK, process, runner, HealthAsks
<1>0. Ask("health")
  OBVIOUS
<1>1. ProcessTypeOK'
  BY <1>0, AskEffect
<1>2. WaitersHaveCheck'
  BY <1>0, AskEffect
<1>3. HealthyIsRunning'
  BY <1>0, AskEffect DEF HealthyIsRunning, HealthMain, NothingBeforeStart,
         NothingAfterDrain
<1>4. OneReadInFlight'
  BY DEF OneReadInFlight, NothingBeforeStart
<1>5. NothingBeforeStart'
  BY <1>0, AskEffect DEF NothingBeforeStart
<1>6. NothingAfterDrain'
  BY <1>0, AskEffect DEF NothingAfterDrain, NothingBeforeStart
<1>7. ClosedWhenQuiet'
  BY <1>0, AskEffect DEF ClosedWhenQuiet, NothingBeforeStart
<1> QED
  BY <1>1, <1>2, <1>3, <1>4, <1>5, <1>6, <1>7

\* It reports only while it lives.
LEMMA StepHealthReports ==
  ASSUME ProcessIInv, HealthReports
  PROVE  ProcessIInv'
<1> USE DEF ProcessIInv, ProcessTypeOK, process, runner,
       HealthReports, Report
<1>1. ProcessTypeOK'
  OBVIOUS
<1>2. WaitersHaveCheck'
  BY DEF WaitersHaveCheck, NothingBeforeStart
<1>3. HealthyIsRunning'
  BY DEF HealthyIsRunning, HealthMain, NothingBeforeStart, NothingAfterDrain
<1>4. OneReadInFlight'
  BY DEF OneReadInFlight, NothingBeforeStart
<1>5. NothingBeforeStart'
  BY DEF NothingBeforeStart
<1>6. NothingAfterDrain'
  BY DEF NothingAfterDrain, NothingBeforeStart
<1>7. ClosedWhenQuiet'
  BY DEF ClosedWhenQuiet, NothingBeforeStart
<1> QED
  BY <1>1, <1>2, <1>3, <1>4, <1>5, <1>6, <1>7

\* A pass starts only while the runner runs.
LEMMA StepReconcile ==
  ASSUME ProcessIInv, ReconcileStarts \/ ReconcileReturns
  PROVE  ProcessIInv'
<1> USE DEF ProcessIInv, ProcessTypeOK, process, runner,
       ReconcileStarts, ReconcileReturns
<1>1. ProcessTypeOK'
  OBVIOUS
<1>2. WaitersHaveCheck'
  BY DEF WaitersHaveCheck, NothingBeforeStart
<1>3. HealthyIsRunning'
  BY DEF HealthyIsRunning, HealthMain, NothingBeforeStart, NothingAfterDrain
<1>4. OneReadInFlight'
  BY DEF OneReadInFlight, NothingBeforeStart
<1>5. NothingBeforeStart'
  BY DEF NothingBeforeStart
<1>6. NothingAfterDrain'
  BY DEF NothingAfterDrain, NothingBeforeStart
<1>7. ClosedWhenQuiet'
  BY DEF ClosedWhenQuiet, NothingBeforeStart
<1> QED
  BY <1>1, <1>2, <1>3, <1>4, <1>5, <1>6, <1>7

\* The loop: a read that was left behind is joined by no other.
LEMMA StepLoop ==
  ASSUME ProcessIInv, LoopTop \/ PollDue \/ NotificationArrives
  \/ NotificationTimeout \/ SleepEnds \/ StuckReadEnds
  PROVE  ProcessIInv'
<1> USE DEF ProcessIInv, ProcessTypeOK, process, runner, LoopTop,
       PollDue, NotificationArrives, NotificationTimeout,
       SleepEnds, StuckReadEnds, DropWhenStuck
<1>1. ProcessTypeOK'
  <2>1. UNCHANGED <<process, check, caller, health, recon>>
    OBVIOUS
  <2>2. pollDue' \in BOOLEAN
    OBVIOUS
  <2>3. notify' \in BOOLEAN
    OBVIOUS
  <2>4. loop' \in {"top", "notify", "sleep", "spawn", "end"}
    OBVIOUS
  <2>5. read' \in {"none", "waiting", "stuck"}
    OBVIOUS
  <2> QED
    BY <2>1, <2>2, <2>3, <2>4, <2>5
<1>2. WaitersHaveCheck'
  BY DEF WaitersHaveCheck, NothingBeforeStart
<1>3. HealthyIsRunning'
  BY DEF HealthyIsRunning, HealthMain, NothingBeforeStart, NothingAfterDrain
<1>4. OneReadInFlight'
  BY DEF OneReadInFlight, NothingBeforeStart
<1>5. NothingBeforeStart'
  BY DEF NothingBeforeStart
<1>6. NothingAfterDrain'
  BY DEF NothingAfterDrain, NothingBeforeStart
<1>7. ClosedWhenQuiet'
  BY DEF ClosedWhenQuiet, NothingBeforeStart
<1> QED
  BY <1>1, <1>2, <1>3, <1>4, <1>5, <1>6, <1>7

\* A slot starts with a question to the gate.
LEMMA StepSpawn ==
  ASSUME ProcessIInv, Spawn
  PROVE  ProcessIInv'
<1> USE DEF ProcessIInv, ProcessTypeOK, process, runner, Spawn,
       IdleSlots
<1>0. PICK v \in RunnerSlots : Ask(v)
  OBVIOUS
<1>1. ProcessTypeOK'
  BY <1>0, AskEffect
<1>2. WaitersHaveCheck'
  BY <1>0, AskEffect
<1>3. HealthyIsRunning'
  BY <1>0, AskEffect DEF HealthyIsRunning, HealthMain, NothingBeforeStart,
         NothingAfterDrain
<1>4. OneReadInFlight'
  BY DEF OneReadInFlight, NothingBeforeStart
<1>5. NothingBeforeStart'
  BY <1>0, AskEffect DEF NothingBeforeStart
<1>6. NothingAfterDrain'
  BY <1>0, AskEffect DEF NothingAfterDrain, NothingBeforeStart
<1>7. ClosedWhenQuiet'
  BY <1>0, AskEffect DEF ClosedWhenQuiet, NothingBeforeStart
<1> QED
  BY <1>1, <1>2, <1>3, <1>4, <1>5, <1>6, <1>7

\* Slots report until they are drained.
LEMMA StepSlot ==
  ASSUME ProcessIInv, NEW s \in RunnerSlots, SlotReports(s) \/ SlotEnds(s)
  PROVE  ProcessIInv'
<1> USE DEF ProcessIInv, ProcessTypeOK, process, runner, SlotReports,
       SlotEnds, Report
<1>1. ProcessTypeOK'
  <2>1. CASE SlotReports(s)
    BY <2>1
  <2>2. CASE SlotEnds(s)
    BY <2>2
  <2> QED
    BY <2>1, <2>2
<1>2. WaitersHaveCheck'
  BY DEF WaitersHaveCheck, NothingBeforeStart
<1>3. HealthyIsRunning'
  BY DEF HealthyIsRunning, HealthMain, NothingBeforeStart, NothingAfterDrain
<1>4. OneReadInFlight'
  BY DEF OneReadInFlight, NothingBeforeStart
<1>5. NothingBeforeStart'
  BY DEF NothingBeforeStart
<1>6. NothingAfterDrain'
  BY DEF NothingAfterDrain, NothingBeforeStart
<1>7. ClosedWhenQuiet'
  BY DEF ClosedWhenQuiet, NothingBeforeStart
<1> QED
  BY <1>1, <1>2, <1>3, <1>4, <1>5, <1>6, <1>7

\* The drain: the slots that stay are detached.
LEMMA StepLeave ==
  ASSUME ProcessIInv, Leave \/ Drained \/ DrainTimeout
  PROVE  ProcessIInv'
<1> USE DEF ProcessIInv, ProcessTypeOK, process, runner, Leave,
       Drained, DrainTimeout, IdleSlots
<1>1. ProcessTypeOK'
  OBVIOUS
<1>2. WaitersHaveCheck'
  BY DEF WaitersHaveCheck, NothingBeforeStart
<1>3. HealthyIsRunning'
  BY DEF HealthyIsRunning, HealthMain, NothingBeforeStart, NothingAfterDrain
<1>4. OneReadInFlight'
  BY DEF OneReadInFlight, NothingBeforeStart
<1>5. NothingBeforeStart'
  BY DEF NothingBeforeStart
<1>6. NothingAfterDrain'
  BY DEF NothingAfterDrain, NothingBeforeStart
<1>7. ClosedWhenQuiet'
  BY DEF ClosedWhenQuiet, NothingBeforeStart
<1> QED
  BY <1>1, <1>2, <1>3, <1>4, <1>5, <1>6, <1>7

\* The cleanup cancels what runs in the background.
LEMMA StepCleanUp ==
  ASSUME ProcessIInv, CleanUp
  PROVE  ProcessIInv'
<1> USE DEF ProcessIInv, ProcessTypeOK, process, runner, CleanUp,
       FinalReport
<1>1. ProcessTypeOK'
  OBVIOUS
<1>2. WaitersHaveCheck'
  BY DEF WaitersHaveCheck, NothingBeforeStart, NothingAfterDrain
<1>3. HealthyIsRunning'
  BY DEF HealthyIsRunning, HealthMain, NothingBeforeStart, NothingAfterDrain
<1>4. OneReadInFlight'
  BY DEF OneReadInFlight, NothingBeforeStart
<1>5. NothingBeforeStart'
  BY DEF NothingBeforeStart
<1>6. NothingAfterDrain'
  BY DEF NothingAfterDrain, NothingBeforeStart
<1>7. ClosedWhenQuiet'
  BY DEF ClosedWhenQuiet, NothingBeforeStart
<1> QED
  BY <1>1, <1>2, <1>3, <1>4, <1>5, <1>6, <1>7

\* Nothing is closed before that has ended.
LEMMA StepClose ==
  ASSUME ProcessIInv, CloseBegins \/ CloseResource \/ CloseDatabase
  \/ CleanupTimeout
  PROVE  ProcessIInv'
<1> USE DEF ProcessIInv, ProcessTypeOK, process, runner, CloseBegins,
       CloseResource, CloseDatabase, CleanupTimeout, Quiesced
<1>1. ProcessTypeOK'
  OBVIOUS
<1>2. WaitersHaveCheck'
  BY DEF WaitersHaveCheck, NothingBeforeStart
<1>3. HealthyIsRunning'
  BY DEF HealthyIsRunning, HealthMain, NothingBeforeStart, NothingAfterDrain
<1>4. OneReadInFlight'
  BY DEF OneReadInFlight, NothingBeforeStart
<1>5. NothingBeforeStart'
  BY DEF NothingBeforeStart
<1>6. NothingAfterDrain'
  BY DEF NothingAfterDrain, NothingBeforeStart
<1>7. ClosedWhenQuiet'
  BY DEF ClosedWhenQuiet, NothingBeforeStart
<1> QED
  BY <1>1, <1>2, <1>3, <1>4, <1>5, <1>6, <1>7

-----------------------------------------------------------------------------
\* The invariant holds throughout.
THEOREM ProcessInductive == ProcessSpec => []ProcessIInv
<1>1. ProcessIInv /\ [ProcessNext]_processVars => ProcessIInv'
  <2> SUFFICES ASSUME ProcessIInv, [ProcessNext]_processVars PROVE ProcessIInv'
    OBVIOUS
  <2>1. CASE UNCHANGED processVars
    BY <2>1 DEF processVars, ProcessIInv, ProcessTypeOK, WaitersHaveCheck,
           HealthyIsRunning, HealthMain,
                OneReadInFlight, NothingBeforeStart, NothingAfterDrain, ClosedWhenQuiet
  <2>2. CASE ProcessNext
    BY <2>2, StepSignal, StepCheckEnds, StepDeadline, StepBuild, StepFirstPreflight,
           StepStarted, StepHealthAsks, StepHealthReports, StepReconcile, StepLoop, StepSpawn,
           StepSlot, StepLeave, StepCleanUp, StepClose
       DEF ProcessNext, Gate, Start, Loop, Shutdown
  <2> QED
    BY <2>1, <2>2
<1> QED
  BY <1>1, InitProcess, PTL DEF ProcessSpec

\* The parts of the process agree at every point of its start and shutdown, for
\* any number of slots: nobody waits for a check that cannot answer, nothing is
\* closed under a pass or a check, a probe is told the truth and a stuck read is
\* alone (_WorkerPreflightGate, _bounded_worker_cleanup, _NotificationGate).
THEOREM ConsistentAlways == ProcessSpec => []ProcessConsistent
<1>1. ProcessIInv => ProcessConsistent
  BY DEF ProcessIInv, ProcessConsistent, ResourcesOutliveUse, ClosedWhenQuiet
<1> QED
  BY <1>1, ProcessInductive, PTL

\* Nobody else than a check that counts says yes, and who asks revives no check.
LEMMA AskOpensNothing ==
  ASSUME ProcessTypeOK, NEW v \in Callers, Ask(v)
  PROVE  /\ \A w \in Callers : caller'[w] = "yes" => caller[w] = "yes"
         /\ check.running /\ check'.running /\ check.invalid => check'.invalid
<1>1. CASE Refused
  <2>1. caller' = [Answer("no") EXCEPT ![v] = "no"]
    BY <1>1 DEF Ask
  <2>2. \A w \in Callers : caller'[w] = "yes" => caller[w] = "yes"
    BY <2>1, AnswerEffect
  <2>3. check' = [check EXCEPT !.invalid = check.running]
    BY <1>1 DEF Ask
  <2> QED
    BY <2>2, <2>3 DEF ProcessTypeOK
<1>2. CASE ~Refused
  BY <1>2 DEF Ask, Refused, ProcessTypeOK
<1> QED
  BY <1>1, <1>2

\* What a step may do to the gate.
GateStep ==
  /\ (\E w \in Callers : caller[w] # "yes" /\ caller'[w] = "yes") => ~check.past /\ ~check.invalid
  /\ check.running /\ check'.running /\ check.invalid => check'.invalid

\* Every step keeps to that.
LEMMA GateSteps ==
  ASSUME ProcessTypeOK, [ProcessNext]_processVars
  PROVE  GateStep
<1> USE DEF GateStep
<1>1. CASE \E v \in Callers : Ask(v)
  BY <1>1, AskOpensNothing
<1>2. CASE \E ok \in BOOLEAN : CheckEnds(ok)
  <2>1. PICK ok \in BOOLEAN : CheckEnds(ok)
    BY <1>2
  <2>2. check'.running = FALSE
    BY <2>1 DEF CheckEnds, ProcessTypeOK
  <2>3. CASE Verdict(ok)
    BY <2>2, <2>3 DEF Verdict
  <2>4. CASE ~Verdict(ok)
    BY <2>1, <2>2, <2>4, AnswerEffect DEF CheckEnds
  <2> QED
    BY <2>3, <2>4
<1>3. CASE DeadlinePasses \/ Expire \/ StopSeen
  <2>1. caller' = caller \/ caller' = Answer("no")
    BY <1>3 DEF DeadlinePasses, Expire, StopSeen
  <2>2. \A w \in Callers : caller'[w] = "yes" => caller[w] = "yes"
    BY <2>1, AnswerEffect
  <2>3. check.running /\ check'.running /\ check.invalid => check'.invalid
    BY <1>3 DEF DeadlinePasses, Expire, StopSeen, ProcessTypeOK
  <2> QED
    BY <2>2, <2>3
<1>4. CASE CleanUp
  BY <1>4 DEF CleanUp, ProcessTypeOK
<1>5. CASE Started \/ HealthReports \/ DrainTimeout
           \/ \E s \in RunnerSlots : SlotReports(s) \/ SlotEnds(s)
  BY <1>5 DEF Started, HealthReports, DrainTimeout,
         SlotReports, SlotEnds, ProcessTypeOK
<1>6. CASE UNCHANGED <<check, caller>>
  BY <1>6
<1> QED
  BY <1>1, <1>2, <1>3, <1>4, <1>5, <1>6
     DEF processVars, ProcessNext, Gate, Start, Loop,
            Shutdown, Signal, Build, BuildFails,
            FirstPreflight,
         HealthAsks, ReconcileStarts, ReconcileReturns,
         LoopTop, PollDue, NotificationArrives,
         NotificationTimeout, SleepEnds, StuckReadEnds, Spawn,
         IdleSlots, Leave, Drained,
         CloseBegins, CloseResource, CloseDatabase,
         CleanupTimeout

\* A report after the signal refuses.
LEMMA ReportSteps ==
  ASSUME [ProcessNext]_processVars, stopped, health' # health
  PROVE  ~health'.accepting
<1>1. CASE Started \/ HealthReports \/ \E s \in RunnerSlots : SlotReports(s)
  <2>1. PICK w : health' = Report(w)
    BY <1>1 DEF Started, HealthReports, SlotReports
  <2>2. health'.accepting = (caller[w] = "yes" /\ ~stopped)
    BY <2>1 DEF Report
  <2> QED
    BY <2>2
<1>2. CASE CleanUp
  BY <1>2 DEF CleanUp, FinalReport
<1> QED
  BY <1>1, <1>2
     DEF processVars, process, ProcessNext, Gate, Start,
            Loop, Shutdown, CheckEnds, DeadlinePasses,
            Expire,
         StopSeen, Signal, Build, BuildFails,
         FirstPreflight, HealthAsks, ReconcileStarts,
         ReconcileReturns, LoopTop, PollDue,
         NotificationArrives, NotificationTimeout, SleepEnds,
         StuckReadEnds, Spawn, SlotEnds, Leave,
         Drained, DrainTimeout, CloseBegins,
         CloseResource, CloseDatabase, CleanupTimeout

\* What comes late changes nothing: a check that ended after its deadline or was
\* given up by a waiter opens the gate for nobody, and after the signal no report
\* says that the worker takes jobs (_WorkerPreflightGate.run, checked_preflight).
THEOREM NothingLateEver == ProcessSpec => NothingLate
<1>1. ProcessIInv /\ [ProcessNext]_processVars => GateStep
  BY GateSteps DEF ProcessIInv
<1>2. [ProcessNext]_processVars => (stopped /\ health' # health => ~health'.accepting)
  BY ReportSteps
<1> QED
  BY <1>1, <1>2, ProcessInductive, PTL
     DEF ProcessSpec, NothingLate, LateCheckOpensNothing,
            NoLateAccept, GateStep
=============================================================================
