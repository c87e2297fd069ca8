----------------------------- MODULE WorkerProcess -----------------------------
(***************************************************************************)
(* The worker process around the job queue (jobs/worker.py, and the loop   *)
(* of jobs/runner.py): the resources it builds, the preflight gate that    *)
(* the start, the health task and every slot ask, the notification read    *)
(* that may ignore its cancellation, the reconciliation passes, and the    *)
(* bounded shutdown.  What a slot does with a job is JobQueue's subject.   *)
(*                                                                         *)
(* asyncio runs one task at a time: a step is the code between two awaits. *)
(* A task that is cancelled may end or ignore it.  Time is not counted:    *)
(* a deadline is a step that may come at any moment.                       *)
(***************************************************************************)
EXTENDS Naturals, FiniteSets

CONSTANTS
  RunnerSlots,      \* max_concurrency slots of the runner
  Resources   \* what the handlers need, "store" among them

ASSUME ResourcesAssumption == "store" \in Resources
ASSUME RunnerSlotsAssumption == RunnerSlots \cap {"main", "health"} = {}

VARIABLES
  phase,    \* how far _run_worker is
  stopped,  \* the stop event, set by a signal
  check,    \* the dependency check that the gate shares
  caller,   \* caller[w]: what a caller of checked_preflight is doing
  health,   \* the last health report
  loop,     \* where the runner's loop is
  pollDue,  \* the clock has passed next_poll
  notify,   \* notifications_enabled
  read,     \* the read of the notification gate
  recon,    \* the reconciliation task
  open,     \* resources that are built and not closed
  database  \* the database engine

processVars == <<phase, stopped, check, caller, health, loop, pollDue, notify, read, recon, open, database>>
process == <<phase, stopped, open, database>>
runner == <<loop, pollDue, notify, read>>

Callers == RunnerSlots \cup {"main", "health"}

ProcessInit ==
  /\ phase = "build" /\ stopped = FALSE
  /\ check = [running |-> FALSE, past |-> FALSE, invalid |-> FALSE]
  /\ caller = [w \in Callers |-> "off"]
  /\ health = [deps |-> FALSE, accepting |-> FALSE]
  /\ loop = "top" /\ pollDue = TRUE /\ notify = FALSE /\ read = "none"
  /\ recon = "off"
  /\ open = {} /\ database = "open"

\* SIGINT or SIGTERM, while the handlers are installed.
Signal ==
  /\ ~stopped /\ phase \in {"build", "preflight", "run"}
  /\ stopped' = TRUE
  /\ UNCHANGED <<phase, check, caller, health, runner, recon, open, database>>

-----------------------------------------------------------------------------
(* The preflight gate *)

\* Everyone who waits for the check gets this answer.
Answer(a) == [w \in Callers |-> IF caller[w] = "waiting" THEN a ELSE caller[w]]

\* run, up to its wait: a check that is over is replaced; one that is invalid,
\* or past its deadline, and still running keeps the gate closed.
Refused == stopped \/ (check.running /\ (check.invalid \/ check.past))

Ask(w) ==
  IF Refused
  THEN /\ check' = [check EXCEPT !.invalid = check.running]
       /\ caller' = [Answer("no") EXCEPT ![w] = "no"]
  ELSE /\ check' = IF check.running THEN check
                   ELSE [running |-> TRUE, past |-> FALSE, invalid |-> FALSE]
       /\ caller' = [caller EXCEPT ![w] = "waiting"]

\* Mutant of Verdict: a late answer counts.
VerdictLate(ok) == ok

\* An answer counts if the check ended before its deadline and nobody has
\* invalidated it.
Verdict(ok) == ok /\ ~check.past /\ ~check.invalid

\* The dependencies answer: the database, then every referenced credential.
CheckEnds(ok) ==
  /\ check.running
  /\ check' = [check EXCEPT !.running = FALSE]
  /\ caller' = Answer(IF Verdict(ok) THEN "yes" ELSE "no")
  /\ UNCHANGED <<process, health, runner, recon>>

DeadlinePasses ==
  /\ check.running /\ ~check.past
  /\ check' = [check EXCEPT !.past = TRUE]
  /\ UNCHANGED <<process, caller, health, runner, recon>>

\* The timer of the deadline.
Expire ==
  /\ check.running /\ check.past /\ ~check.invalid
  /\ check' = [check EXCEPT !.invalid = TRUE]
  /\ caller' = Answer("no")
  /\ UNCHANGED <<process, health, runner, recon>>

\* A waiter sees the stop event.
StopSeen ==
  /\ stopped /\ \E w \in Callers : caller[w] = "waiting"
  /\ check' = [check EXCEPT !.invalid = check.running]
  /\ caller' = Answer("no")
  /\ UNCHANGED <<process, health, runner, recon>>

\* checked_preflight after the gate: the health file, and the answer.
Report(w) == [deps |-> caller[w] = "yes", accepting |-> caller[w] = "yes" /\ ~stopped]

\* velox-worker-health: the report, while the process is there.
HealthMain == health.deps /\ health.accepting /\ phase # "exited"

-----------------------------------------------------------------------------
(* Start *)

\* _build_default_handler_runtime, one resource after the other.
Build ==
  /\ phase = "build" /\ open # Resources
  /\ \E r \in Resources \ open : open' = open \cup {r}
  /\ UNCHANGED <<phase, stopped, check, caller, health, runner, recon, database>>

\* A failure closes what was built.
BuildFails ==
  /\ phase = "build" /\ open # Resources
  /\ open' = {}
  /\ phase' = "clean"
  /\ UNCHANGED <<stopped, check, caller, health, runner, recon, database>>

FirstPreflight ==
  /\ phase = "build" /\ open = Resources
  /\ phase' = "preflight"
  /\ Ask("main")
  /\ UNCHANGED <<stopped, health, runner, recon, open, database>>

\* The tasks start; the subscription to notifications may fail.
Started ==
  /\ caller["main"] \in {"yes", "no"}
  /\ health' = Report("main")
  /\ IF Report("main").accepting
     THEN /\ phase' = "run"
          /\ caller' = [caller EXCEPT !["main"] = "off", !["health"] = "idle"]
          /\ recon' = "idle"
          /\ notify' \in BOOLEAN
     ELSE /\ phase' = "clean"
          /\ caller' = [caller EXCEPT !["main"] = "off"]
          /\ UNCHANGED <<recon, notify>>
  /\ UNCHANGED <<stopped, check, loop, pollDue, read, open, database>>

-----------------------------------------------------------------------------
(* The periodic tasks *)

HealthAsks ==
  /\ caller["health"] = "idle" /\ ~stopped /\ phase = "run"
  /\ Ask("health")
  /\ UNCHANGED <<process, health, runner, recon>>

HealthReports ==
  /\ caller["health"] \in {"yes", "no"}
  /\ health' = Report("health")
  /\ caller' = [caller EXCEPT !["health"] = "idle"]
  /\ UNCHANGED <<process, check, runner, recon>>

\* A pass calls MinIO, Qdrant and the database; its failures are swallowed.
ReconcileStarts ==
  /\ recon = "idle" /\ ~stopped /\ phase = "run"
  /\ recon' = "calling"
  /\ UNCHANGED <<process, check, caller, health, runner>>

ReconcileReturns ==
  /\ recon = "calling"
  /\ recon' = IF phase \in {"barrier", "closing", "exited"} THEN "off" ELSE "idle"
  /\ UNCHANGED <<process, check, caller, health, runner>>

-----------------------------------------------------------------------------
(* The runner's loop *)

IdleSlots == {s \in RunnerSlots : caller[s] = "off"}

\* With all slots busy the loop waits for one of them.
LoopTop ==
  /\ phase = "run" /\ loop = "top" /\ ~stopped /\ IdleSlots # {}
  /\ loop' = IF pollDue THEN "spawn" ELSE IF notify THEN "notify" ELSE "sleep"
  /\ pollDue' = FALSE
  /\ read' = IF ~pollDue /\ notify THEN "waiting" ELSE read
  /\ UNCHANGED <<process, check, caller, health, notify, recon>>

PollDue ==
  /\ phase = "run" /\ ~pollDue /\ loop # "spawn"
  /\ pollDue' = TRUE
  /\ UNCHANGED <<process, check, caller, health, loop, notify, read, recon>>

\* A message names a job; anything else, and an error, only costs the wake-up.
NotificationArrives ==
  /\ loop = "notify" /\ read = "waiting"
  /\ read' = "none"
  /\ \/ loop' = "spawn" /\ notify' = notify
     \/ loop' = "top" /\ notify' = FALSE
  /\ UNCHANGED <<process, check, caller, health, pollDue, recon>>

DropWhenStuck(ended) == IF ended THEN notify ELSE FALSE

\* Mutant of NotificationTimeout: the read that was cancelled is awaited.
NotificationAwaited ==
  /\ loop = "notify" /\ pollDue /\ read = "none"
  /\ loop' = "spawn"
  /\ UNCHANGED <<process, check, caller, health, pollDue, notify, read, recon>>

\* The deadline of the poll: a read that ends when cancelled leaves the gate
\* usable, one that does not is left behind and no other is started.
NotificationTimeout ==
  /\ loop = "notify" /\ pollDue
  /\ \E ended \in BOOLEAN :
       /\ read' = IF ended THEN "none" ELSE "stuck"
       /\ notify' = DropWhenStuck(ended)
       /\ loop' = IF ended THEN "spawn" ELSE "top"
       /\ pollDue' = ~ended
  /\ UNCHANGED <<process, check, caller, health, recon>>

SleepEnds ==
  /\ loop = "sleep" /\ pollDue
  /\ loop' = "spawn" /\ pollDue' = FALSE
  /\ UNCHANGED <<process, check, caller, health, notify, read, recon>>

StuckReadEnds ==
  /\ read = "stuck"
  /\ read' = "none"
  /\ UNCHANGED <<process, check, caller, health, loop, pollDue, notify, recon>>

\* run_once as a task of its own: first the gate.
Spawn ==
  /\ phase = "run" /\ loop = "spawn" /\ ~stopped
  /\ \E s \in IdleSlots : Ask(s)
  /\ loop' = "top"
  /\ UNCHANGED <<process, health, pollDue, notify, read, recon>>

SlotReports(s) ==
  /\ caller[s] \in {"yes", "no"}
  /\ health' = Report(s)
  /\ caller' = [caller EXCEPT ![s] = IF Report(s).accepting THEN "work" ELSE "off"]
  /\ UNCHANGED <<process, check, runner, recon>>

SlotEnds(s) ==
  /\ caller[s] \in {"work", "detached"}
  /\ caller' = [caller EXCEPT ![s] = "off"]
  /\ UNCHANGED <<process, check, health, runner, recon>>

-----------------------------------------------------------------------------
(* Shutdown *)

\* The loop leaves; a read under way is cancelled.
Leave ==
  /\ phase = "run" /\ stopped
  /\ phase' = "drain"
  /\ loop' = "end"
  /\ \E r \in {"none", "stuck"} : read' = IF read = "none" THEN "none" ELSE r
  /\ UNCHANGED <<stopped, check, caller, health, pollDue, notify, recon, open, database>>

Drained ==
  /\ phase = "drain" /\ IdleSlots = RunnerSlots
  /\ phase' = "clean"
  /\ UNCHANGED <<stopped, check, caller, health, runner, recon, open, database>>

\* shutdown_seconds are over: the slots are cancelled, the ones in a handler
\* that ignores it are detached.
DrainTimeout ==
  /\ phase = "drain" /\ IdleSlots # RunnerSlots
  /\ phase' = "clean"
  /\ \E D \in SUBSET {s \in RunnerSlots : caller[s] = "work"} :
       caller' = [w \in Callers |-> IF w \in D THEN "detached"
                                    ELSE IF w \in RunnerSlots THEN "off" ELSE caller[w]]
  /\ UNCHANGED <<stopped, check, health, runner, recon, open, database>>

\* The last report; then every background task is cancelled at once.
FinalReport(h) == [h EXCEPT !.accepting = FALSE]

CleanUp ==
  /\ phase = "clean"
  /\ phase' = "barrier"
  /\ health' = FinalReport(health)
  /\ caller' = [caller EXCEPT !["health"] = "off"]
  /\ check' = [check EXCEPT !.invalid = check.running]
  /\ recon' = IF recon = "calling" THEN recon ELSE "off"
  /\ UNCHANGED <<stopped, runner, open, database>>

\* Mutant of Quiesced: nobody is waited for.
QuiescedUnchecked == TRUE

\* What the handlers use is closed only when nothing in the background can
\* still be using it.
Quiesced == ~check.running /\ recon = "off"

CloseBegins ==
  /\ phase = "barrier" /\ Quiesced
  /\ phase' = "closing"
  /\ UNCHANGED <<stopped, check, caller, health, runner, recon, open, database>>

\* The connection pool of MinIO goes with the store, after it; the rest is
\* closed in any order, whether or not a close fails.
CloseResource ==
  /\ phase = "closing"
  /\ \E r \in open : open' = open \ {r}
  /\ UNCHANGED <<phase, stopped, check, caller, health, runner, recon, database>>

CloseDatabase ==
  /\ phase = "closing" /\ open = {}
  /\ database' = "closed"
  /\ phase' = "exited"
  /\ UNCHANGED <<stopped, check, caller, health, runner, recon, open>>

\* One deadline for all of it; the event loop is then closed over what is left.
CleanupTimeout ==
  /\ phase \in {"barrier", "closing"}
  /\ phase' = "exited"
  /\ UNCHANGED <<stopped, check, caller, health, runner, recon, open, database>>

-----------------------------------------------------------------------------
Gate == (\E ok \in BOOLEAN : CheckEnds(ok)) \/ DeadlinePasses \/ Expire \/ StopSeen
Start == Build \/ BuildFails \/ FirstPreflight \/ Started
Loop ==
  \/ LoopTop \/ PollDue \/ NotificationArrives \/ NotificationTimeout \/ SleepEnds
  \/ StuckReadEnds \/ Spawn
Shutdown ==
  \/ Leave \/ Drained \/ DrainTimeout \/ CleanUp \/ CloseBegins \/ CloseResource
  \/ CloseDatabase \/ CleanupTimeout

ProcessNext ==
  \/ Signal \/ Gate \/ Start \/ HealthAsks \/ HealthReports \/ ReconcileStarts \/ ReconcileReturns
  \/ Loop \/ Shutdown
  \/ \E s \in RunnerSlots : SlotReports(s) \/ SlotEnds(s)

\* The event loop runs what is ready and the clock goes on.  Nothing obliges a
\* check, a read, a reconciliation pass or a cancelled task to end.
ProcessSpec ==
  /\ ProcessInit /\ [][ProcessNext]_processVars
  /\ WF_processVars(DeadlinePasses) /\ WF_processVars(Expire) /\ WF_processVars(StopSeen)
  /\ WF_processVars(Start) /\ WF_processVars(HealthReports)
  /\ WF_processVars(LoopTop) /\ WF_processVars(PollDue) /\ WF_processVars(NotificationTimeout)
  /\ WF_processVars(SleepEnds) /\ WF_processVars(Spawn)
  /\ \A s \in RunnerSlots : WF_processVars(SlotReports(s)) /\ WF_processVars(SlotEnds(s))
  /\ WF_processVars(Shutdown)

-----------------------------------------------------------------------------
(* Properties *)

\* Values of the right kind; the health task lives from the start of the runner
\* to the cleanup.
ProcessTypeOK ==
  /\ phase \in {"build", "preflight", "run", "drain", "clean", "barrier", "closing", "exited"}
  /\ stopped \in BOOLEAN /\ pollDue \in BOOLEAN /\ notify \in BOOLEAN
  /\ check \in [running : BOOLEAN, past : BOOLEAN, invalid : BOOLEAN]
  /\ caller \in [Callers -> {"off", "idle", "waiting", "yes", "no", "work", "detached"}]
  /\ health \in [deps : BOOLEAN, accepting : BOOLEAN]
  /\ loop \in {"top", "notify", "sleep", "spawn", "end"} /\ read \in {"none", "waiting", "stuck"}
  /\ recon \in {"off", "idle", "calling"}
  /\ caller["health"] # "off" => phase \in {"run", "drain", "clean"}
  /\ open \subseteq Resources /\ database \in {"open", "closed"}

\* A caller waits only for a check that runs and may still count: nobody is
\* left with a check that was invalidated or is over (_WorkerPreflightGate.run).
WaitersHaveCheck ==
  (\E w \in Callers : caller[w] = "waiting") => check.running /\ ~check.invalid

\* A check that ends after its deadline, or after another caller gave up on it,
\* opens the gate for nobody, and its successor starts only when it is over.
LateCheckOpensNothing ==
  [][ /\ (\E w \in Callers : caller[w] # "yes" /\ caller'[w] = "yes") => ~check.past /\ ~check.invalid
      /\ check.running /\ check'.running /\ check.invalid => check'.invalid ]_processVars

\* After the signal no report says that the worker takes jobs, whatever check
\* is answered late (checked_preflight).
NoLateAccept ==
  [][ stopped /\ health' # health => ~health'.accepting ]_processVars

\* What comes late changes nothing: neither a late answer of the dependencies
\* nor a late report.
NothingLate == LateCheckOpensNothing /\ NoLateAccept

\* A probe that finds the worker healthy finds one that has not begun to close
\* what its handlers need.
HealthyIsRunning == HealthMain => phase \in {"run", "drain", "clean"}

\* The database and the clients are closed under no reconciliation pass and no
\* dependency check (_bounded_worker_cleanup).
ResourcesOutliveUse ==
  open # Resources \/ database = "closed" => recon # "calling" /\ ~check.running

\* A read that ignored its cancellation is never joined by a second one
\* (_NotificationGate.wait).
OneReadInFlight == read = "stuck" => loop = "end" \/ (loop # "notify" /\ ~notify)

\* The parts of the process agree on what is under way, at every point of its
\* start and its shutdown: who waits for which check, who reads, what is open
\* and what the probe is told.
ProcessConsistent ==
  /\ ProcessTypeOK
  /\ WaitersHaveCheck
  /\ HealthyIsRunning
  /\ ResourcesOutliveUse
  /\ OneReadInFlight

\* Whoever asks the gate gets an answer, though the check may hang for ever.
GateAnswers == \A w \in Callers : caller[w] = "waiting" ~> caller[w] # "waiting"

\* The loop goes on starting slots, with or without notifications and whatever
\* becomes of a read, as long as handlers return.
KeepsPolling == phase = "run" ~> (loop = "spawn" \/ stopped)

\* A signal ends the process, though checks, reads, passes and handlers may
\* ignore their cancellation.
StopsInTime == stopped ~> phase = "exited"

\* Nothing that hangs stops the process: callers get answers, the loop polls,
\* and a signal ends it.
ProcessResponds == GateAnswers /\ KeepsPolling /\ StopsInTime
================================================================================
