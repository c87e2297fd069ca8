------------------------- MODULE EmbeddingAdmission -------------------------
(***************************************************************************)
(* Admission of requests to the embedding providers (EmbeddingGateway):    *)
(* every provider configuration has a limit state with a FIFO of tickets,  *)
(* a count of calls under way and a token bucket; the gateway keeps a      *)
(* bounded registry of these states and drops one only when that forgets   *)
(* nothing.  A request may be cancelled wherever it waits.                 *)
(*                                                                         *)
(* The gateway lives on one event loop and no block under a condition      *)
(* awaits anything but the condition itself, so each block is one action.  *)
(* Time comes in ticks, Grain of them to the minute and Grain parts to a   *)
(* token, so a bucket of n tokens gains n parts a tick and is full after   *)
(* one minute.  A sleep may end at any time, for the sleeper looks again;  *)
(* the events ticket.wake and _limit_states_wake, which only end a sleep   *)
(* early, are therefore left out.                                          *)
(***************************************************************************)
EXTENDS Naturals, Sequences, FiniteSets

CONSTANTS
  Requests,   \* calls of _execute
  Providers,  \* provider_config_id
  States,     \* _ProviderLimitState objects
  Limits,     \* values of max_concurrency
  Rates,      \* values of requests_per_minute
  MaxStates,  \* max_provider_states
  Grain,      \* ticks to a minute, parts to a token
  None        \* no provider, no state

ASSUME NoneAssumption == None \notin Providers /\ None \notin States
ASSUME SizesAssumption ==
  /\ Limits \subseteq Nat \ {0} /\ Rates \subseteq Nat \ {0}
  /\ MaxStates \in Nat \ {0} /\ Grain \in Nat \ {0}
ASSUME RequestsAssumption == IsFiniteSet(Requests)
\* requests_per_minute BETWEEN 1 AND 1000000
ASSUME RatesAssumption == \E n \in Rates : \A m \in Rates : m <= n

VARIABLES
  registry,  \* _limit_states
  states,    \* the limit states
  requests,  \* where each request stands and what it holds
  level      \* history: per provider, the parts of tokens taken and not yet
             \* earned back, whatever the gateway remembers of them

vars == <<registry, states, requests, level>>

-----------------------------------------------------------------------------
\* rate_tokens is None exactly while rate_capacity is 0, and rate_per_minute is
\* always the capacity.  elapsed is the time since rate_updated_at.
LimitState ==
  [queue : Seq(Requests), waiters : Nat, active : Nat, references : Nat,
   capacity : Rates \cup {0}, tokens : Nat, elapsed : 0 .. Grain]

NewState ==
  [queue |-> <<>>, waiters |-> 0, active |-> 0, references |-> 0,
   capacity |-> 0, tokens |-> 0, elapsed |-> 0]

Waiting == {"contend", "turnWait", "rateSleep", "removing"}
InFlight == {"admitted", "calling", "refunding", "releasing"}
Holding == {"referenced", "leaving"} \cup Waiting \cup InFlight
Pc == {"new", "lookup", "registryWait", "registrySleep", "done"} \cup Holding

Request == [pc : Pc, provider : Providers \cup {None}, state : States \cup {None},
            limit : Limits \cup {0}, rate : Rates \cup {0}]

NewRequest == [pc |-> "new", provider |-> None, state |-> None, limit |-> 0, rate |-> 0]

Init ==
  /\ registry = [p \in Providers |-> None]
  /\ states = [s \in States |-> NewState]
  /\ requests = [r \in Requests |-> NewRequest]
  /\ level = [p \in Providers |-> 0]

-----------------------------------------------------------------------------
At(r, pc) == requests[r].pc = pc
StateOf(r) == requests[r].state
Mine(r) == states[StateOf(r)]
SetState(s, v) == states' = [states EXCEPT ![s] = v]

\* Request r at pc.  Nothing is kept of a request that has ended.
Moved(r, pc) ==
  IF pc = "done" THEN [NewRequest EXCEPT !.pc = "done"] ELSE [requests[r] EXCEPT !.pc = pc]

Goto(r, pc) == requests' = [requests EXCEPT ![r] = Moved(r, pc)]

\* notify_all of a state's condition and of the registry's.
TurnWaiters(s) == {q \in Requests : At(q, "turnWait") /\ StateOf(q) = s}
RegistryWaiters == {q \in Requests : At(q, "registryWait")}
Again == [turnWait |-> "contend", registryWait |-> "lookup"]

\* Request r goes on to pc and those in woken look again.
GoWaking(r, pc, woken) ==
  requests' = [q \in Requests |->
    IF q = r THEN Moved(r, pc)
    ELSE IF q \in woken THEN [requests[q] EXCEPT !.pc = Again[@]]
    ELSE requests[q]]

Least(a, b) == IF a < b THEN a ELSE b
Less(a, b) == IF a < b THEN 0 ELSE a - b

-----------------------------------------------------------------------------
(* The token bucket, filled when it is looked at.                           *)

Full(st) == st.capacity * Grain

\* _refill_existing_rate.
Refilled(st) ==
  [st EXCEPT !.tokens = Least(Full(st), st.tokens + st.elapsed * st.capacity),
             !.elapsed = 0]

\* _refresh_rate with n requests per minute.
Refreshed(st, n) ==
  IF st.capacity = 0
  THEN [st EXCEPT !.capacity = n, !.tokens = n * Grain, !.elapsed = 0]
  ELSE [Refilled(st) EXCEPT !.capacity = n, !.tokens = Least(@, n * Grain)]

-----------------------------------------------------------------------------
(* The registry.                                                            *)

Unused(st) == st.references = 0 /\ st.active = 0 /\ st.waiters = 0 /\ st.queue = <<>>

\* Mutant of Reclaimable: requests that hold a reference and have no ticket
\* yet are forgotten.
ReclaimableHeld(st) ==
  /\ st.active = 0 /\ st.waiters = 0 /\ st.queue = <<>>
  /\ st.capacity = 0 \/ Refilled(st).tokens = Full(st)

\* _reclaim_delay is zero.
Reclaimable(st) ==
  Unused(st) /\ (st.capacity = 0 \/ Refilled(st).tokens = Full(st))

\* _prune_reclaimable_states.
Pruned ==
  [p \in Providers |->
     IF registry[p] # None /\ Reclaimable(states[registry[p]]) THEN None ELSE registry[p]]

\* A dropped state that nobody holds is garbage and its name is free again.
InUse(s) == (\E p \in Providers : Pruned[p] = s) \/ (\E q \in Requests : StateOf(q) = s)
Collected == [s \in States |-> IF InUse(s) THEN states[s] ELSE NewState]

Registered(reg) == {p \in Providers : reg[p] # None}

\* A call of embed or probe_dimension.
Start(r) ==
  /\ At(r, "new")
  /\ \E p \in Providers, c \in Limits, n \in Rates :
       requests' = [requests EXCEPT ![r] = [pc |-> "lookup", provider |-> p, state |-> None,
                                            limit |-> c, rate |-> n]]
  /\ UNCHANGED <<registry, states, level>>

\* _limit_state finds the state.
FindState(r) ==
  LET s == registry[requests[r].provider] IN
  /\ At(r, "lookup") /\ s # None
  /\ SetState(s, [states[s] EXCEPT !.references = @ + 1])
  /\ requests' = [requests EXCEPT ![r].pc = "referenced", ![r].state = s]
  /\ UNCHANGED <<registry, level>>

\* _limit_state creates it, in the room that pruning leaves.
CreateState(r) ==
  LET p == requests[r].provider
      s == CHOOSE s \in States : ~InUse(s)
  IN
  /\ At(r, "lookup") /\ registry[p] = None
  /\ Cardinality(Registered(Pruned)) < MaxStates
  /\ \E t \in States : ~InUse(t)
  /\ registry' = [Pruned EXCEPT ![p] = s]
  /\ states' = [Collected EXCEPT ![s].references = 1]
  /\ requests' = [requests EXCEPT ![r].pc = "referenced", ![r].state = s]
  /\ UNCHANGED level

\* _limit_state finds no room: it sleeps until an unused state is due, or waits
\* for a notification when every state is in use.
RegistryFull(r) ==
  /\ At(r, "lookup") /\ registry[requests[r].provider] = None
  /\ Cardinality(Registered(Pruned)) >= MaxStates
  /\ registry' = Pruned
  /\ Goto(r, IF \E p \in Registered(Pruned) : Unused(states[Pruned[p]])
             THEN "registrySleep" ELSE "registryWait")
  /\ states' = Collected
  /\ UNCHANGED level

\* _wait_for_registry_or_state_change returns.
RegistrySleepEnds(r) ==
  /\ At(r, "registrySleep") /\ Goto(r, "lookup")
  /\ UNCHANGED <<registry, states, level>>

-----------------------------------------------------------------------------
(* Admission.                                                               *)

\* _admit appends its ticket.
Enqueue(r) ==
  /\ At(r, "referenced")
  /\ SetState(StateOf(r), [Mine(r) EXCEPT !.queue = Append(@, r), !.waiters = @ + 1])
  /\ GoWaking(r, "contend", TurnWaiters(StateOf(r)))
  /\ UNCHANGED <<registry, level>>

MyTurn(r) == Head(Mine(r).queue) = r /\ Mine(r).active < requests[r].limit

\* One round of _admit: the head takes a slot and a token together, or sleeps
\* until the bucket has one; the others wait.
Contend(r) ==
  LET st == Refreshed(Mine(r), requests[r].rate) IN
  /\ At(r, "contend")
  /\ \/ /\ ~MyTurn(r)
        /\ Goto(r, "turnWait") /\ UNCHANGED <<states, level>>
     \/ /\ MyTurn(r) /\ st.tokens < Grain
        /\ SetState(StateOf(r), st)
        /\ Goto(r, "rateSleep") /\ UNCHANGED level
     \/ /\ MyTurn(r) /\ st.tokens >= Grain
        /\ SetState(StateOf(r), [st EXCEPT !.queue = Tail(@), !.waiters = @ - 1,
                                           !.active = @ + 1, !.tokens = @ - Grain])
        /\ level' = [level EXCEPT ![requests[r].provider] = @ + Grain]
        /\ GoWaking(r, "admitted", TurnWaiters(StateOf(r)))
  /\ UNCHANGED registry

\* _wait_for_rate_or_state_change returns.
RateSleepEnds(r) ==
  /\ At(r, "rateSleep") /\ Goto(r, "contend")
  /\ UNCHANGED <<registry, states, level>>

-----------------------------------------------------------------------------
(* The call and the way out.                                                *)

\* The credential is there and the transport is called.
Attempt(r) ==
  /\ At(r, "admitted") /\ Goto(r, "calling")
  /\ UNCHANGED <<registry, states, level>>

\* The credential is missing, unreadable or invalid: nothing was sent.
CredentialFails(r) ==
  /\ At(r, "admitted") /\ Goto(r, "refunding")
  /\ UNCHANGED <<registry, states, level>>

\* The provider answers, fails or times out.
CallEnds(r) ==
  /\ At(r, "calling") /\ Goto(r, "releasing")
  /\ UNCHANGED <<registry, states, level>>

\* Where a cancellation leads: the cleanup still owed.  Cleanup itself runs in
\* tasks of its own and is not cancelled.
Unwinding ==
  [registryWait |-> "done", registrySleep |-> "done", referenced |-> "leaving",
   contend |-> "removing", turnWait |-> "removing", rateSleep |-> "removing",
   admitted |-> "refunding", calling |-> "releasing"]

\* The task is cancelled.
Cancel(r) ==
  /\ requests[r].pc \in DOMAIN Unwinding
  /\ Goto(r, Unwinding[requests[r].pc])
  /\ UNCHANGED <<registry, states, level>>

\* queue.remove(ticket)
Without(queue, r) ==
  LET i == CHOOSE i \in 1..Len(queue) : queue[i] = r
  IN [j \in 1..(Len(queue) - 1) |-> IF j < i THEN queue[j] ELSE queue[j + 1]]

\* Mutant of RemoveTicket: nobody is told.
RemoveSilently(r) ==
  /\ At(r, "removing")
  /\ SetState(StateOf(r), [Mine(r) EXCEPT !.queue = Without(@, r), !.waiters = @ - 1])
  /\ Goto(r, "leaving")
  /\ UNCHANGED <<registry, level>>

\* remove_unadmitted_ticket.
RemoveTicket(r) ==
  /\ At(r, "removing")
  /\ SetState(StateOf(r), [Mine(r) EXCEPT !.queue = Without(@, r), !.waiters = @ - 1])
  /\ GoWaking(r, "leaving", TurnWaiters(StateOf(r)))
  /\ UNCHANGED <<registry, level>>

\* _refund_rate_limit.
Refund(r) ==
  LET st == Refilled(Mine(r)) IN
  /\ At(r, "refunding")
  /\ SetState(StateOf(r), [st EXCEPT !.tokens = Least(Full(st), @ + Grain)])
  /\ level' = [level EXCEPT ![requests[r].provider] = Less(@, Grain)]
  /\ GoWaking(r, "releasing", TurnWaiters(StateOf(r)) \cup RegistryWaiters)
  /\ UNCHANGED registry

\* _release_concurrency.
Release(r) ==
  /\ At(r, "releasing")
  /\ SetState(StateOf(r), [Mine(r) EXCEPT !.active = @ - 1])
  /\ GoWaking(r, "leaving", TurnWaiters(StateOf(r)) \cup RegistryWaiters)
  /\ UNCHANGED <<registry, level>>

\* _release_state_reference.
Leave(r) ==
  /\ At(r, "leaving")
  /\ SetState(StateOf(r), [Mine(r) EXCEPT !.references = @ - 1])
  /\ GoWaking(r, "done", RegistryWaiters)
  /\ UNCHANGED <<registry, level>>

-----------------------------------------------------------------------------
TopRate == CHOOSE n \in Rates : \A m \in Rates : m <= n

\* A tick of the clock.  After a minute every bucket is full.
Tick ==
  /\ states' = [s \in States |->
       IF states[s].capacity = 0 THEN states[s]
       ELSE [states[s] EXCEPT !.elapsed = Least(Grain, @ + 1)]]
  /\ level' = [p \in Providers |-> Less(level[p], TopRate)]
  /\ UNCHANGED <<registry, requests>>

RequestStep(r) ==
  \/ FindState(r) \/ CreateState(r) \/ RegistryFull(r) \/ RegistrySleepEnds(r)
  \/ Enqueue(r) \/ Contend(r) \/ RateSleepEnds(r)
  \/ Attempt(r) \/ CredentialFails(r) \/ CallEnds(r)
  \/ RemoveTicket(r) \/ Refund(r) \/ Release(r) \/ Leave(r)

Next == (\E r \in Requests : Start(r) \/ RequestStep(r) \/ Cancel(r)) \/ Tick

\* Ready tasks run, calls time out, sleeps end and the clock goes on.
Fairness == (\A r \in Requests : WF_vars(RequestStep(r))) /\ WF_vars(Tick)

Spec == Init /\ [][Next]_vars
FairSpec == Spec /\ Fairness

-----------------------------------------------------------------------------
(* Properties.                                                              *)

TypeOK ==
  /\ registry \in [Providers -> States \cup {None}]
  /\ DOMAIN states = States
  /\ \A s \in States :
       /\ DOMAIN states[s] = DOMAIN NewState
       /\ states[s].capacity \in Rates \cup {0}
       /\ states[s].tokens \in 0 .. Full(states[s])
       /\ states[s].elapsed \in 0 .. Grain
  /\ requests \in [Requests -> Request]
  /\ level \in [Providers -> Nat]

HoldersAt(s, pcs) == {r \in Requests : requests[r].pc \in pcs /\ StateOf(r) = s}

\* The books of a limit state are exact whatever was cancelled where: its
\* references, calls under way and tickets are those of the requests that hold
\* them, so no slot is lost or given back twice and no dead ticket blocks the
\* queue.
AccountsExact ==
  \A s \in States :
    LET st == states[s] IN
    /\ st.references = Cardinality(HoldersAt(s, Holding))
    /\ st.active = Cardinality(HoldersAt(s, InFlight))
    /\ {st.queue[i] : i \in DOMAIN st.queue} = HoldersAt(s, Waiting)
    /\ Len(st.queue) = Cardinality(HoldersAt(s, Waiting)) /\ st.waiters = Len(st.queue)

\* A provider never has more calls under way than the limit some of them were
\* admitted under, also when its state was dropped from the registry and
\* created anew in between.
InFlightWithinLimit ==
  \A p \in Providers :
    LET flying == {r \in Requests : requests[r].provider = p /\ requests[r].pc \in InFlight}
    IN  flying # {} => \E r \in flying : Cardinality(flying) <= requests[r].limit

\* The gateway never admits more than a token bucket of the provider's rate
\* allows, counting refunds and states that were dropped and created anew, as
\* long as requests_per_minute is not changed.
RateRespected ==
  (\A n, m \in Rates : n = m) => \A p \in Providers : level[p] <= TopRate * Grain

\* The limits of a provider hold and are accounted for to the last slot, ticket
\* and token, whoever was cancelled where and whatever was reclaimed.
LimitsRespected == TypeOK /\ AccountsExact /\ InFlightWithinLimit /\ RateRespected

\* Every request ends, with free slots, full queues, a full registry, refunds
\* and cancellations of whoever was ahead.
EveryRequestEnds == \A r \in Requests : At(r, "lookup") ~> At(r, "done")
=============================================================================
