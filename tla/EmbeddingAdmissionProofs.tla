--------------------- MODULE EmbeddingAdmissionProofs ----------------------
(***************************************************************************)
(* Proofs about the admission to the embedding providers, for any number   *)
(* of requests, providers, limit states, limits and rates.                 *)
(***************************************************************************)
EXTENDS EmbeddingAdmission, FiniteSetTheorems, TLAPS

\* What a request may hold of a state: a reference, a ticket, a slot.
Classes == {Holding, Waiting, InFlight}

\* Values of the right kind; a bucket holds no more than its capacity.
Typed ==
  /\ registry \in [Providers -> States \cup {None}]
  /\ states \in [States -> LimitState]
  /\ \A s \in States : states[s].tokens <= Full(states[s])
  /\ requests \in [Requests -> Request]
  /\ level \in [Providers -> Nat]

\* A request that holds a limit state holds the one its provider is registered
\* with: a state is dropped only when nobody holds it.
Held(r) ==
  /\ requests[r].pc \notin {"new", "done"} =>
       /\ requests[r].provider \in Providers
       /\ requests[r].limit \in Limits /\ requests[r].rate \in Rates
  /\ IF requests[r].pc \in Holding
     THEN StateOf(r) \in States /\ registry[requests[r].provider] = StateOf(r)
     ELSE StateOf(r) = None

\* A limit state belongs to one provider.
OneOwner ==
  \A p, q \in Providers : registry[p] # None /\ registry[p] = registry[q] => p = q

\* The queue has one ticket of each of them and no other.
Tickets(queue, holders) ==
  /\ \A i, j \in 1..Len(queue) : queue[i] = queue[j] => i = j
  /\ \A i \in 1..Len(queue) : queue[i] \in holders
  /\ \A r \in holders : \E i \in 1..Len(queue) : queue[i] = r

\* What a limit state says of its holders is true.
Books(s) ==
  /\ states[s].references = Cardinality(HoldersAt(s, Holding))
  /\ states[s].active = Cardinality(HoldersAt(s, InFlight))
  /\ states[s].waiters = Len(states[s].queue)
  /\ Tickets(states[s].queue, HoldersAt(s, Waiting))

\* The calls of a provider that are under way.
Flying(p) == {r \in Requests : requests[r].provider = p /\ requests[r].pc \in InFlight}

\* The last one admitted among any of them was admitted under a limit that has
\* room for all of them.
Limited(p) ==
  \A F \in SUBSET Flying(p) : F # {} => \E r \in F : Cardinality(F) <= requests[r].limit

\* What was taken from the bucket and not yet earned back is missing in it.
Earned(p) ==
  IF registry[p] = None \/ states[registry[p]].capacity = 0 THEN level[p] = 0
  ELSE level[p] + Refilled(states[registry[p]]).tokens <= Full(states[registry[p]])

\* requests_per_minute is not changed.
OneRate == \A n, m \in Rates : n = m

\* The inductive invariant.
IInv ==
  /\ Typed /\ OneOwner
  /\ \A r \in Requests : Held(r)
  /\ \A s \in States : Books(s)
  /\ \A p \in Providers : Limited(p)
  /\ OneRate => \A p \in Providers : Earned(p)

-----------------------------------------------------------------------------
USE NoneAssumption, SizesAssumption
USE DEF At, StateOf, Mine, SetState

\* Requests are finitely many, so holders can be counted.
LEMMA HoldersFinite ==
  ASSUME NEW s, NEW C
  PROVE  IsFiniteSet(HoldersAt(s, C)) /\ Cardinality(HoldersAt(s, C)) \in Nat
<1>1. HoldersAt(s, C) \subseteq Requests
  BY DEF HoldersAt
<1> QED
  BY <1>1, RequestsAssumption, FS_Subset, FS_CardinalityType

\* The highest rate is one.
LEMMA TopRateIs == TopRate \in Rates /\ \A m \in Rates : m <= TopRate
BY RatesAssumption DEF TopRate

-----------------------------------------------------------------------------
(* How requests move *)

\* The others keep what they hold; one that waited may look again.
Others(r) ==
  /\ requests' \in [Requests -> Request]
  /\ \A q \in Requests \ {r} :
       /\ requests'[q].provider = requests[q].provider
       /\ requests'[q].state = requests[q].state
       /\ requests'[q].limit = requests[q].limit /\ requests'[q].rate = requests[q].rate
       /\ requests'[q].pc \in Holding <=> requests[q].pc \in Holding
       /\ requests'[q].pc \in Waiting <=> requests[q].pc \in Waiting
       /\ requests'[q].pc \in InFlight <=> requests[q].pc \in InFlight
       /\ requests'[q].pc \in {"new", "done"} <=> requests[q].pc \in {"new", "done"}

\* A request that moves on keeps what it asked for and holds.
LEMMA MovedIs ==
  ASSUME Typed, NEW r \in Requests, NEW pc \in Pc, pc # "done"
  PROVE  /\ Moved(r, pc) \in Request /\ Moved(r, pc).pc = pc
         /\ Moved(r, pc).provider = requests[r].provider /\ Moved(r, pc).state = requests[r].state
         /\ Moved(r, pc).limit = requests[r].limit /\ Moved(r, pc).rate = requests[r].rate
<1>1. requests[r] \in Request
  BY DEF Typed
<1>2. Moved(r, pc) = [requests[r] EXCEPT !.pc = pc]
  BY DEF Moved
<1> QED
  BY <1>1, <1>2 DEF Request

\* One that ends keeps nothing.
LEMMA DoneIs ==
  ASSUME NEW r
  PROVE  /\ Moved(r, "done") \in Request
         /\ Moved(r, "done").pc = "done" /\ Moved(r, "done").state = None
BY DEF Moved, NewRequest, Request, Pc

\* A step of one request alone.
LEMMA GotoMoves ==
  ASSUME Typed, NEW r \in Requests, NEW pc \in Pc, Goto(r, pc)
  PROVE  Others(r) /\ requests'[r] = Moved(r, pc)
<1>1. Moved(r, pc) \in Request
  BY MovedIs, DoneIs
<1>2. requests \in [Requests -> Request]
  BY DEF Typed
<1> QED
  BY <1>1, <1>2 DEF Goto, Others

\* A step that wakes others.
LEMMA WakingMoves ==
  ASSUME Typed, NEW r \in Requests, NEW pc \in Pc, NEW woken,
         \A q \in woken : q \in Requests /\ requests[q].pc \in {"turnWait", "registryWait"},
         GoWaking(r, pc, woken)
  PROVE  Others(r) /\ requests'[r] = Moved(r, pc)
<1>1. Moved(r, pc) \in Request
  BY MovedIs, DoneIs
<1>2. requests \in [Requests -> Request]
  BY DEF Typed
<1>3. ASSUME NEW q \in Requests, q \in woken
      PROVE  /\ Again[requests[q].pc] \in {"contend", "lookup"}
             /\ requests[q].pc = "turnWait" => Again[requests[q].pc] = "contend"
             /\ requests[q].pc = "registryWait" => Again[requests[q].pc] = "lookup"
  BY <1>3 DEF Again
<1>4. requests' = [q \in Requests |->
         IF q = r THEN Moved(r, pc)
         ELSE IF q \in woken THEN [requests[q] EXCEPT !.pc = Again[requests[q].pc]]
         ELSE requests[q]]
  BY <1>2 DEF GoWaking, Request
<1>5. ASSUME NEW q \in Requests \ {r}, q \in woken
      PROVE  /\ requests'[q] \in Request
             /\ requests'[q].provider = requests[q].provider
             /\ requests'[q].state = requests[q].state
             /\ requests'[q].limit = requests[q].limit /\ requests'[q].rate = requests[q].rate
             /\ requests'[q].pc = Again[requests[q].pc]
  <2>1. PICK next \in Pc : next = Again[requests[q].pc]
    BY <1>3, <1>5 DEF Pc, Holding, Waiting
  <2>2. requests'[q] = [requests[q] EXCEPT !.pc = next] /\ requests[q] \in Request
    BY <1>2, <1>4, <1>5, <2>1
  <2> QED
    BY <2>1, <2>2 DEF Request
<1>6. /\ requests'[r] = Moved(r, pc)
      /\ \A q \in Requests \ {r} : q \notin woken => requests'[q] = requests[q]
  BY <1>4
<1>7. requests' \in [Requests -> Request]
  <2>1. \A q \in Requests : requests'[q] \in Request
    BY <1>1, <1>2, <1>5, <1>6
  <2>2. requests' = [q \in Requests |-> requests'[q]]
    BY <1>4
  <2> QED
    BY <2>1, <2>2
<1>8. ASSUME NEW q \in Requests \ {r}, q \in woken
      PROVE  /\ requests'[q].pc \in Holding <=> requests[q].pc \in Holding
             /\ requests'[q].pc \in Waiting <=> requests[q].pc \in Waiting
             /\ requests'[q].pc \in InFlight <=> requests[q].pc \in InFlight
             /\ requests'[q].pc \in {"new", "done"} <=> requests[q].pc \in {"new", "done"}
  BY <1>3, <1>5, <1>8 DEF Holding, Waiting, InFlight
<1> QED
  BY <1>5, <1>6, <1>7, <1>8 DEF Others

\* Those a notification reaches are waiting.
LEMMA WokenAre ==
  ASSUME NEW s, NEW q \in TurnWaiters(s) \cup RegistryWaiters
  PROVE  q \in Requests /\ requests[q].pc \in {"turnWait", "registryWait"}
BY DEF TurnWaiters, RegistryWaiters

\* What that means for the holders of a state.
LEMMA HoldersMove ==
  ASSUME Typed, NEW r \in Requests, Others(r), NEW s, NEW C \in Classes
  PROVE  /\ (r \in HoldersAt(s, C)' <=> r \in HoldersAt(s, C)) =>
              HoldersAt(s, C)' = HoldersAt(s, C)
         /\ r \in HoldersAt(s, C)' /\ r \notin HoldersAt(s, C) =>
              /\ HoldersAt(s, C)' = HoldersAt(s, C) \cup {r}
              /\ Cardinality(HoldersAt(s, C)') = Cardinality(HoldersAt(s, C)) + 1
         /\ r \notin HoldersAt(s, C)' /\ r \in HoldersAt(s, C) =>
              /\ HoldersAt(s, C)' = HoldersAt(s, C) \ {r}
              /\ Cardinality(HoldersAt(s, C)) >= 1
              /\ Cardinality(HoldersAt(s, C)') = Cardinality(HoldersAt(s, C)) - 1
<1>1. \A q \in Requests \ {r} : q \in HoldersAt(s, C)' <=> q \in HoldersAt(s, C)
  BY DEF HoldersAt, Others, Classes
<1>2. HoldersAt(s, C) \subseteq Requests /\ HoldersAt(s, C)' \subseteq Requests
  BY DEF HoldersAt
<1>3. PICK before, after : before = HoldersAt(s, C) /\ after = HoldersAt(s, C)'
  OBVIOUS
<1>4. IsFiniteSet(before) /\ Cardinality(before) \in Nat
  BY <1>3, HoldersFinite
<1>5. (r \in after <=> r \in before) => after = before
  BY <1>1, <1>2, <1>3
<1>6. r \in after /\ r \notin before =>
        after = before \cup {r} /\ Cardinality(after) = Cardinality(before) + 1
  BY <1>1, <1>2, <1>3, <1>4, FS_AddElement
<1>7. r \notin after /\ r \in before =>
        /\ after = before \ {r} /\ Cardinality(before) >= 1
        /\ Cardinality(after) = Cardinality(before) - 1
  <2> SUFFICES ASSUME r \notin after, r \in before
               PROVE  /\ after = before \ {r} /\ Cardinality(before) >= 1
                      /\ Cardinality(after) = Cardinality(before) - 1
    OBVIOUS
  <2>1. after = before \ {r}
    BY <1>1, <1>2, <1>3
  <2>2. Cardinality(before \ {r}) = Cardinality(before) - 1 /\ IsFiniteSet(before \ {r})
    BY <1>4, FS_RemoveElement
  <2>3. Cardinality(before \ {r}) \in Nat
    BY <2>2, FS_CardinalityType
  <2> QED
    BY <1>4, <2>1, <2>2, <2>3
<1> QED
  BY <1>3, <1>5, <1>6, <1>7

-----------------------------------------------------------------------------
(* Frames *)

\* The books of a state that nobody takes or gives back stay true.
LEMMA BooksFrame ==
  ASSUME Typed, NEW r \in Requests, Others(r), NEW s \in States, Books(s), states'[s] = states[s],
         \A C \in Classes : r \in HoldersAt(s, C)' <=> r \in HoldersAt(s, C)
  PROVE  Books(s)'
<1>1. \A C \in Classes : HoldersAt(s, C)' = HoldersAt(s, C)
  BY HoldersMove
<1>2. /\ HoldersAt(s, Holding)' = HoldersAt(s, Holding)
      /\ HoldersAt(s, Waiting)' = HoldersAt(s, Waiting)
      /\ HoldersAt(s, InFlight)' = HoldersAt(s, InFlight)
  BY <1>1 DEF Classes
<1> QED
  BY <1>2 DEF Books

\* What the others hold is still registered.
LEMMA HeldFrame ==
  ASSUME IInv, NEW r \in Requests, Others(r), registry' = registry
  PROVE  \A q \in Requests \ {r} : Held(q)'
<1> SUFFICES ASSUME NEW q \in Requests \ {r} PROVE Held(q)'
  OBVIOUS
<1>1. Held(q)
  BY DEF IInv
<1> QED
  BY <1>1 DEF Held, Others

\* Fewer requests in flight are within the limits as well.
LEMMA LimitedFrame ==
  ASSUME IInv, NEW r \in Requests, Others(r), NEW p \in Providers,
         requests'[r].pc \in InFlight /\ requests'[r].provider = p =>
           /\ requests[r].pc \in InFlight /\ requests[r].provider = p
           /\ requests'[r].limit = requests[r].limit
  PROVE  Limited(p)'
<1>1. \A q \in Requests \ {r} :
        q \in Flying(p)' => q \in Flying(p) /\ requests'[q].limit = requests[q].limit
  BY DEF Flying, Others
<1>2. r \in Flying(p)' => r \in Flying(p) /\ requests'[r].limit = requests[r].limit
  BY DEF Flying
<1>3. \A q \in Flying(p)' : q \in Flying(p) /\ requests'[q].limit = requests[q].limit
  <2>1. Flying(p)' \subseteq Requests
    BY DEF Flying
  <2> QED
    BY <1>1, <1>2, <2>1
<1> SUFFICES ASSUME NEW F \in SUBSET Flying(p)', F # {}
             PROVE  \E q \in F : Cardinality(F) <= requests'[q].limit
  BY DEF Limited
<1>4. F \in SUBSET Flying(p)
  BY <1>3
<1>5. PICK q \in F : Cardinality(F) <= requests[q].limit
  BY <1>4 DEF IInv, Limited
<1> QED
  BY <1>3, <1>5

\* What a bucket holds once it is filled up.
Bucket(st) == Least(Full(st), st.tokens + st.elapsed * st.capacity)

\* Filling a bucket up touches nothing else.
LEMMA RefilledIs ==
  ASSUME NEW st \in LimitState
  PROVE  /\ Refilled(st) \in LimitState /\ Refilled(st).tokens = Bucket(st)
         /\ Refilled(st).tokens <= Full(st) /\ Refilled(st).elapsed = 0
         /\ Refilled(st).capacity = st.capacity
         /\ Refilled(st).queue = st.queue /\ Refilled(st).waiters = st.waiters
         /\ Refilled(st).active = st.active /\ Refilled(st).references = st.references
         /\ Full(st) \in Nat /\ Bucket(st) \in Nat
<1>0. st.capacity \in Rates \cup {0} /\ st.elapsed \in 0..Grain /\ st.tokens \in Nat
  BY DEF LimitState
<1>1. st.capacity \in Nat /\ st.elapsed \in Nat /\ st.tokens \in Nat /\ Grain \in Nat
  <2>1. Rates \cup {0} \subseteq Nat
    OBVIOUS
  <2>2. Grain \in Nat /\ \A n \in 0..Grain : n \in Nat
    OBVIOUS
  <2> QED
    BY <1>0, <2>1, <2>2
<1>2. Full(st) \in Nat /\ st.tokens + st.elapsed * st.capacity \in Nat
  BY <1>1 DEF Full
<1>3. Bucket(st) \in Nat /\ Bucket(st) <= Full(st)
  BY <1>2 DEF Bucket, Least
<1>4. Refilled(st) = [st EXCEPT !.tokens = Bucket(st), !.elapsed = 0]
  BY DEF Refilled, Bucket
<1>5. 0 \in 0..Grain
  OBVIOUS
<1> HIDE DEF Bucket
<1> QED
  BY <1>2, <1>3, <1>4, <1>5 DEF LimitState

\* A provider whose bucket and account are untouched.
LEMMA EarnedFrame ==
  ASSUME Typed, Typed', NEW p \in Providers, Earned(p), registry'[p] = registry[p],
         level'[p] = level[p],
         registry[p] # None =>
           /\ states'[registry[p]].capacity = states[registry[p]].capacity
           /\ states'[registry[p]].tokens = states[registry[p]].tokens
           /\ states'[registry[p]].elapsed = states[registry[p]].elapsed
  PROVE  Earned(p)'
<1>1. CASE registry[p] = None
  BY <1>1 DEF Earned
<1>2. CASE registry[p] # None
  <2>1. PICK s \in States : s = registry[p]
    BY <1>2 DEF Typed
  <2>2. PICK old \in LimitState, new \in LimitState : old = states[s] /\ new = states'[s]
    BY DEF Typed
  <2>3. Bucket(new) = Bucket(old) /\ Full(new) = Full(old) /\ new.capacity = old.capacity
    BY <1>2, <2>1, <2>2 DEF Bucket, Full
  <2>4. Refilled(new).tokens = Bucket(new) /\ Refilled(old).tokens = Bucket(old)
    BY RefilledIs
  <2> QED
    BY <1>2, <2>1, <2>2, <2>3, <2>4 DEF Earned
<1> QED
  BY <1>1, <1>2

-----------------------------------------------------------------------------
(* Steps that touch no state *)

\* A request moves on with what it holds.
LEMMA Quiet ==
  ASSUME IInv, NEW r \in Requests, NEW pc \in Pc \ {"new", "done"}, Goto(r, pc),
         requests[r].pc \notin {"new", "done"},
         pc \in Holding <=> requests[r].pc \in Holding,
         pc \in Waiting <=> requests[r].pc \in Waiting,
         pc \in InFlight <=> requests[r].pc \in InFlight,
         UNCHANGED <<registry, states, level>>
  PROVE  IInv'
<1>0. Typed
  BY DEF IInv
<1>1. Others(r) /\ requests'[r] = Moved(r, pc)
  BY <1>0, GotoMoves
<1>2. /\ requests'[r].pc = pc
      /\ requests'[r].provider = requests[r].provider /\ requests'[r].state = requests[r].state
      /\ requests'[r].limit = requests[r].limit /\ requests'[r].rate = requests[r].rate
  BY <1>0, <1>1, MovedIs
<1>3. Typed' /\ OneOwner'
  BY <1>1 DEF IInv, Typed, OneOwner, Others
<1>4. ASSUME NEW q \in Requests PROVE Held(q)'
  <2>1. CASE q = r
    BY <1>2, <2>1 DEF IInv, Held
  <2> QED
    BY <1>1, <2>1, HeldFrame
<1>5. ASSUME NEW s \in States PROVE Books(s)'
  <2>1. \A C \in Classes : r \in HoldersAt(s, C)' <=> r \in HoldersAt(s, C)
    BY <1>2 DEF HoldersAt, Classes
  <2> QED
    BY <1>0, <1>1, <2>1, BooksFrame DEF IInv
<1>6. ASSUME NEW p \in Providers PROVE Limited(p)'
  BY <1>1, <1>2, LimitedFrame
<1>7. ASSUME OneRate, NEW p \in Providers PROVE Earned(p)'
  BY <1>0, <1>3, <1>7, EarnedFrame DEF IInv
<1> QED
  BY <1>3, <1>4, <1>5, <1>6, <1>7 DEF IInv

\* A request that held no state ends.
LEMMA QuietEnd ==
  ASSUME IInv, NEW r \in Requests, Goto(r, "done"), requests[r].pc \notin Holding,
         UNCHANGED <<registry, states, level>>
  PROVE  IInv'
<1>0. Typed
  BY DEF IInv
<1>1. Others(r) /\ requests'[r] = Moved(r, "done")
  BY <1>0, GotoMoves DEF Pc
<1>2. requests'[r].pc = "done" /\ requests'[r].state = None
  BY <1>1, DoneIs
<1>3. Typed' /\ OneOwner'
  BY <1>1 DEF IInv, Typed, OneOwner, Others
<1>4. ASSUME NEW q \in Requests PROVE Held(q)'
  <2>1. CASE q = r
    BY <1>2, <2>1 DEF Held, Holding, Waiting, InFlight
  <2> QED
    BY <1>1, <2>1, HeldFrame
<1>5. ASSUME NEW s \in States PROVE Books(s)'
  <2>1. requests[r].pc \notin Waiting /\ requests[r].pc \notin InFlight
    BY DEF Holding
  <2>2. \A C \in Classes : r \notin HoldersAt(s, C)' /\ r \notin HoldersAt(s, C)
    BY <1>2, <2>1 DEF HoldersAt, Classes, Holding, Waiting, InFlight
  <2> QED
    BY <1>0, <1>1, <2>2, BooksFrame DEF IInv
<1>6. ASSUME NEW p \in Providers PROVE Limited(p)'
  BY <1>1, <1>2, LimitedFrame DEF InFlight
<1>7. ASSUME OneRate, NEW p \in Providers PROVE Earned(p)'
  BY <1>0, <1>3, <1>7, EarnedFrame DEF IInv
<1> QED
  BY <1>3, <1>4, <1>5, <1>6, <1>7 DEF IInv

\* A new request holds nothing yet.
LEMMA StartOK ==
  ASSUME IInv, NEW r \in Requests, Start(r)
  PROVE  IInv'
<1>0. Typed
  BY DEF IInv
<1>1. PICK p \in Providers, c \in Limits, n \in Rates :
        requests' = [requests EXCEPT ![r] = [pc |-> "lookup", provider |-> p, state |-> None,
                                             limit |-> c, rate |-> n]]
  BY DEF Start
<1>2. requests[r].pc = "new" /\ UNCHANGED <<registry, states, level>>
  BY DEF Start
<1>3. Others(r)
  BY <1>0, <1>1 DEF Others, Typed, Request, Pc
<1>4. /\ requests'[r].pc = "lookup" /\ requests'[r].state = None /\ requests'[r].provider = p
      /\ requests'[r].limit = c /\ requests'[r].rate = n
  BY <1>0, <1>1 DEF Typed
<1>5. Typed' /\ OneOwner'
  BY <1>2, <1>3 DEF IInv, Typed, OneOwner, Others
<1>6. ASSUME NEW q \in Requests PROVE Held(q)'
  <2>1. CASE q = r
    BY <1>4, <2>1 DEF Held, Holding, Waiting, InFlight
  <2> QED
    BY <1>2, <1>3, <2>1, HeldFrame
<1>7. ASSUME NEW s \in States PROVE Books(s)'
  <2>1. \A C \in Classes : r \notin HoldersAt(s, C)' /\ r \notin HoldersAt(s, C)
    BY <1>2, <1>4 DEF HoldersAt, Classes, Holding, Waiting, InFlight
  <2> QED
    BY <1>0, <1>2, <1>3, <2>1, BooksFrame DEF IInv
<1>8. ASSUME NEW q \in Providers PROVE Limited(q)'
  BY <1>3, <1>4, LimitedFrame DEF InFlight
<1>9. ASSUME OneRate, NEW q \in Providers PROVE Earned(q)'
  BY <1>0, <1>2, <1>5, <1>9, EarnedFrame DEF IInv
<1> QED
  BY <1>5, <1>6, <1>7, <1>8, <1>9 DEF IInv

\* The steps that only move the request.
LEMMA QuietActions ==
  ASSUME IInv, NEW r \in Requests,
         \/ RegistrySleepEnds(r) \/ RateSleepEnds(r) \/ Attempt(r) \/ CredentialFails(r)
         \/ CallEnds(r)
  PROVE  IInv'
<1> USE DEF Pc, Holding, Waiting, InFlight
<1>1. CASE RegistrySleepEnds(r)
  BY <1>1, Quiet DEF RegistrySleepEnds
<1>2. CASE RateSleepEnds(r)
  BY <1>2, Quiet DEF RateSleepEnds
<1>3. CASE Attempt(r)
  BY <1>3, Quiet DEF Attempt
<1>4. CASE CredentialFails(r)
  BY <1>4, Quiet DEF CredentialFails
<1>5. CASE CallEnds(r)
  BY <1>5, Quiet DEF CallEnds
<1> QED
  BY <1>1, <1>2, <1>3, <1>4, <1>5

\* A cancelled request owes the cleanup of what it holds.
LEMMA CancelOK ==
  ASSUME IInv, NEW r \in Requests, Cancel(r)
  PROVE  IInv'
<1>0. UNCHANGED <<registry, states, level>>
  BY DEF Cancel
<1>1. PICK from : from = requests[r].pc
  OBVIOUS
<1>2. from \in {"registryWait", "registrySleep", "referenced", "contend", "turnWait", "rateSleep",
                "admitted", "calling"}
  BY <1>1 DEF Cancel, Unwinding
<1>3. Goto(r, Unwinding[from])
  BY <1>1 DEF Cancel
<1>4. CASE from \in {"registryWait", "registrySleep"}
  <2>1. Unwinding[from] = "done" /\ from \notin Holding
    BY <1>4 DEF Unwinding, Holding, Waiting, InFlight
  <2> QED
    BY <1>0, <1>1, <1>3, <2>1, QuietEnd
<1>5. CASE from = "referenced"
  <2>1. Unwinding[from] = "leaving"
    BY <1>5 DEF Unwinding
  <2> QED
    BY <1>0, <1>1, <1>3, <1>5, <2>1, Quiet DEF Pc, Holding, Waiting, InFlight
<1>6. CASE from \in {"contend", "turnWait", "rateSleep"}
  <2>1. Unwinding[from] = "removing"
    BY <1>6 DEF Unwinding
  <2> QED
    BY <1>0, <1>1, <1>3, <1>6, <2>1, Quiet DEF Pc, Holding, Waiting, InFlight
<1>7. CASE from = "admitted"
  <2>1. Unwinding[from] = "refunding"
    BY <1>7 DEF Unwinding
  <2> QED
    BY <1>0, <1>1, <1>3, <1>7, <2>1, Quiet DEF Pc, Holding, Waiting, InFlight
<1>8. CASE from = "calling"
  <2>1. Unwinding[from] = "releasing"
    BY <1>8 DEF Unwinding
  <2> QED
    BY <1>0, <1>1, <1>3, <1>8, <2>1, Quiet DEF Pc, Holding, Waiting, InFlight
<1> QED
  BY <1>2, <1>4, <1>5, <1>6, <1>7, <1>8

-----------------------------------------------------------------------------
(* The queue *)

\* append(ticket).
LEMMA TicketAdded ==
  ASSUME NEW queue \in Seq(Requests), NEW holders, Tickets(queue, holders),
         NEW r \in Requests, r \notin holders
  PROVE  /\ Append(queue, r) \in Seq(Requests) /\ Len(Append(queue, r)) = Len(queue) + 1
         /\ Tickets(Append(queue, r), holders \cup {r})
<1>1. PICK n \in Nat : n = Len(queue)
  OBVIOUS
<1>2. PICK new : new = Append(queue, r)
  OBVIOUS
<1>3. /\ new \in Seq(Requests) /\ Len(new) = n + 1 /\ new[n + 1] = r
      /\ \A i \in 1..n : new[i] = queue[i]
  BY <1>1, <1>2
<1>4. \A i \in 1..(n + 1) : i \in 1..n \/ i = n + 1
  OBVIOUS
<1>5. \A i \in 1..n : queue[i] \in holders /\ queue[i] # r
  BY <1>1 DEF Tickets
<1>6. ASSUME NEW i \in 1..(n + 1), NEW j \in 1..(n + 1), new[i] = new[j] PROVE i = j
  <2>1. CASE i \in 1..n /\ j \in 1..n
    BY <1>1, <1>3, <1>6, <2>1 DEF Tickets
  <2>2. CASE i = n + 1 \/ j = n + 1
    BY <1>3, <1>4, <1>5, <1>6, <2>2
  <2> QED
    BY <1>4, <2>1, <2>2
<1>7. \A i \in 1..(n + 1) : new[i] \in holders \cup {r}
  BY <1>3, <1>4, <1>5
<1>8. \A q \in holders \cup {r} : \E i \in 1..(n + 1) : new[i] = q
  <2>1. \A q \in holders : \E i \in 1..n : queue[i] = q
    BY <1>1 DEF Tickets
  <2>2. n + 1 \in 1..(n + 1) /\ \A i \in 1..n : i \in 1..(n + 1)
    OBVIOUS
  <2> QED
    BY <1>3, <2>1, <2>2
<1> QED
  BY <1>1, <1>2, <1>3, <1>6, <1>7, <1>8 DEF Tickets

\* queue.remove(ticket), and popleft for the first one.
LEMMA TicketRemoved ==
  ASSUME NEW queue \in Seq(Requests), NEW holders, Tickets(queue, holders),
         NEW k \in 1..Len(queue), NEW new \in Seq(Requests), Len(new) = Len(queue) - 1,
         \A j \in 1..(Len(queue) - 1) : new[j] = IF j < k THEN queue[j] ELSE queue[j + 1]
  PROVE  Tickets(new, holders \ {queue[k]})
<1>1. PICK n \in Nat : n = Len(queue)
  OBVIOUS
<1>2. \A j \in 1..(n - 1) : j \in 1..n /\ j + 1 \in 1..n
  BY <1>1
<1> DEFINE At0(j) == IF j < k THEN j ELSE j + 1
<1>3. \A j \in 1..(n - 1) : At0(j) \in 1..n /\ At0(j) # k /\ new[j] = queue[At0(j)]
  BY <1>1, <1>2
<1>4. \A i, j \in 1..(n - 1) : At0(i) = At0(j) => i = j
  OBVIOUS
<1>5. \A i \in 1..n : i # k => \E j \in 1..(n - 1) : At0(j) = i
  <2> SUFFICES ASSUME NEW i \in 1..n, i # k PROVE \E j \in 1..(n - 1) : At0(j) = i
    OBVIOUS
  <2>1. CASE i < k
    <3>1. i \in 1..(n - 1) /\ At0(i) = i
      BY <1>1, <2>1
    <3> QED
      BY <3>1
  <2>2. CASE i > k
    <3>1. i - 1 \in 1..(n - 1) /\ At0(i - 1) = i
      BY <1>1, <2>2
    <3> QED
      BY <3>1
  <2> QED
    BY <1>1, <2>1, <2>2
<1> HIDE DEF At0
<1>6. \A i, j \in 1..(n - 1) : new[i] = new[j] => i = j
  BY <1>1, <1>3, <1>4, SMTT(30) DEF Tickets
<1>7. \A j \in 1..(n - 1) : new[j] \in holders \ {queue[k]}
  BY <1>1, <1>3 DEF Tickets
<1>8. \A q \in holders \ {queue[k]} : \E j \in 1..(n - 1) : new[j] = q
  <2> SUFFICES ASSUME NEW q \in holders \ {queue[k]} PROVE \E j \in 1..(n - 1) : new[j] = q
    OBVIOUS
  <2>1. PICK i \in 1..n : queue[i] = q
    BY <1>1 DEF Tickets
  <2>2. PICK j \in 1..(n - 1) : At0(j) = i
    BY <1>5, <2>1
  <2> QED
    BY <1>3, <2>1, <2>2
<1> QED
  BY <1>1, <1>6, <1>7, <1>8 DEF Tickets

\* What is left after queue.remove(ticket).
LEMMA WithoutIs ==
  ASSUME NEW queue \in Seq(Requests), NEW holders, Tickets(queue, holders), NEW r \in holders
  PROVE  /\ Without(queue, r) \in Seq(Requests) /\ Len(Without(queue, r)) = Len(queue) - 1
         /\ Len(queue) >= 1 /\ Tickets(Without(queue, r), holders \ {r})
<1>1. PICK n \in Nat : n = Len(queue)
  OBVIOUS
<1>2. PICK k \in 1..n : k = CHOOSE i \in 1..Len(queue) : queue[i] = r
  BY <1>1 DEF Tickets
<1>3. queue[k] = r
  BY <1>1, <1>2 DEF Tickets
<1>4. Without(queue, r) = [j \in 1..(n - 1) |-> IF j < k THEN queue[j] ELSE queue[j + 1]]
  BY <1>1, <1>2 DEF Without
<1>5. PICK new : new = Without(queue, r)
  OBVIOUS
<1>6. n - 1 \in Nat /\ n >= 1
  BY <1>2
<1>7. \A j \in 1..(n - 1) : j \in 1..n /\ j + 1 \in 1..n
  BY <1>6
<1>8. \A j \in 1..(n - 1) :
        new[j] \in Requests /\ new[j] = IF j < k THEN queue[j] ELSE queue[j + 1]
  BY <1>1, <1>4, <1>5, <1>7
<1>9. new \in Seq(Requests) /\ Len(new) = n - 1
  <2>1. new \in [1..(n - 1) -> Requests]
    BY <1>4, <1>5, <1>8
  <2> QED
    BY <1>6, <2>1
<1>10. Tickets(new, holders \ {queue[k]})
  BY <1>1, <1>2, <1>8, <1>9, TicketRemoved
<1> QED
  BY <1>1, <1>3, <1>5, <1>6, <1>9, <1>10

\* What is left after popleft.
LEMMA TailIs ==
  ASSUME NEW queue \in Seq(Requests), NEW holders, Tickets(queue, holders), queue # <<>>
  PROVE  /\ Tail(queue) \in Seq(Requests) /\ Len(Tail(queue)) = Len(queue) - 1
         /\ Len(queue) >= 1 /\ Tickets(Tail(queue), holders \ {Head(queue)})
<1>1. PICK n \in Nat : n = Len(queue)
  OBVIOUS
<1>2. n >= 1 /\ Head(queue) = queue[1]
  BY <1>1
<1>3. PICK new : new = Tail(queue)
  OBVIOUS
<1>4. /\ new \in Seq(Requests) /\ Len(new) = n - 1
      /\ \A j \in 1..(n - 1) : new[j] = queue[j + 1]
  BY <1>1, <1>2, <1>3
<1>5. \A j \in 1..(n - 1) : new[j] = IF j < 1 THEN queue[j] ELSE queue[j + 1]
  BY <1>4
<1>6. 1 \in 1..n
  BY <1>2
<1>7. Tickets(new, holders \ {queue[1]})
  BY <1>1, <1>4, <1>5, <1>6, TicketRemoved
<1> QED
  BY <1>1, <1>2, <1>3, <1>4, <1>7

\* As many tickets as holders.
LEMMA TicketCount ==
  ASSUME NEW queue \in Seq(Requests), NEW holders, IsFiniteSet(holders), Tickets(queue, holders)
  PROVE  Len(queue) = Cardinality(holders)
<1>1. PICK n \in Nat : n = Len(queue)
  OBVIOUS
<1>2. queue \in [1..n -> holders]
  BY <1>1 DEF Tickets
<1>3. queue \in Bijection(1..n, holders)
  BY <1>1, <1>2 DEF Tickets, Bijection, Injection, Surjection, IsInjective
<1>4. IsFiniteSet(1..n) /\ Cardinality(1..n) = n
  BY FS_Interval
<1> QED
  BY <1>1, <1>3, <1>4, FS_Bijection DEF ExistsBijection

\* Without tickets nobody waits.
LEMMA NoTickets ==
  ASSUME NEW queue \in Seq(Requests), NEW holders, Tickets(queue, holders), queue = <<>>
  PROVE  holders = {}
BY DEF Tickets

-----------------------------------------------------------------------------
(* Steps of a request that write its state *)

\* What a request knows of the state it holds.
LEMMA Holder ==
  ASSUME IInv, NEW r \in Requests, requests[r].pc \in Holding
  PROVE  /\ StateOf(r) \in States /\ requests[r].provider \in Providers
         /\ registry[requests[r].provider] = StateOf(r)
         /\ requests[r].limit \in Limits /\ requests[r].rate \in Rates
         /\ Mine(r) \in LimitState /\ Mine(r).tokens <= Full(Mine(r)) /\ Books(StateOf(r))
         /\ states \in [States -> LimitState]
<1>1. Typed /\ Held(r)
  BY DEF IInv
<1>2. requests[r].pc \notin {"new", "done"}
  BY DEF Holding, Waiting, InFlight
<1> QED
  BY <1>1, <1>2 DEF Held, Typed, IInv

\* One request writes the state its provider is registered with.
LEMMA WriteStep ==
  ASSUME IInv, NEW r \in Requests, Others(r), Held(r)',
         NEW s \in States, NEW p \in Providers, registry[p] = s,
         requests[r].state \in {s, None}, requests'[r].state \in {s, None},
         NEW st \in LimitState, st.tokens <= Full(st),
         states' = [states EXCEPT ![s] = st],
         registry' = registry, level' \in [Providers -> Nat],
         \A q \in Providers \ {p} : level'[q] = level[q],
         Books(s)', \A q \in Providers : Limited(q)', OneRate => Earned(p)'
  PROVE  IInv'
<1>0. Typed
  BY DEF IInv
<1>2. states'[s] = st /\ \A t \in States \ {s} : states'[t] = states[t]
  BY <1>0 DEF Typed
<1>4. Typed' /\ OneOwner'
  <2>1. states' \in [States -> LimitState]
    BY <1>0 DEF Typed
  <2>2. \A t \in States : states'[t].tokens <= Full(states'[t])
    BY <1>0, <1>2 DEF Typed
  <2> QED
    BY <1>0, <2>1, <2>2 DEF IInv, Typed, OneOwner, Others, Full
<1>5. ASSUME NEW q \in Requests PROVE Held(q)'
  <2>1. CASE q = r
    BY <2>1
  <2> QED
    BY <2>1, HeldFrame
<1>6. ASSUME NEW t \in States PROVE Books(t)'
  <2>1. CASE t = s
    BY <2>1
  <2>2. CASE t # s
    <3>1. requests[r].state # t /\ requests'[r].state # t
      BY <2>2
    <3>2. \A C \in Classes : r \notin HoldersAt(t, C)' /\ r \notin HoldersAt(t, C)
      BY <3>1 DEF HoldersAt
    <3> QED
      BY <1>0, <1>2, <2>2, <3>2, BooksFrame DEF IInv
  <2> QED
    BY <2>1, <2>2
<1>7. ASSUME OneRate, NEW q \in Providers PROVE Earned(q)'
  <2>1. CASE q = p
    BY <1>7, <2>1
  <2>2. CASE q # p
    <3>1. registry[q] # s
      BY <2>2 DEF IInv, OneOwner
    <3>2. registry[q] # None => states'[registry[q]] = states[registry[q]]
      BY <1>0, <1>2, <3>1 DEF Typed
    <3>3. Earned(q) /\ level'[q] = level[q]
      BY <1>7, <2>2 DEF IInv
    <3> QED
      BY <1>0, <1>4, <3>2, <3>3, EarnedFrame
  <2> QED
    BY <2>1, <2>2
<1> QED
  BY <1>4, <1>5, <1>6, <1>7 DEF IInv

\* One that holds it before the step.
LEMMA StateStep ==
  ASSUME IInv, NEW r \in Requests, requests[r].pc \in Holding, NEW pc \in Holding \cup {"done"},
         Others(r), requests'[r] = Moved(r, pc),
         NEW s \in States, s = StateOf(r), NEW p \in Providers, p = requests[r].provider,
         NEW st \in LimitState, st.tokens <= Full(st),
         states' = [states EXCEPT ![s] = st],
         registry' = registry, level' \in [Providers -> Nat],
         \A q \in Providers \ {p} : level'[q] = level[q],
         Books(s)', \A q \in Providers : Limited(q)', OneRate => Earned(p)'
  PROVE  IInv'
<1>0. Typed /\ Held(r) /\ registry[p] = s
  BY Holder DEF IInv
<1>3. requests'[r].state \in {s, None} /\ Held(r)'
  <2>1. CASE pc # "done"
    <3>1. /\ requests'[r].pc = pc
          /\ requests'[r].provider = requests[r].provider /\ requests'[r].state = requests[r].state
          /\ requests'[r].limit = requests[r].limit /\ requests'[r].rate = requests[r].rate
      <4>1. pc \in Pc
        BY DEF Pc
      <4> QED
        BY <1>0, <2>1, <4>1, MovedIs
    <3> QED
      BY <1>0, <2>1, <3>1 DEF Held, Holding, Waiting, InFlight
  <2>2. CASE pc = "done"
    <3>1. requests'[r].pc = "done" /\ requests'[r].state = None
      BY <2>2, DoneIs
    <3> QED
      BY <3>1 DEF Held, Holding, Waiting, InFlight
  <2> QED
    BY <2>1, <2>2
<1> QED
  BY <1>0, <1>3, WriteStep

\* The bucket is as it was.
LEMMA SameBucket ==
  ASSUME IInv, OneRate, NEW p \in Providers, NEW s \in States, registry[p] = s,
         NEW st \in LimitState, registry' = registry, level'[p] = level[p], states'[s] = st,
         st.capacity = states[s].capacity, st.tokens = states[s].tokens,
         st.elapsed = states[s].elapsed
  PROVE  Earned(p)'
<1>2. PICK old \in LimitState : old = states[s]
  BY DEF IInv, Typed
<1>3. Bucket(st) = Bucket(old) /\ Full(st) = Full(old)
  BY <1>2 DEF Bucket, Full
<1>4. Refilled(st).tokens = Bucket(st) /\ Refilled(old).tokens = Bucket(old)
  BY RefilledIs
<1> QED
  BY <1>2, <1>3, <1>4 DEF IInv, Earned

\* A step that leaves the bucket alone and admits nobody.
LEMMA PlainStep ==
  ASSUME IInv, NEW r \in Requests, requests[r].pc \in Holding, NEW pc \in Holding \cup {"done"},
         pc \in InFlight => requests[r].pc \in InFlight,
         Others(r), requests'[r] = Moved(r, pc),
         NEW s \in States, s = StateOf(r),
         NEW st \in LimitState, states' = [states EXCEPT ![s] = st],
         st.capacity = states[s].capacity, st.tokens = states[s].tokens,
         st.elapsed = states[s].elapsed,
         registry' = registry, level' = level, Books(s)'
  PROVE  IInv'
<1>1. PICK p \in Providers : p = requests[r].provider /\ registry[p] = s
  BY Holder
<1>2. states[s].tokens <= Full(states[s]) /\ states \in [States -> LimitState] /\ Typed
  BY DEF IInv, Typed
<1>3. st.tokens <= Full(st) /\ states'[s] = st
  BY <1>2 DEF Full
<1>4. ASSUME NEW q \in Providers PROVE Limited(q)'
  <2>1. CASE pc = "done"
    <3>1. requests'[r].pc \notin InFlight
      BY <2>1, DoneIs DEF InFlight
    <3> QED
      BY <3>1, LimitedFrame
  <2>2. CASE pc # "done"
    <3>1. requests'[r].pc = pc /\ requests'[r].provider = requests[r].provider
          /\ requests'[r].limit = requests[r].limit
      <4>1. pc \in Pc
        BY DEF Pc
      <4> QED
        BY <1>2, <2>2, <4>1, MovedIs
    <3> QED
      BY <3>1, LimitedFrame
  <2> QED
    BY <2>1, <2>2
<1>5. ASSUME OneRate PROVE Earned(p)'
  BY <1>1, <1>3, <1>5, SameBucket
<1>6. level' \in [Providers -> Nat]
  BY <1>2 DEF Typed
<1> QED
  BY <1>1, <1>3, <1>4, <1>5, <1>6, StateStep

\* A state with other books and the same bucket.
Rewrite(old, queue, waiters, active, references) ==
  [old EXCEPT !.queue = queue, !.waiters = waiters, !.active = active,
              !.references = references]

\* It is a limit state again.
LEMMA Rewritten ==
  ASSUME NEW old \in LimitState, NEW queue \in Seq(Requests), NEW waiters \in Nat,
         NEW active \in Nat, NEW references \in Nat
  PROVE  Rewrite(old, queue, waiters, active, references) \in LimitState
<1>0. PICK st : st = Rewrite(old, queue, waiters, active, references)
  OBVIOUS
<1>1. st = [queue |-> queue, waiters |-> waiters, active |-> active, references |-> references,
            capacity |-> old.capacity, tokens |-> old.tokens, elapsed |-> old.elapsed]
  BY <1>0 DEF LimitState, Rewrite
<1>2. old.capacity \in Rates \cup {0} /\ old.tokens \in Nat /\ old.elapsed \in 0 .. Grain
  BY DEF LimitState
<1>3. st \in LimitState
  BY <1>1, <1>2 DEF LimitState
<1> QED
  BY <1>0, <1>3

\* A step that changes the books so that they stay true.
LEMMA RewriteStep ==
  ASSUME IInv, NEW r \in Requests, requests[r].pc \in Holding, NEW pc \in Holding \cup {"done"},
         pc \in InFlight => requests[r].pc \in InFlight,
         Others(r), requests'[r] = Moved(r, pc),
         NEW s \in States, s = StateOf(r),
         NEW queue \in Seq(Requests), NEW waiters \in Nat, NEW active \in Nat,
         NEW references \in Nat,
         states' = [states EXCEPT ![s] = Rewrite(states[s], queue, waiters, active, references)],
         registry' = registry, level' = level,
         references = Cardinality(HoldersAt(s, Holding)'),
         active = Cardinality(HoldersAt(s, InFlight)'),
         waiters = Len(queue), Tickets(queue, HoldersAt(s, Waiting)')
  PROVE  IInv'
<1>1. PICK old \in LimitState : old = states[s]
  BY DEF IInv, Typed
<1>2. PICK st : st = Rewrite(old, queue, waiters, active, references)
  OBVIOUS
<1>3. st \in LimitState
  BY <1>2, Rewritten
<1>4. /\ st.queue = queue /\ st.waiters = waiters
      /\ st.active = active /\ st.references = references
      /\ st.capacity = old.capacity /\ st.tokens = old.tokens /\ st.elapsed = old.elapsed
  BY <1>2 DEF Rewrite, LimitState
<1>5. states' = [states EXCEPT ![s] = st] /\ states'[s] = st
  BY <1>1, <1>2 DEF IInv, Typed
<1>6. Books(s)'
  BY <1>4, <1>5 DEF Books
<1> QED
  BY <1>1, <1>3, <1>4, <1>5, <1>6, PlainStep, ZenonT(60)

\* A ticket at the end of the queue.
LEMMA EnqueueOK ==
  ASSUME IInv, NEW r \in Requests, Enqueue(r)
  PROVE  IInv'
<1>0. Typed /\ requests[r].pc = "referenced" /\ requests[r].pc \in Holding
  BY DEF IInv, Enqueue, Holding
<1>1. PICK s \in States : s = StateOf(r) /\ Books(s) /\ states[s] \in LimitState
  BY <1>0, Holder
<1>2. Others(r) /\ requests'[r] = Moved(r, "contend")
  <2>1. GoWaking(r, "contend", TurnWaiters(StateOf(r)))
    BY DEF Enqueue
  <2> QED
    BY <1>0, <2>1, WakingMoves, WokenAre DEF Pc, Holding, Waiting
<1>3. requests'[r].pc = "contend" /\ requests'[r].state = s
  BY <1>0, <1>1, <1>2, MovedIs DEF Pc, Holding, Waiting
<1>4. /\ r \in HoldersAt(s, Holding)' /\ r \in HoldersAt(s, Holding)
      /\ r \notin HoldersAt(s, InFlight)' /\ r \notin HoldersAt(s, InFlight)
      /\ r \in HoldersAt(s, Waiting)' /\ r \notin HoldersAt(s, Waiting)
  BY <1>0, <1>1, <1>3 DEF HoldersAt, Holding, Waiting, InFlight
<1>5. /\ HoldersAt(s, Holding)' = HoldersAt(s, Holding)
      /\ HoldersAt(s, InFlight)' = HoldersAt(s, InFlight)
      /\ HoldersAt(s, Waiting)' = HoldersAt(s, Waiting) \cup {r}
  BY <1>0, <1>2, <1>4, HoldersMove DEF Classes
<1>6. PICK old \in LimitState : old = states[s]
  BY <1>1
<1>7. PICK active, references, waiters \in Nat :
        /\ active = old.active /\ references = old.references /\ waiters = old.waiters + 1
        /\ old.waiters \in Nat /\ old.queue \in Seq(Requests)
  BY DEF LimitState
<1>8. PICK queue \in Seq(Requests) :
        /\ queue = Append(old.queue, r) /\ Len(queue) = Len(old.queue) + 1
        /\ Tickets(queue, HoldersAt(s, Waiting)')
  <2>1. PICK holders : holders = HoldersAt(s, Waiting)
    OBVIOUS
  <2>2. Tickets(old.queue, holders) /\ r \notin holders
    BY <1>1, <1>4, <1>6, <2>1 DEF Books
  <2>3. PICK queue : queue = Append(old.queue, r)
    OBVIOUS
  <2>4. /\ queue \in Seq(Requests) /\ Len(queue) = Len(old.queue) + 1
        /\ Tickets(queue, holders \cup {r})
    BY <1>7, <2>2, <2>3, TicketAdded
  <2> QED
    BY <1>5, <2>1, <2>3, <2>4
<1>9. states' = [states EXCEPT ![s] = Rewrite(states[s], queue, waiters, active, references)]
  BY <1>1, <1>6, <1>7, <1>8 DEF Enqueue, Rewrite, LimitState
<1>10. waiters = Len(queue) /\ references = Cardinality(HoldersAt(s, Holding)')
       /\ active = Cardinality(HoldersAt(s, InFlight)')
  BY <1>1, <1>5, <1>6, <1>7, <1>8 DEF Books
<1>11. /\ registry' = registry /\ level' = level
       /\ "contend" \in Holding /\ "contend" \notin InFlight
  BY DEF Enqueue, Holding, Waiting, InFlight
<1> QED
  BY <1>0, <1>1, <1>2, <1>8, <1>9, <1>10, <1>11, RewriteStep

\* A ticket is given up.
LEMMA RemoveTicketOK ==
  ASSUME IInv, NEW r \in Requests, RemoveTicket(r)
  PROVE  IInv'
<1>0. Typed /\ requests[r].pc = "removing" /\ requests[r].pc \in Holding
  BY DEF IInv, RemoveTicket, Holding, Waiting
<1>1. PICK s \in States : s = StateOf(r) /\ Books(s) /\ states[s] \in LimitState
  BY <1>0, Holder
<1>2. Others(r) /\ requests'[r] = Moved(r, "leaving")
  <2>1. GoWaking(r, "leaving", TurnWaiters(StateOf(r)))
    BY DEF RemoveTicket
  <2> QED
    BY <1>0, <2>1, WakingMoves, WokenAre DEF Pc, Holding
<1>3. requests'[r].pc = "leaving" /\ requests'[r].state = s
  BY <1>0, <1>1, <1>2, MovedIs DEF Pc, Holding
<1>4. /\ r \in HoldersAt(s, Holding)' /\ r \in HoldersAt(s, Holding)
      /\ r \notin HoldersAt(s, InFlight)' /\ r \notin HoldersAt(s, InFlight)
      /\ r \notin HoldersAt(s, Waiting)' /\ r \in HoldersAt(s, Waiting)
  BY <1>0, <1>1, <1>3 DEF HoldersAt, Holding, Waiting, InFlight
<1>5. /\ HoldersAt(s, Holding)' = HoldersAt(s, Holding)
      /\ HoldersAt(s, InFlight)' = HoldersAt(s, InFlight)
      /\ HoldersAt(s, Waiting)' = HoldersAt(s, Waiting) \ {r}
  BY <1>0, <1>2, <1>4, HoldersMove DEF Classes
<1>6. PICK old \in LimitState : old = states[s]
  BY <1>1
<1>7. PICK queue \in Seq(Requests) :
        /\ queue = Without(old.queue, r) /\ Len(queue) = Len(old.queue) - 1
        /\ Tickets(queue, HoldersAt(s, Waiting)') /\ Len(old.queue) >= 1
  <2>1. PICK holders : holders = HoldersAt(s, Waiting)
    OBVIOUS
  <2>2. Tickets(old.queue, holders) /\ r \in holders /\ old.queue \in Seq(Requests)
    BY <1>1, <1>4, <1>6, <2>1 DEF Books, LimitState
  <2>3. PICK queue : queue = Without(old.queue, r)
    OBVIOUS
  <2>4. /\ queue \in Seq(Requests) /\ Len(queue) = Len(old.queue) - 1
        /\ Tickets(queue, holders \ {r}) /\ Len(old.queue) >= 1
    BY <2>2, <2>3, WithoutIs
  <2> QED
    BY <1>5, <2>1, <2>3, <2>4
<1>8. PICK active, references, waiters \in Nat :
        /\ active = old.active /\ references = old.references /\ waiters = old.waiters - 1
  <2>1. old.waiters = Len(old.queue) /\ old.waiters - 1 \in Nat
    BY <1>1, <1>6, <1>7 DEF Books, LimitState
  <2> QED
    BY <2>1 DEF LimitState
<1>9. states' = [states EXCEPT ![s] = Rewrite(states[s], queue, waiters, active, references)]
  BY <1>1, <1>6, <1>7, <1>8 DEF RemoveTicket, Rewrite, LimitState
<1>10. waiters = Len(queue) /\ references = Cardinality(HoldersAt(s, Holding)')
       /\ active = Cardinality(HoldersAt(s, InFlight)')
  BY <1>1, <1>5, <1>6, <1>7, <1>8 DEF Books
<1>11. /\ registry' = registry /\ level' = level
       /\ "leaving" \in Holding /\ "leaving" \notin InFlight
  BY DEF RemoveTicket, Holding, InFlight
<1> QED
  BY <1>0, <1>1, <1>2, <1>7, <1>8, <1>9, <1>10, <1>11, RewriteStep

\* A slot is given back.
LEMMA ReleaseOK ==
  ASSUME IInv, NEW r \in Requests, Release(r)
  PROVE  IInv'
<1>0. Typed /\ requests[r].pc = "releasing" /\ requests[r].pc \in Holding
  BY DEF IInv, Release, Holding, InFlight
<1>1. PICK s \in States : s = StateOf(r) /\ Books(s) /\ states[s] \in LimitState
  BY <1>0, Holder
<1>2. Others(r) /\ requests'[r] = Moved(r, "leaving")
  <2>1. GoWaking(r, "leaving", TurnWaiters(StateOf(r)) \cup RegistryWaiters)
    BY DEF Release
  <2> QED
    BY <1>0, <2>1, WakingMoves, WokenAre DEF Pc, Holding
<1>3. requests'[r].pc = "leaving" /\ requests'[r].state = s
  BY <1>0, <1>1, <1>2, MovedIs DEF Pc, Holding
<1>4. /\ r \in HoldersAt(s, Holding)' /\ r \in HoldersAt(s, Holding)
      /\ r \notin HoldersAt(s, InFlight)' /\ r \in HoldersAt(s, InFlight)
      /\ r \notin HoldersAt(s, Waiting)' /\ r \notin HoldersAt(s, Waiting)
  BY <1>0, <1>1, <1>3 DEF HoldersAt, Holding, Waiting, InFlight
<1>5. /\ HoldersAt(s, Holding)' = HoldersAt(s, Holding)
      /\ Cardinality(HoldersAt(s, InFlight)') = Cardinality(HoldersAt(s, InFlight)) - 1
      /\ Cardinality(HoldersAt(s, InFlight)) >= 1
      /\ HoldersAt(s, Waiting)' = HoldersAt(s, Waiting)
  BY <1>0, <1>2, <1>4, HoldersMove DEF Classes
<1>6. PICK old \in LimitState : old = states[s]
  BY <1>1
<1>7. PICK queue \in Seq(Requests) : queue = old.queue /\ Tickets(queue, HoldersAt(s, Waiting)')
  BY <1>1, <1>5, <1>6 DEF Books, LimitState
<1>8. PICK active, references, waiters \in Nat :
        /\ active = old.active - 1 /\ references = old.references /\ waiters = old.waiters
  <2>1. old.active - 1 \in Nat
    BY <1>1, <1>5, <1>6 DEF Books, LimitState
  <2> QED
    BY <2>1 DEF LimitState
<1>9. states' = [states EXCEPT ![s] = Rewrite(states[s], queue, waiters, active, references)]
  BY <1>1, <1>6, <1>7, <1>8 DEF Release, Rewrite, LimitState
<1>10. waiters = Len(queue) /\ references = Cardinality(HoldersAt(s, Holding)')
       /\ active = Cardinality(HoldersAt(s, InFlight)')
  BY <1>1, <1>5, <1>6, <1>7, <1>8 DEF Books
<1>11. /\ registry' = registry /\ level' = level
       /\ "leaving" \in Holding /\ "leaving" \notin InFlight
  BY DEF Release, Holding, InFlight
<1> QED
  BY <1>0, <1>1, <1>2, <1>7, <1>8, <1>9, <1>10, <1>11, RewriteStep

\* The last thing a request gives back is its reference.
LEMMA LeaveOK ==
  ASSUME IInv, NEW r \in Requests, Leave(r)
  PROVE  IInv'
<1>0. Typed /\ requests[r].pc = "leaving" /\ requests[r].pc \in Holding
  BY DEF IInv, Leave, Holding
<1>1. PICK s \in States : s = StateOf(r) /\ Books(s) /\ states[s] \in LimitState
  BY <1>0, Holder
<1>2. Others(r) /\ requests'[r] = Moved(r, "done")
  <2>1. GoWaking(r, "done", RegistryWaiters)
    BY DEF Leave
  <2> QED
    BY <1>0, <2>1, WakingMoves, WokenAre DEF Pc
<1>3. requests'[r].pc = "done" /\ requests'[r].state = None
  BY <1>2, DoneIs
<1>4. /\ r \notin HoldersAt(s, Holding)' /\ r \in HoldersAt(s, Holding)
      /\ r \notin HoldersAt(s, InFlight)' /\ r \notin HoldersAt(s, InFlight)
      /\ r \notin HoldersAt(s, Waiting)' /\ r \notin HoldersAt(s, Waiting)
  BY <1>0, <1>1, <1>3 DEF HoldersAt, Holding, Waiting, InFlight
<1>5. /\ Cardinality(HoldersAt(s, Holding)') = Cardinality(HoldersAt(s, Holding)) - 1
      /\ Cardinality(HoldersAt(s, Holding)) >= 1
      /\ HoldersAt(s, InFlight)' = HoldersAt(s, InFlight)
      /\ HoldersAt(s, Waiting)' = HoldersAt(s, Waiting)
  BY <1>0, <1>2, <1>4, HoldersMove DEF Classes
<1>6. PICK old \in LimitState : old = states[s]
  BY <1>1
<1>7. PICK queue \in Seq(Requests) : queue = old.queue /\ Tickets(queue, HoldersAt(s, Waiting)')
  BY <1>1, <1>5, <1>6 DEF Books, LimitState
<1>8. PICK active, references, waiters \in Nat :
        /\ active = old.active /\ references = old.references - 1 /\ waiters = old.waiters
  <2>1. old.references - 1 \in Nat
    BY <1>1, <1>5, <1>6 DEF Books, LimitState
  <2> QED
    BY <2>1 DEF LimitState
<1>9. states' = [states EXCEPT ![s] = Rewrite(states[s], queue, waiters, active, references)]
  BY <1>1, <1>6, <1>7, <1>8 DEF Leave, Rewrite, LimitState
<1>10. waiters = Len(queue) /\ references = Cardinality(HoldersAt(s, Holding)')
       /\ active = Cardinality(HoldersAt(s, InFlight)')
  BY <1>1, <1>5, <1>6, <1>7, <1>8 DEF Books
<1>11. registry' = registry /\ level' = level /\ "done" \notin InFlight
  BY DEF Leave, InFlight
<1> QED
  BY <1>0, <1>1, <1>2, <1>7, <1>8, <1>9, <1>10, <1>11, RewriteStep

\* A reference to the state the provider is registered with.
LEMMA FindStateOK ==
  ASSUME IInv, NEW r \in Requests, FindState(r)
  PROVE  IInv'
<1>0. Typed /\ requests[r].pc = "lookup" /\ requests[r].pc \notin Holding /\ Held(r)
  BY DEF IInv, FindState, Holding, Waiting, InFlight
<1>1. PICK p \in Providers : p = requests[r].provider /\ requests[r].limit \in Limits
                             /\ requests[r].rate \in Rates /\ requests[r].state = None
  BY <1>0 DEF Held
<1>2. PICK s \in States : registry[p] = s
  BY <1>0, <1>1 DEF FindState, Typed
<1>3. requests' = [requests EXCEPT ![r] = [requests[r] EXCEPT !.pc = "referenced", !.state = s]]
  BY <1>1, <1>2 DEF FindState
<1>4. /\ requests'[r] = [requests[r] EXCEPT !.pc = "referenced", !.state = s]
      /\ requests[r] \in Request /\ \A q \in Requests \ {r} : requests'[q] = requests[q]
  BY <1>0, <1>3 DEF Typed
<1>5. /\ requests'[r] \in Request /\ requests'[r].pc = "referenced" /\ requests'[r].state = s
      /\ requests'[r].provider = p /\ requests'[r].limit = requests[r].limit
      /\ requests'[r].rate = requests[r].rate
  BY <1>1, <1>4 DEF Request, Pc, Holding
<1>6. Others(r)
  BY <1>0, <1>3, <1>4, <1>5 DEF Others, Typed
<1>7. registry' = registry /\ level' = level
  BY DEF FindState
<1>8. Held(r)'
  BY <1>1, <1>2, <1>5, <1>7 DEF Held, Holding
<1>9. /\ r \in HoldersAt(s, Holding)' /\ r \notin HoldersAt(s, Holding)
      /\ r \notin HoldersAt(s, InFlight)' /\ r \notin HoldersAt(s, InFlight)
      /\ r \notin HoldersAt(s, Waiting)' /\ r \notin HoldersAt(s, Waiting)
  BY <1>0, <1>5 DEF HoldersAt, Holding, Waiting, InFlight
<1>10. /\ Cardinality(HoldersAt(s, Holding)') = Cardinality(HoldersAt(s, Holding)) + 1
       /\ HoldersAt(s, InFlight)' = HoldersAt(s, InFlight)
       /\ HoldersAt(s, Waiting)' = HoldersAt(s, Waiting)
  BY <1>0, <1>6, <1>9, HoldersMove DEF Classes
<1>11. PICK old \in LimitState : old = states[s]
  BY <1>0 DEF Typed
<1>12. Books(s) /\ old.tokens <= Full(old)
  BY <1>0, <1>11 DEF IInv, Typed
<1>13. PICK st : st = [old EXCEPT !.references = old.references + 1]
  OBVIOUS
<1>14. /\ st \in LimitState /\ st.references = old.references + 1
       /\ st.queue = old.queue /\ st.waiters = old.waiters /\ st.active = old.active
       /\ st.capacity = old.capacity /\ st.tokens = old.tokens /\ st.elapsed = old.elapsed
  BY <1>13, SMTT(30) DEF LimitState
<1>15. states' = [states EXCEPT ![s] = st]
  BY <1>1, <1>2, <1>11, <1>13 DEF FindState, LimitState
<1>16. states'[s] = st /\ st.tokens <= Full(st)
  BY <1>0, <1>12, <1>14, <1>15 DEF Typed, Full
<1>17. Books(s)'
  BY <1>10, <1>11, <1>12, <1>14, <1>16 DEF Books
<1>18. ASSUME NEW q \in Providers PROVE Limited(q)'
  BY <1>5, <1>6, LimitedFrame DEF InFlight
<1>19. ASSUME OneRate PROVE Earned(p)'
  BY <1>2, <1>7, <1>11, <1>14, <1>16, <1>19, SameBucket
<1>20. level' \in [Providers -> Nat]
  BY <1>0, <1>7 DEF Typed
<1> QED
  BY <1>1, <1>2, <1>5, <1>6, <1>7, <1>8, <1>14, <1>15, <1>16, <1>17, <1>18, <1>19, <1>20,
     WriteStep

-----------------------------------------------------------------------------
(* The bucket *)

\* A look at the bucket, with the rate of the request that looks.
LEMMA RefreshedIs ==
  ASSUME NEW st \in LimitState, NEW n \in Rates
  PROVE  /\ Refreshed(st, n) \in LimitState /\ Refreshed(st, n).tokens <= Full(Refreshed(st, n))
         /\ Refreshed(st, n).capacity = n /\ Refreshed(st, n).elapsed = 0
         /\ Refreshed(st, n).queue = st.queue /\ Refreshed(st, n).waiters = st.waiters
         /\ Refreshed(st, n).active = st.active /\ Refreshed(st, n).references = st.references
         /\ st.capacity = 0 => Refreshed(st, n).tokens = n * Grain
         /\ st.capacity = n => Refreshed(st, n).tokens = Bucket(st)
<1>0. n \in Nat \ {0} /\ Grain \in Nat /\ n * Grain \in Nat /\ 0 \in 0..Grain
  OBVIOUS
<1>1. CASE st.capacity = 0
  <2>1. PICK new : new = Refreshed(st, n)
    OBVIOUS
  <2>2. new = [st EXCEPT !.capacity = n, !.tokens = n * Grain, !.elapsed = 0]
    BY <1>1, <2>1 DEF Refreshed
  <2>3. /\ new \in LimitState /\ new.tokens = n * Grain /\ new.capacity = n /\ new.elapsed = 0
        /\ new.queue = st.queue /\ new.waiters = st.waiters
        /\ new.active = st.active /\ new.references = st.references
    BY <1>0, <2>2 DEF LimitState
  <2>4. Full(new) = n * Grain
    BY <2>3 DEF Full
  <2> QED
    BY <1>0, <1>1, <2>1, <2>3, <2>4
<1>2. CASE st.capacity # 0
  <2>1. PICK mid \in LimitState :
          /\ mid = Refilled(st) /\ mid.tokens = Bucket(st) /\ mid.tokens <= Full(st)
          /\ mid.elapsed = 0 /\ mid.queue = st.queue /\ mid.waiters = st.waiters
          /\ mid.active = st.active /\ mid.references = st.references
    BY RefilledIs
  <2>2. PICK new : new = Refreshed(st, n)
    OBVIOUS
  <2>3. PICK tokens \in Nat : tokens = Least(mid.tokens, n * Grain)
    BY <1>0 DEF Least, LimitState
  <2>4. new = [mid EXCEPT !.capacity = n, !.tokens = tokens]
    BY <1>2, <2>1, <2>2, <2>3 DEF Refreshed, LimitState
  <2>5. /\ new \in LimitState /\ new.tokens = tokens /\ new.capacity = n /\ new.elapsed = 0
        /\ new.queue = st.queue /\ new.waiters = st.waiters
        /\ new.active = st.active /\ new.references = st.references
    BY <2>1, <2>4 DEF LimitState
  <2>6. Full(new) = n * Grain /\ tokens <= n * Grain
    BY <1>0, <2>3, <2>5, SMTT(30) DEF Full, Least, LimitState
  <2>7. st.capacity = n => tokens = Bucket(st)
    <3>1. SUFFICES ASSUME st.capacity = n PROVE tokens = Bucket(st)
      OBVIOUS
    <3>2. Full(st) = n * Grain /\ mid.tokens \in Nat
      BY <3>1 DEF Full, LimitState
    <3> QED
      BY <1>0, <2>1, <2>3, <3>2 DEF Least
  <2> QED
    BY <1>2, <2>2, <2>5, <2>6, <2>7
<1> QED
  BY <1>1, <1>2

\* The columns of a limit state are natural numbers.
LEMMA Numbers ==
  ASSUME NEW st \in LimitState
  PROVE  /\ st.capacity \in Nat /\ st.tokens \in Nat /\ st.elapsed \in Nat
         /\ st.active \in Nat /\ st.waiters \in Nat /\ st.references \in Nat
         /\ Full(st) \in Nat /\ Bucket(st) \in Nat /\ Grain \in Nat
<1>1. /\ st.capacity \in Rates \cup {0} /\ st.elapsed \in 0..Grain /\ st.tokens \in Nat
      /\ st.active \in Nat /\ st.waiters \in Nat /\ st.references \in Nat
  BY DEF LimitState
<1>2. Rates \cup {0} \subseteq Nat /\ 0..Grain \subseteq Nat /\ Grain \in Nat
  OBVIOUS
<1>3. Full(st) \in Nat /\ Bucket(st) \in Nat
  BY RefilledIs
<1> QED
  BY <1>1, <1>2, <1>3

\* What is owed before a step.
LEMMA EarnedNow ==
  ASSUME IInv, OneRate, NEW p \in Providers, NEW s \in States, registry[p] = s
  PROVE  /\ level[p] \in Nat
         /\ states[s].capacity = 0 => level[p] = 0
         /\ states[s].capacity # 0 => level[p] + Bucket(states[s]) <= Full(states[s])
<1>1. PICK st \in LimitState : st = states[s]
  BY DEF IInv, Typed
<1>2. Refilled(st).tokens = Bucket(st)
  BY RefilledIs
<1>3. level[p] \in Nat
  BY DEF IInv, Typed
<1> QED
  BY <1>1, <1>2, <1>3 DEF IInv, Earned

\* What is owed after it.
LEMMA EarnedThen ==
  ASSUME NEW p \in Providers, NEW s \in States, registry'[p] = s, NEW st \in LimitState,
         states'[s] = st, st.capacity = 0 => level'[p] = 0,
         st.capacity # 0 => level'[p] + Bucket(st) <= Full(st)
  PROVE  Earned(p)'
<1>1. Refilled(st).tokens = Bucket(st)
  BY RefilledIs
<1> QED
  BY <1>1 DEF Earned

\* A bucket that was just filled up.
LEMMA BucketNow ==
  ASSUME NEW st \in LimitState, st.elapsed = 0, st.tokens <= Full(st)
  PROVE  Bucket(st) = st.tokens
<1>1. st.tokens \in Nat /\ st.capacity \in Nat
  BY Numbers
<1>2. Full(st) \in Nat
  BY RefilledIs
<1>3. st.elapsed * st.capacity = 0
  BY <1>1
<1> QED
  BY <1>1, <1>2, <1>3 DEF Bucket, Least

\* With one rate, a look at the bucket changes nothing in what is owed.
LEMMA RefreshedEarned ==
  ASSUME IInv, OneRate, NEW p \in Providers, NEW s \in States, registry[p] = s,
         NEW n \in Rates, NEW st \in LimitState, st = Refreshed(states[s], n)
  PROVE  level[p] \in Nat /\ level[p] + st.tokens <= Full(st)
<1>1. PICK old \in LimitState : old = states[s]
  BY DEF IInv, Typed
<1>2. level[p] \in Nat /\ (old.capacity = 0 => level[p] = 0)
      /\ (old.capacity # 0 => level[p] + Bucket(old) <= Full(old))
  BY <1>1, EarnedNow
<1>3. /\ st.capacity = n /\ st.tokens <= Full(st)
      /\ old.capacity = 0 => st.tokens = n * Grain
      /\ old.capacity = n => st.tokens = Bucket(old)
  BY <1>1, RefreshedIs
<1>4. Full(st) = n * Grain /\ st.tokens \in Nat /\ n * Grain \in Nat
  BY <1>3, Numbers DEF Full
<1>5. CASE old.capacity = 0
  BY <1>2, <1>3, <1>4, <1>5
<1>6. CASE old.capacity # 0
  <2>1. old.capacity = n
    BY <1>6 DEF OneRate, LimitState
  <2>2. Full(old) = Full(st)
    BY <1>3, <2>1 DEF Full
  <2> QED
    BY <1>2, <1>3, <1>6, <2>1, <2>2
<1> QED
  BY <1>5, <1>6

\* The head of the queue finds the bucket empty.
LEMMA SleepOK ==
  ASSUME IInv, NEW r \in Requests, requests[r].pc = "contend",
         SetState(StateOf(r), Refreshed(Mine(r), requests[r].rate)),
         Goto(r, "rateSleep"), UNCHANGED <<registry, level>>
  PROVE  IInv'
<1>0. Typed /\ requests[r].pc \in Holding
  BY DEF IInv, Holding, Waiting
<1>1. PICK s \in States, p \in Providers :
        /\ s = StateOf(r) /\ Books(s) /\ p = requests[r].provider /\ registry[p] = s
        /\ requests[r].rate \in Rates
  BY <1>0, Holder
<1>2. PICK old \in LimitState, n \in Rates : old = states[s] /\ n = requests[r].rate
  BY <1>0, <1>1 DEF Typed
<1>3. PICK st \in LimitState : st = Refreshed(old, n)
  BY RefreshedIs
<1>4. /\ st.tokens <= Full(st) /\ st.capacity = n /\ st.elapsed = 0
      /\ st.queue = old.queue /\ st.waiters = old.waiters
      /\ st.active = old.active /\ st.references = old.references
  BY <1>3, RefreshedIs
<1>5. states' = [states EXCEPT ![s] = st] /\ registry' = registry /\ level' = level
  BY <1>1, <1>2, <1>3
<1>6. states'[s] = st
  BY <1>0, <1>5 DEF Typed
<1>7. Others(r) /\ requests'[r] = Moved(r, "rateSleep")
  BY <1>0, GotoMoves DEF Pc, Holding, Waiting
<1>8. /\ requests'[r].pc = "rateSleep" /\ requests'[r].state = s
  BY <1>0, <1>1, <1>7, MovedIs DEF Pc, Holding, Waiting
<1>9. \A C \in Classes : r \in HoldersAt(s, C)' <=> r \in HoldersAt(s, C)
  BY <1>1, <1>8 DEF HoldersAt, Classes, Holding, Waiting, InFlight
<1>10. /\ HoldersAt(s, Holding)' = HoldersAt(s, Holding)
       /\ HoldersAt(s, InFlight)' = HoldersAt(s, InFlight)
       /\ HoldersAt(s, Waiting)' = HoldersAt(s, Waiting)
  BY <1>0, <1>7, <1>9, HoldersMove DEF Classes
<1>11. Books(s)'
  BY <1>1, <1>2, <1>4, <1>6, <1>10 DEF Books
<1>12. ASSUME NEW q \in Providers PROVE Limited(q)'
  BY <1>7, <1>8, LimitedFrame DEF InFlight
<1>13. ASSUME OneRate PROVE Earned(p)'
  <2>1. level[p] \in Nat /\ level[p] + st.tokens <= Full(st)
    BY <1>1, <1>2, <1>3, <1>13, RefreshedEarned
  <2>2. Bucket(st) = st.tokens /\ st.capacity # 0
    BY <1>4, BucketNow
  <2> QED
    BY <1>1, <1>5, <1>6, <2>1, <2>2, EarnedThen
<1>14. level' \in [Providers -> Nat] /\ "rateSleep" \in Holding
  BY <1>0, <1>5 DEF Typed, Holding, Waiting
<1> QED
  BY <1>0, <1>1, <1>4, <1>5, <1>7, <1>11, <1>12, <1>13, <1>14, StateStep

\* Everyone in flight for a provider holds its state.
LEMMA FlyingHold ==
  ASSUME IInv, NEW p \in Providers, NEW s \in States, registry[p] = s
  PROVE  Flying(p) \subseteq HoldersAt(s, InFlight)
<1> SUFFICES ASSUME NEW q \in Flying(p) PROVE q \in HoldersAt(s, InFlight)
  OBVIOUS
<1>1. q \in Requests /\ requests[q].provider = p /\ requests[q].pc \in InFlight
  BY DEF Flying
<1>2. requests[q].pc \in Holding
  BY <1>1 DEF Holding
<1> QED
  BY <1>1, <1>2, Holder DEF HoldersAt

\* The head of the queue takes a slot and a token.
LEMMA AdmitOK ==
  ASSUME IInv, NEW r \in Requests, requests[r].pc = "contend", MyTurn(r),
         NEW got, got = Refreshed(Mine(r), requests[r].rate), got.tokens >= Grain,
         SetState(StateOf(r), [got EXCEPT !.queue = Tail(@), !.waiters = @ - 1,
                                          !.active = @ + 1, !.tokens = @ - Grain]),
         level' = [level EXCEPT ![requests[r].provider] = @ + Grain],
         GoWaking(r, "admitted", TurnWaiters(StateOf(r))), registry' = registry
  PROVE  IInv'
<1>0. Typed /\ requests[r].pc \in Holding
  BY DEF IInv, Holding, Waiting
<1>1. PICK s \in States, p \in Providers :
        /\ s = StateOf(r) /\ Books(s) /\ p = requests[r].provider /\ registry[p] = s
        /\ requests[r].rate \in Rates /\ requests[r].limit \in Limits
  BY <1>0, Holder
<1>2. PICK old \in LimitState, n \in Rates : old = states[s] /\ n = requests[r].rate
  BY <1>0, <1>1 DEF Typed
<1>3. /\ got \in LimitState /\ got = Refreshed(old, n)
      /\ got.tokens <= Full(got) /\ got.capacity = n /\ got.elapsed = 0
      /\ got.queue = old.queue /\ got.waiters = old.waiters
      /\ got.active = old.active /\ got.references = old.references
  BY <1>1, <1>2, RefreshedIs
<1>4. Others(r) /\ requests'[r] = Moved(r, "admitted")
  BY <1>0, WakingMoves, WokenAre DEF Pc, Holding, InFlight
<1>5. /\ requests'[r].pc = "admitted" /\ requests'[r].state = s /\ requests'[r].provider = p
      /\ requests'[r].limit = requests[r].limit
  BY <1>0, <1>1, <1>4, MovedIs DEF Pc, Holding, InFlight
<1>6. /\ r \in HoldersAt(s, Holding)' /\ r \in HoldersAt(s, Holding)
      /\ r \in HoldersAt(s, InFlight)' /\ r \notin HoldersAt(s, InFlight)
      /\ r \notin HoldersAt(s, Waiting)' /\ r \in HoldersAt(s, Waiting)
  BY <1>1, <1>5 DEF HoldersAt, Holding, Waiting, InFlight
<1>7. /\ HoldersAt(s, Holding)' = HoldersAt(s, Holding)
      /\ HoldersAt(s, InFlight)' = HoldersAt(s, InFlight) \cup {r}
      /\ Cardinality(HoldersAt(s, InFlight)') = Cardinality(HoldersAt(s, InFlight)) + 1
      /\ HoldersAt(s, Waiting)' = HoldersAt(s, Waiting) \ {r}
  BY <1>0, <1>4, <1>6, HoldersMove DEF Classes
<1>8. PICK queue \in Seq(Requests) :
        /\ queue = Tail(old.queue) /\ Len(queue) = Len(old.queue) - 1
        /\ Tickets(queue, HoldersAt(s, Waiting)') /\ Len(old.queue) >= 1
  <2>1. PICK holders : holders = HoldersAt(s, Waiting)
    OBVIOUS
  <2>2. Tickets(old.queue, holders) /\ r \in holders /\ old.queue \in Seq(Requests)
    BY <1>1, <1>2, <1>6, <2>1 DEF Books, LimitState
  <2>3. old.queue # <<>> /\ Head(old.queue) = r
    BY <1>1, <1>2, <2>2, NoTickets DEF MyTurn
  <2>4. PICK queue : queue = Tail(old.queue)
    OBVIOUS
  <2>5. /\ queue \in Seq(Requests) /\ Len(queue) = Len(old.queue) - 1
        /\ Tickets(queue, holders \ {r}) /\ Len(old.queue) >= 1
    BY <2>2, <2>3, <2>4, TailIs
  <2> QED
    BY <1>7, <2>1, <2>4, <2>5
<1>9. PICK waiters, active, references, tokens \in Nat :
        /\ waiters = old.waiters - 1 /\ active = old.active + 1 /\ references = old.references
        /\ tokens = got.tokens - Grain
  <2>1. old.waiters = Len(old.queue) /\ old.waiters - 1 \in Nat /\ old.active + 1 \in Nat
    <3>1. old.waiters = Len(old.queue) /\ old.waiters \in Nat /\ old.active \in Nat
      BY <1>1, <1>2, Numbers DEF Books
    <3> QED
      BY <1>8, <3>1
  <2>2. got.tokens - Grain \in Nat
    BY <1>3 DEF LimitState
  <2> QED
    BY <2>1, <2>2 DEF LimitState
<1>10. PICK st : st = [got EXCEPT !.queue = queue, !.waiters = waiters, !.active = active,
                                  !.tokens = tokens]
  OBVIOUS
<1>11. /\ st.queue = queue /\ st.waiters = waiters /\ st.active = active /\ st.tokens = tokens
       /\ st.references = references /\ st.capacity = n /\ st.elapsed = 0
  BY <1>3, <1>9, <1>10 DEF LimitState
<1>12. st \in LimitState
  <2>1. PICK mid : mid = Rewrite(got, queue, waiters, active, references)
    OBVIOUS
  <2>2. mid \in LimitState
    BY <1>3, <2>1, Rewritten
  <2>3. st = [mid EXCEPT !.tokens = tokens]
    BY <1>3, <1>9, <1>10, <2>1 DEF Rewrite, LimitState
  <2> QED
    BY <2>2, <2>3 DEF LimitState
<1>13. states' = [states EXCEPT ![s] = st]
  BY <1>1, <1>3, <1>8, <1>9, <1>10 DEF LimitState
<1>14. states'[s] = st
  BY <1>0, <1>13 DEF Typed
<1>15. Full(st) = Full(got) /\ Full(st) \in Nat /\ st.tokens <= Full(st)
  <2>1. Full(st) = Full(got) /\ Full(got) \in Nat
    BY <1>3, <1>11, RefilledIs DEF Full
  <2> QED
    BY <1>3, <1>9, <1>11, <2>1, SMTT(30) DEF LimitState
<1>16. Books(s)'
  BY <1>1, <1>2, <1>7, <1>8, <1>9, <1>11, <1>14 DEF Books
<1>17. ASSUME NEW q \in Providers PROVE Limited(q)'
  <2>1. CASE q # p
    BY <1>4, <1>5, <2>1, LimitedFrame
  <2>2. CASE q = p
    <3> SUFFICES ASSUME NEW F \in SUBSET Flying(p)', F # {}
                 PROVE  \E x \in F : Cardinality(F) <= requests'[x].limit
      BY <2>2 DEF Limited
    <3>1. \A x \in Flying(p)' : x # r => x \in Flying(p) /\ requests'[x].limit = requests[x].limit
      BY <1>4 DEF Flying, Others
    <3>2. CASE r \notin F
      <4>1. F \in SUBSET Flying(p)
        BY <3>1, <3>2
      <4>2. PICK x \in F : Cardinality(F) <= requests[x].limit
        BY <4>1 DEF IInv, Limited
      <4> QED
        BY <3>1, <3>2, <4>2
    <3>3. CASE r \in F
      <4>1. F \subseteq HoldersAt(s, InFlight)'
        BY <1>1, <1>6, <3>1, FlyingHold, <1>7
      <4>2. PICK all : all = HoldersAt(s, InFlight)'
        OBVIOUS
      <4>3. IsFiniteSet(all) /\ Cardinality(all) = active
        <5>1. HoldersAt(s, InFlight)' \subseteq Requests
          BY DEF HoldersAt
        <5>2. IsFiniteSet(all)
          BY <4>2, <5>1, RequestsAssumption, FS_Subset
        <5> QED
          BY <1>1, <1>2, <1>7, <1>9, <4>2, <5>2 DEF Books
      <4>4. Cardinality(F) <= Cardinality(all) /\ IsFiniteSet(F)
        BY <4>1, <4>2, <4>3, FS_Subset
      <4>5. Cardinality(F) \in Nat
        BY <4>4, FS_CardinalityType
      <4>6. old.active < requests[r].limit /\ requests[r].limit \in Nat /\ old.active \in Nat
        BY <1>1, <1>2 DEF MyTurn, LimitState
      <4> QED
        BY <1>5, <1>9, <3>3, <4>3, <4>4, <4>5, <4>6, SMTT(30)
    <3> QED
      BY <3>2, <3>3
  <2> QED
    BY <2>1, <2>2
<1>18. level'[p] = level[p] + Grain /\ level[p] \in Nat
  BY <1>0, <1>1 DEF Typed
<1>19. level' \in [Providers -> Nat]
  BY <1>0, <1>1, SMTT(30) DEF Typed
<1>20. \A q \in Providers \ {p} : level'[q] = level[q]
  BY <1>0, <1>1 DEF Typed
<1>21. ASSUME OneRate PROVE Earned(p)'
  <2>1. level[p] \in Nat /\ level[p] + got.tokens <= Full(got)
    BY <1>1, <1>2, <1>3, <1>21, RefreshedEarned
  <2>2. Bucket(st) = st.tokens /\ st.capacity # 0
    BY <1>11, <1>12, <1>15, BucketNow
  <2>3. got.tokens \in Nat
    BY <1>3 DEF LimitState
  <2>4. level'[p] + st.tokens <= Full(st)
    BY <1>9, <1>11, <1>15, <1>18, <2>1, <2>3, SMTT(30)
  <2> QED
    BY <1>1, <1>12, <1>14, <2>2, <2>4, EarnedThen
<1>22. "admitted" \in Holding
  BY DEF Holding, InFlight
<1> QED
  BY <1>0, <1>1, <1>4, <1>12, <1>13, <1>15, <1>16, <1>17, <1>19, <1>20, <1>21,
     <1>22, StateStep, ZenonT(60)

\* One round of _admit.
LEMMA ContendOK ==
  ASSUME IInv, NEW r \in Requests, Contend(r)
  PROVE  IInv'
<1>0. requests[r].pc = "contend" /\ registry' = registry
  BY DEF Contend
<1>1. CASE Goto(r, "turnWait") /\ UNCHANGED <<states, level>>
  BY <1>0, <1>1, Quiet DEF Pc, Holding, Waiting, InFlight
<1>2. CASE SetState(StateOf(r), Refreshed(Mine(r), requests[r].rate)) /\ Goto(r, "rateSleep")
           /\ UNCHANGED level
  BY <1>0, <1>2, SleepOK
<1>3. PICK got : got = Refreshed(Mine(r), requests[r].rate)
  OBVIOUS
<1>4. CASE /\ MyTurn(r) /\ got.tokens >= Grain
           /\ SetState(StateOf(r), [got EXCEPT !.queue = Tail(@), !.waiters = @ - 1,
                                               !.active = @ + 1, !.tokens = @ - Grain])
           /\ level' = [level EXCEPT ![requests[r].provider] = @ + Grain]
           /\ GoWaking(r, "admitted", TurnWaiters(StateOf(r)))
  BY <1>0, <1>3, <1>4, AdmitOK
<1> QED
  BY <1>1, <1>2, <1>3, <1>4 DEF Contend

\* A token that was not used is put back.
LEMMA RefundOK ==
  ASSUME IInv, NEW r \in Requests, Refund(r)
  PROVE  IInv'
<1>0. Typed /\ requests[r].pc = "refunding" /\ requests[r].pc \in Holding
  BY DEF IInv, Refund, Holding, InFlight
<1>1. PICK s \in States, p \in Providers :
        s = StateOf(r) /\ Books(s) /\ p = requests[r].provider /\ registry[p] = s
  BY <1>0, Holder
<1>2. PICK old \in LimitState : old = states[s]
  BY <1>0, <1>1 DEF Typed
<1>3. PICK mid \in LimitState :
        /\ mid = Refilled(old) /\ mid.tokens = Bucket(old) /\ mid.tokens <= Full(old)
        /\ mid.elapsed = 0 /\ mid.capacity = old.capacity
        /\ mid.queue = old.queue /\ mid.waiters = old.waiters
        /\ mid.active = old.active /\ mid.references = old.references
  BY RefilledIs
<1>4. Full(mid) = Full(old) /\ Full(old) \in Nat /\ Bucket(old) \in Nat /\ Grain \in Nat
  BY <1>3, Numbers DEF Full
<1>5. PICK tokens \in Nat : tokens = Least(Full(old), Bucket(old) + Grain)
  BY <1>4 DEF Least
<1>6. tokens <= Full(old) /\ tokens <= Bucket(old) + Grain
  BY <1>4, <1>5 DEF Least
<1>7. PICK st : st = [mid EXCEPT !.tokens = tokens]
  OBVIOUS
<1>8. /\ st \in LimitState /\ st.tokens = tokens /\ st.elapsed = 0 /\ st.capacity = old.capacity
      /\ st.queue = old.queue /\ st.waiters = old.waiters
      /\ st.active = old.active /\ st.references = old.references
  BY <1>3, <1>7, SMTT(30) DEF LimitState
<1>9. states' = [states EXCEPT ![s] = st]
  BY <1>1, <1>2, <1>3, <1>4, <1>5, <1>7 DEF Refund, LimitState
<1>10. states'[s] = st
  BY <1>0, <1>9 DEF Typed
<1>11. Full(st) = Full(old) /\ st.tokens <= Full(st)
  BY <1>6, <1>8 DEF Full
<1>12. Others(r) /\ requests'[r] = Moved(r, "releasing")
  <2>1. GoWaking(r, "releasing", TurnWaiters(StateOf(r)) \cup RegistryWaiters)
    BY DEF Refund
  <2> QED
    BY <1>0, <2>1, WakingMoves, WokenAre DEF Pc, Holding, InFlight
<1>13. /\ requests'[r].pc = "releasing" /\ requests'[r].state = s /\ requests'[r].provider = p
       /\ requests'[r].limit = requests[r].limit
  BY <1>0, <1>1, <1>12, MovedIs DEF Pc, Holding, InFlight
<1>14. \A C \in Classes : r \in HoldersAt(s, C)' <=> r \in HoldersAt(s, C)
  BY <1>0, <1>1, <1>13 DEF HoldersAt, Classes, Holding, Waiting, InFlight
<1>15. /\ HoldersAt(s, Holding)' = HoldersAt(s, Holding)
       /\ HoldersAt(s, InFlight)' = HoldersAt(s, InFlight)
       /\ HoldersAt(s, Waiting)' = HoldersAt(s, Waiting)
  BY <1>0, <1>12, <1>14, HoldersMove DEF Classes
<1>16. Books(s)'
  BY <1>1, <1>2, <1>8, <1>10, <1>15 DEF Books
<1>17. ASSUME NEW q \in Providers PROVE Limited(q)'
  BY <1>0, <1>1, <1>12, <1>13, LimitedFrame DEF InFlight
<1>18. level[p] \in Nat /\ level'[p] = Less(level[p], Grain) /\ registry' = registry
  BY <1>0, <1>1 DEF Typed, Refund
<1>19. \A q \in Providers \ {p} : level'[q] = level[q]
  BY <1>0, <1>1 DEF Typed, Refund
<1>20. level' \in [Providers -> Nat]
  <2>1. Less(level[p], Grain) \in Nat
    BY <1>4, <1>18 DEF Less
  <2> QED
    BY <1>0, <1>1, <2>1 DEF Typed, Refund
<1>21. ASSUME OneRate PROVE Earned(p)'
  <2>1. /\ old.capacity = 0 => level[p] = 0
        /\ old.capacity # 0 => level[p] + Bucket(old) <= Full(old)
    BY <1>1, <1>2, <1>21, EarnedNow
  <2>2. Bucket(st) = tokens
    BY <1>8, <1>11, BucketNow
  <2>3. st.capacity = 0 => level'[p] = 0
    BY <1>4, <1>8, <1>18, <2>1 DEF Less
  <2>4. st.capacity # 0 => level'[p] + Bucket(st) <= Full(st)
    BY <1>4, <1>6, <1>8, <1>11, <1>18, <2>1, <2>2 DEF Less
  <2> QED
    BY <1>1, <1>8, <1>10, <1>18, <2>3, <2>4, EarnedThen
<1>22. "releasing" \in Holding
  BY DEF Holding, InFlight
<1> QED
  BY <1>0, <1>1, <1>8, <1>9, <1>11, <1>12, <1>16, <1>17, <1>18, <1>19, <1>20, <1>21,
     <1>22, StateStep, ZenonT(60)

-----------------------------------------------------------------------------
(* Time *)

\* A tick earns one part for each token of the capacity, in the bucket and in the account.
LEMMA TickOK ==
  ASSUME IInv, Tick
  PROVE  IInv'
<1>0. Typed /\ registry' = registry /\ requests' = requests
  BY DEF IInv, Tick
<1>1. ASSUME NEW s \in States
      PROVE  /\ states'[s] \in LimitState
             /\ states'[s].capacity = states[s].capacity /\ states'[s].tokens = states[s].tokens
             /\ states'[s].queue = states[s].queue /\ states'[s].waiters = states[s].waiters
             /\ states'[s].active = states[s].active
             /\ states'[s].references = states[s].references
             /\ states'[s].elapsed \in {states[s].elapsed, states[s].elapsed + 1}
  <2>1. PICK old \in LimitState : old = states[s]
    BY <1>0 DEF Typed
  <2>2. CASE old.capacity = 0
    BY <1>0, <2>1, <2>2 DEF Tick
  <2>3. CASE old.capacity # 0
    <3>1. PICK e \in 0..Grain :
            e = Least(Grain, old.elapsed + 1) /\ e \in {old.elapsed, old.elapsed + 1}
      BY DEF Least, LimitState
    <3>2. states'[s] = [old EXCEPT !.elapsed = e]
      BY <2>1, <2>3, <3>1 DEF Tick, LimitState
    <3> QED
      BY <2>1, <3>1, <3>2 DEF LimitState
  <2> QED
    BY <2>2, <2>3
<1>2. states' \in [States -> LimitState]
  <2>1. states' = [s \in States |-> states'[s]]
    BY DEF Tick
  <2> QED
    BY <1>1, <2>1
<1>3. \A s \in States : states'[s].tokens <= Full(states'[s])
  BY <1>0, <1>1 DEF Typed, Full
<1>4. TopRate \in Nat \ {0}
  BY TopRateIs
<1>5. level' \in [Providers -> Nat] /\ \A p \in Providers : level'[p] = Less(level[p], TopRate)
  <2>1. \A p \in Providers : level[p] \in Nat /\ Less(level[p], TopRate) \in Nat
    BY <1>0, <1>4 DEF Typed, Less
  <2> QED
    BY <2>1 DEF Tick
<1>6. Typed' /\ OneOwner'
  BY <1>0, <1>2, <1>3, <1>5 DEF IInv, Typed, OneOwner, Full
<1>7. \A r \in Requests : Held(r)'
  BY <1>0 DEF IInv, Held
<1>8. ASSUME NEW s \in States PROVE Books(s)'
  <2>1. \A C : HoldersAt(s, C)' = HoldersAt(s, C)
    BY <1>0 DEF HoldersAt
  <2>2. Books(s)
    BY DEF IInv
  <2> QED
    BY <1>1, <2>1, <2>2 DEF Books
<1>9. ASSUME NEW p \in Providers PROVE Limited(p)'
  <2>1. Limited(p)
    BY DEF IInv
  <2> QED
    BY <1>0, <2>1 DEF Limited, Flying
<1>10. ASSUME OneRate, NEW p \in Providers PROVE Earned(p)'
  <2>0. level'[p] = Less(level[p], TopRate) /\ level[p] \in Nat
    BY <1>0, <1>5 DEF Typed
  <2>1. CASE registry[p] = None
    <3>1. level[p] = 0
      BY <1>10, <2>1 DEF IInv, Earned
    <3> QED
      BY <1>0, <1>4, <2>0, <2>1, <3>1 DEF Earned, Less
  <2>2. CASE registry[p] # None
    <3>1. PICK s \in States : s = registry[p]
      BY <1>0, <2>2 DEF Typed
    <3>2. PICK old, new \in LimitState : old = states[s] /\ new = states'[s]
      BY <1>0, <1>2 DEF Typed
    <3>3. /\ new.capacity = old.capacity /\ new.tokens = old.tokens
          /\ new.elapsed \in {old.elapsed, old.elapsed + 1}
      BY <1>1, <3>2
    <3>4. /\ old.capacity = 0 => level[p] = 0
          /\ old.capacity # 0 => level[p] + Bucket(old) <= Full(old)
      BY <1>10, <3>1, <3>2, EarnedNow
    <3>5. CASE new.capacity = 0
      <4>1. level'[p] = 0
        BY <1>4, <2>0, <3>3, <3>4, <3>5 DEF Less
      <4> QED
        BY <1>0, <3>1, <3>2, <3>5, <4>1, EarnedThen
    <3>6. CASE new.capacity # 0
      <4>1. PICK c \in Nat : c = old.capacity /\ c = TopRate
        BY <1>10, <3>3, <3>6, TopRateIs DEF OneRate, LimitState
      <4>2. PICK e, f, t, full \in Nat :
              /\ e = old.elapsed /\ f = new.elapsed /\ t = old.tokens /\ full = Full(old)
              /\ Full(new) = full
        BY <3>3, Numbers DEF Full
      <4>3. PICK x, y \in Nat : x = e * c /\ y = f * c
        OBVIOUS
      <4>4. y = x \/ y = x + c
        <5>1. CASE f = e
          BY <4>3, <5>1
        <5>2. CASE f = e + 1
          <6>1. (e + 1) * c = e * c + c
            OBVIOUS
          <6> QED
            BY <4>3, <5>2, <6>1
        <5> QED
          BY <3>3, <4>2, <5>1, <5>2
      <4>5. Bucket(old) = Least(full, t + x) /\ Bucket(new) = Least(full, t + y)
        BY <3>3, <4>1, <4>2, <4>3 DEF Bucket
      <4>6. level'[p] + Bucket(new) <= full
        <5>1. level[p] + Least(full, t + x) <= full
          BY <3>3, <3>4, <3>6, <4>2, <4>5
        <5>2. level'[p] = IF level[p] < c THEN 0 ELSE level[p] - c
          BY <2>0, <4>1 DEF Less
        <5> QED
          BY <2>0, <4>4, <4>5, <5>1, <5>2 DEF Least
      <4> QED
        BY <1>0, <3>1, <3>2, <3>6, <4>2, <4>6, EarnedThen
    <3> QED
      BY <3>5, <3>6
  <2> QED
    BY <2>1, <2>2
<1> QED
  BY <1>6, <1>7, <1>8, <1>9, <1>10 DEF IInv

-----------------------------------------------------------------------------
(* Reclaiming *)

\* A new limit state.
LEMMA NewStateIs ==
  NewState \in LimitState /\ NewState.tokens <= Full(NewState)
<1>1. /\ NewState.tokens = 0 /\ NewState.capacity = 0
      /\ <<>> \in Seq(Requests) /\ 0 \in 0..Grain /\ 0 \in Rates \cup {0}
  BY DEF NewState
<1>2. NewState \in LimitState
  BY <1>1 DEF NewState, LimitState
<1>3. Full(NewState) \in Nat
  BY <1>2, Numbers
<1> QED
  BY <1>1, <1>2, <1>3

\* Pruning only drops.
LEMMA PrunedIs ==
  ASSUME Typed, NEW p \in Providers
  PROVE  Pruned[p] \in States \cup {None} /\ Pruned[p] \in {registry[p], None}
BY DEF Pruned, Typed

\* Forgetting a state forgets nobody, and nothing of what was taken.
LEMMA Dropped ==
  ASSUME IInv, NEW p \in Providers, registry[p] # None, Pruned[p] = None
  PROVE  /\ HoldersAt(registry[p], Holding) = {}
         /\ OneRate => level[p] = 0
<1>1. PICK s \in States : s = registry[p]
  BY DEF IInv, Typed
<1>2. PICK st \in LimitState : st = states[s]
  BY DEF IInv, Typed
<1>3. Reclaimable(st)
  BY <1>1, <1>2 DEF Pruned
<1>4. HoldersAt(s, Holding) = {}
  <2>1. Cardinality(HoldersAt(s, Holding)) = 0
    BY <1>2, <1>3 DEF IInv, Books, Reclaimable, Unused
  <2>2. PICK holders : holders = HoldersAt(s, Holding)
    OBVIOUS
  <2>3. IsFiniteSet(holders)
    BY <2>2, HoldersFinite
  <2> QED
    BY <2>1, <2>2, <2>3, FS_EmptySet
<1>5. ASSUME OneRate PROVE level[p] = 0
  <2>1. /\ level[p] \in Nat /\ (st.capacity = 0 => level[p] = 0)
        /\ (st.capacity # 0 => level[p] + Bucket(st) <= Full(st))
    BY <1>1, <1>2, <1>5, EarnedNow
  <2>2. Refilled(st).tokens = Bucket(st) /\ Full(st) \in Nat
    BY RefilledIs
  <2>3. st.capacity = 0 \/ Bucket(st) = Full(st)
    BY <1>3, <2>2 DEF Reclaimable
  <2> QED
    BY <2>1, <2>2, <2>3
<1> QED
  BY <1>1, <1>4, <1>5

\* Nobody loses the state he holds.
LEMMA PrunedHolders ==
  ASSUME IInv, NEW q \in Requests, requests[q].pc \in Holding
  PROVE  Pruned[requests[q].provider] = StateOf(q) /\ InUse(StateOf(q))
<1>1. PICK s \in States, p \in Providers :
        s = StateOf(q) /\ p = requests[q].provider /\ registry[p] = s
  BY Holder
<1>2. q \in HoldersAt(s, Holding)
  BY <1>1 DEF HoldersAt
<1>3. Pruned[p] # None
  BY <1>1, <1>2, Dropped
<1>4. Typed
  BY DEF IInv
<1> QED
  BY <1>1, <1>3, <1>4, PrunedIs DEF InUse

\* The name of a state is free again only when nobody holds it.
LEMMA CollectedIs ==
  ASSUME NEW s \in States
  PROVE  /\ InUse(s) => Collected[s] = states[s]
         /\ ~InUse(s) => Collected[s] = NewState /\ \A C \in Classes : HoldersAt(s, C) = {}
BY DEF Collected, InUse, HoldersAt

\* The states that are left are limit states.
LEMMA CollectedTyped ==
  ASSUME Typed
  PROVE  /\ Collected \in [States -> LimitState]
         /\ \A s \in States : Collected[s].tokens <= Full(Collected[s])
<1>1. \A s \in States : Collected[s] = states[s] \/ Collected[s] = NewState
  BY CollectedIs
<1>2. Collected = [s \in States |-> Collected[s]]
  BY DEF Collected
<1>3. \A s \in States : Collected[s] \in LimitState /\ Collected[s].tokens <= Full(Collected[s])
  BY <1>1, NewStateIs DEF Typed
<1> QED
  BY <1>2, <1>3

\* Their books stay true.
LEMMA CollectedBooks ==
  ASSUME IInv, NEW r \in Requests, Others(r), NEW s \in States, states'[s] = Collected[s],
         \A C \in Classes : r \notin HoldersAt(s, C)' /\ r \notin HoldersAt(s, C)
  PROVE  Books(s)'
<1>0. Typed
  BY DEF IInv
<1>1. CASE InUse(s)
  <2>1. states'[s] = states[s]
    BY <1>1, CollectedIs
  <2> QED
    BY <1>0, <2>1, BooksFrame DEF IInv
<1>2. CASE ~InUse(s)
  <2>1. /\ states'[s] = NewState
        /\ HoldersAt(s, Holding) = {} /\ HoldersAt(s, Waiting) = {} /\ HoldersAt(s, InFlight) = {}
    BY <1>2, CollectedIs DEF Classes
  <2>2. /\ HoldersAt(s, Holding)' = {} /\ HoldersAt(s, Waiting)' = {}
        /\ HoldersAt(s, InFlight)' = {}
    BY <1>0, <2>1, HoldersMove DEF Classes
  <2>3. Cardinality({}) = 0
    BY FS_EmptySet
  <2>4. Len(<<>>) = 0 /\ Tickets(<<>>, {})
    BY DEF Tickets
  <2> QED
    BY <2>1, <2>2, <2>3, <2>4 DEF Books, NewState
<1> QED
  BY <1>1, <1>2

\* Dropping a state forgets nothing of what was taken.
LEMMA PrunedEarned ==
  ASSUME IInv, Typed', OneRate, NEW p \in Providers, registry'[p] = Pruned[p], level'[p] = level[p],
         Pruned[p] # None => states'[Pruned[p]] = states[Pruned[p]]
  PROVE  Earned(p)'
<1>0. Typed /\ Earned(p)
  BY DEF IInv
<1>1. CASE Pruned[p] = None
  <2>1. level[p] = 0
    <3>1. CASE registry[p] = None
      BY <1>0, <3>1 DEF Earned
    <3>2. CASE registry[p] # None
      BY <1>1, <3>2, Dropped
    <3> QED
      BY <3>1, <3>2
  <2> QED
    BY <1>1, <2>1 DEF Earned
<1>2. CASE Pruned[p] # None
  <2>1. Pruned[p] = registry[p]
    BY <1>0, <1>2, PrunedIs
  <2> QED
    BY <1>0, <1>2, <2>1, EarnedFrame
<1> QED
  BY <1>1, <1>2

\* States that are due are forgotten and the request waits for room.
LEMMA RegistryFullOK ==
  ASSUME IInv, NEW r \in Requests, RegistryFull(r)
  PROVE  IInv'
<1>0. Typed /\ requests[r].pc = "lookup" /\ Held(r)
  BY DEF IInv, RegistryFull
<1>1. PICK pc \in {"registrySleep", "registryWait"} : Goto(r, pc)
  BY DEF RegistryFull
<1>2. pc \in Pc /\ pc \notin Holding /\ pc # "done" /\ pc # "new"
      /\ requests[r].pc \notin Holding /\ requests[r].pc \notin {"new", "done"}
  BY <1>0 DEF Pc, Holding, Waiting, InFlight
<1>3. Others(r) /\ requests'[r] = Moved(r, pc)
  BY <1>0, <1>1, <1>2, GotoMoves
<1>4. /\ requests'[r].pc = pc /\ requests'[r].state = requests[r].state
      /\ requests'[r].provider = requests[r].provider /\ requests'[r].limit = requests[r].limit
      /\ requests'[r].rate = requests[r].rate
  BY <1>0, <1>2, <1>3, MovedIs
<1>5. registry' = Pruned /\ states' = Collected /\ level' = level
  BY DEF RegistryFull
<1>6. Typed' /\ OneOwner'
  <2>1. registry' \in [Providers -> States \cup {None}]
    BY <1>0, <1>5, PrunedIs DEF Pruned
  <2>2. \A p, q \in Providers : registry'[p] # None /\ registry'[p] = registry'[q] => p = q
    BY <1>0, <1>5, PrunedIs DEF IInv, OneOwner
  <2> QED
    BY <1>0, <1>3, <1>5, <2>1, <2>2, CollectedTyped DEF Typed, OneOwner, Others, Full
<1>7. ASSUME NEW q \in Requests PROVE Held(q)'
  <2>1. CASE q = r
    BY <1>0, <1>2, <1>4, <2>1 DEF Held
  <2>2. CASE q # r
    <3>1. Held(q)
      BY DEF IInv
    <3>2. requests[q].pc \in Holding => registry'[requests[q].provider] = StateOf(q)
      BY <1>5, PrunedHolders
    <3> QED
      BY <1>3, <2>2, <3>1, <3>2 DEF Held, Others
  <2> QED
    BY <2>1, <2>2
<1>8. ASSUME NEW s \in States PROVE Books(s)'
  <2>1. requests[r].state = None
    BY <1>0, <1>2 DEF Held
  <2>2. \A C \in Classes : r \notin HoldersAt(s, C)' /\ r \notin HoldersAt(s, C)
    BY <1>4, <2>1 DEF HoldersAt
  <2> QED
    BY <1>3, <1>5, <2>2, CollectedBooks
<1>9. ASSUME NEW p \in Providers PROVE Limited(p)'
  <2>1. requests'[r].pc \notin InFlight
    BY <1>2, <1>4 DEF Holding
  <2> QED
    BY <1>3, <2>1, LimitedFrame
<1>10. ASSUME OneRate, NEW p \in Providers PROVE Earned(p)'
  <2>1. Pruned[p] # None => states'[Pruned[p]] = states[Pruned[p]]
    <3>1. SUFFICES ASSUME Pruned[p] # None PROVE states'[Pruned[p]] = states[Pruned[p]]
      OBVIOUS
    <3>2. PICK s \in States : s = Pruned[p]
      BY <1>0, <3>1, PrunedIs
    <3>3. InUse(s)
      BY <3>2 DEF InUse
    <3> QED
      BY <1>5, <3>2, <3>3, CollectedIs
  <2> QED
    BY <1>5, <1>6, <1>10, <2>1, PrunedEarned
<1> QED
  BY <1>6, <1>7, <1>8, <1>9, <1>10 DEF IInv

\* A new state in the room that is left.
LEMMA CreateStateOK ==
  ASSUME IInv, NEW r \in Requests, CreateState(r)
  PROVE  IInv'
<1>0. Typed /\ requests[r].pc = "lookup" /\ Held(r) /\ level' = level
      /\ requests[r].pc \notin Holding /\ requests[r].pc \notin {"new", "done"}
  BY DEF IInv, CreateState, Holding, Waiting, InFlight
<1>1. PICK p \in Providers : p = requests[r].provider /\ registry[p] = None
                             /\ requests[r].limit \in Limits /\ requests[r].rate \in Rates
                             /\ requests[r].state = None
  BY <1>0 DEF Held, CreateState
<1>2. PICK s \in States : ~InUse(s) /\ s = CHOOSE t \in States : ~InUse(t)
  BY DEF CreateState
<1>3. /\ registry' = [Pruned EXCEPT ![p] = s]
      /\ states' = [Collected EXCEPT ![s] = [Collected[s] EXCEPT !.references = 1]]
      /\ requests' = [requests EXCEPT ![r] = [requests[r] EXCEPT !.pc = "referenced", !.state = s]]
  BY <1>1, <1>2 DEF CreateState
<1>4. /\ requests'[r] = [requests[r] EXCEPT !.pc = "referenced", !.state = s]
      /\ requests[r] \in Request /\ \A q \in Requests \ {r} : requests'[q] = requests[q]
  BY <1>0, <1>3 DEF Typed
<1>5. /\ requests'[r] \in Request /\ requests'[r].pc = "referenced" /\ requests'[r].state = s
      /\ requests'[r].provider = p /\ requests'[r].limit = requests[r].limit
      /\ requests'[r].rate = requests[r].rate
  BY <1>1, <1>4 DEF Request, Pc, Holding
<1>6. Others(r)
  BY <1>0, <1>3, <1>4, <1>5 DEF Others, Typed
<1>7. /\ registry' \in [Providers -> States \cup {None}] /\ registry'[p] = s
      /\ \A q \in Providers \ {p} : registry'[q] = Pruned[q]
  <2>1. Pruned \in [Providers -> States \cup {None}]
    BY <1>0, PrunedIs DEF Pruned
  <2> QED
    BY <1>3, <2>1
<1>8. PICK st : st = [NewState EXCEPT !.references = 1]
  OBVIOUS
<1>9. /\ st \in LimitState /\ st.references = 1 /\ st.active = 0 /\ st.waiters = 0
      /\ st.queue = <<>> /\ st.capacity = 0 /\ st.tokens = 0
  <2>1. NewState \in LimitState
    BY NewStateIs
  <2>2. st \in LimitState
    BY <1>8, <2>1 DEF LimitState
  <2> QED
    BY <1>8, <2>2 DEF NewState
<1>10. states'[s] = st /\ \A t \in States \ {s} : states'[t] = Collected[t]
  <2>1. Collected[s] = NewState /\ Collected \in [States -> LimitState]
    BY <1>0, <1>2, CollectedIs, CollectedTyped
  <2> QED
    BY <1>3, <1>8, <2>1
<1>11. Typed'
  <2>1. /\ states' \in [States -> LimitState]
        /\ \A t \in States : states'[t].tokens <= Full(states'[t])
    <3>1. \A t \in States \ {s} :
            states'[t] \in LimitState /\ states'[t].tokens <= Full(states'[t])
      BY <1>0, <1>10, CollectedTyped
    <3>2. st.tokens <= Full(st)
      BY <1>9, Numbers
    <3>3. states' = [t \in States |-> states'[t]]
      BY <1>3 DEF Collected
    <3> QED
      BY <1>9, <1>10, <3>1, <3>2, <3>3
  <2> QED
    BY <1>0, <1>6, <1>7, <2>1 DEF Typed, Others, Full
<1>12. OneOwner'
  <2>1. \A q \in Providers \ {p} : registry'[q] \in {registry[q], None} /\ registry'[q] # s
    BY <1>0, <1>2, <1>7, PrunedIs DEF InUse
  <2> QED
    BY <1>7, <2>1 DEF IInv, OneOwner
<1>13. ASSUME NEW q \in Requests PROVE Held(q)'
  <2>1. CASE q = r
    BY <1>1, <1>5, <1>7, <2>1 DEF Held, Holding
  <2>2. CASE q # r
    <3>1. Held(q)
      BY DEF IInv
    <3>2. requests[q].pc \in Holding => registry'[requests[q].provider] = StateOf(q)
      <4>1. SUFFICES ASSUME requests[q].pc \in Holding
                     PROVE  registry'[requests[q].provider] = StateOf(q)
        OBVIOUS
      <4>2. /\ requests[q].provider \in Providers /\ StateOf(q) \in States
            /\ registry[requests[q].provider] = StateOf(q)
        BY <4>1, Holder
      <4>3. Pruned[requests[q].provider] = StateOf(q)
        BY <4>1, PrunedHolders
      <4> QED
        BY <1>1, <1>7, <4>2, <4>3
    <3> QED
      BY <1>6, <2>2, <3>1, <3>2 DEF Held, Others
  <2> QED
    BY <2>1, <2>2
<1>14. ASSUME NEW t \in States PROVE Books(t)'
  <2>1. CASE t # s
    <3>1. \A C \in Classes : r \notin HoldersAt(t, C)' /\ r \notin HoldersAt(t, C)
      BY <1>1, <1>5, <2>1 DEF HoldersAt
    <3> QED
      BY <1>6, <1>10, <2>1, <3>1, CollectedBooks
  <2>2. CASE t = s
    <3>1. /\ HoldersAt(s, Holding) = {} /\ HoldersAt(s, Waiting) = {} /\ HoldersAt(s, InFlight) = {}
      BY <1>2, CollectedIs DEF Classes
    <3>2. /\ r \in HoldersAt(s, Holding)' /\ r \notin HoldersAt(s, Waiting)'
          /\ r \notin HoldersAt(s, InFlight)'
      BY <1>5 DEF HoldersAt, Holding, Waiting, InFlight
    <3>3. /\ Cardinality(HoldersAt(s, Holding)') = Cardinality(HoldersAt(s, Holding)) + 1
          /\ HoldersAt(s, Waiting)' = {} /\ HoldersAt(s, InFlight)' = {}
      BY <1>0, <1>6, <3>1, <3>2, HoldersMove DEF Classes
    <3>4. Cardinality({}) = 0
      BY FS_EmptySet
    <3>5. Len(<<>>) = 0 /\ Tickets(<<>>, {})
      BY DEF Tickets
    <3> QED
      BY <1>9, <1>10, <2>2, <3>1, <3>3, <3>4, <3>5 DEF Books
  <2> QED
    BY <2>1, <2>2
<1>15. ASSUME NEW q \in Providers PROVE Limited(q)'
  BY <1>5, <1>6, LimitedFrame DEF InFlight
<1>16. ASSUME OneRate, NEW q \in Providers PROVE Earned(q)'
  <2>1. CASE q = p
    <3>1. level[p] = 0
      BY <1>1, <1>16 DEF IInv, Earned
    <3> QED
      BY <1>0, <1>7, <1>9, <1>10, <2>1, <3>1, EarnedThen
  <2>2. CASE q # p
    <3>1. Pruned[q] # None => states'[Pruned[q]] = states[Pruned[q]]
      <4>1. SUFFICES ASSUME Pruned[q] # None PROVE states'[Pruned[q]] = states[Pruned[q]]
        OBVIOUS
      <4>2. PICK t \in States : t = Pruned[q]
        BY <1>0, <4>1, PrunedIs
      <4>3. InUse(t) /\ t # s
        BY <1>2, <4>2 DEF InUse
      <4> QED
        BY <1>10, <4>2, <4>3, CollectedIs
    <3> QED
      BY <1>0, <1>7, <1>11, <1>16, <2>2, <3>1, PrunedEarned
  <2> QED
    BY <2>1, <2>2
<1> QED
  BY <1>11, <1>12, <1>13, <1>14, <1>15, <1>16 DEF IInv

-----------------------------------------------------------------------------
\* A gateway that was just made.
LEMMA Starts ==
  ASSUME Init
  PROVE  IInv
<1>1. Typed
  <2>1. NewRequest \in Request
    BY DEF NewRequest, Request, Pc
  <2> QED
    BY <2>1, NewStateIs DEF Init, Typed
<1>2. OneOwner
  BY DEF Init, OneOwner
<1>3. \A r \in Requests : Held(r)
  BY DEF Init, Held, NewRequest, Holding, Waiting, InFlight
<1>4. ASSUME NEW s \in States PROVE Books(s)
  <2>1. HoldersAt(s, Holding) = {} /\ HoldersAt(s, Waiting) = {} /\ HoldersAt(s, InFlight) = {}
    BY DEF Init, HoldersAt, NewRequest, Holding, Waiting, InFlight
  <2>2. Cardinality({}) = 0
    BY FS_EmptySet
  <2>3. Len(<<>>) = 0 /\ Tickets(<<>>, {})
    BY DEF Tickets
  <2> QED
    BY <2>1, <2>2, <2>3 DEF Init, Books, NewState
<1>5. ASSUME NEW p \in Providers PROVE Limited(p)
  <2>1. Flying(p) = {}
    BY DEF Init, Flying, NewRequest, InFlight
  <2> QED
    BY <2>1 DEF Limited
<1>6. \A p \in Providers : Earned(p)
  BY DEF Init, Earned
<1> QED
  BY <1>1, <1>2, <1>3, <1>4, <1>5, <1>6 DEF IInv

\* Every step keeps the invariant.
LEMMA Steps ==
  ASSUME IInv, [Next]_vars
  PROVE  IInv'
<1>1. CASE UNCHANGED vars
  <2>1. registry' = registry /\ states' = states /\ requests' = requests /\ level' = level
    BY <1>1 DEF vars
  <2>2. Typed' /\ OneOwner' /\ \A r \in Requests : Held(r)'
    BY <2>1 DEF IInv, Typed, OneOwner, Held, Full
  <2>3. \A s \in States : Books(s)'
    BY <2>1 DEF IInv, Books, HoldersAt
  <2>4. \A p \in Providers : Limited(p)'
    BY <2>1 DEF IInv, Limited, Flying
  <2>5. ASSUME OneRate, NEW p \in Providers PROVE Earned(p)'
    BY <2>1, <2>2, <2>5, EarnedFrame DEF IInv
  <2> QED
    BY <2>2, <2>3, <2>4, <2>5 DEF IInv
<1>2. CASE Tick
  BY <1>2, TickOK
<1>3. ASSUME NEW r \in Requests, Start(r) \/ RequestStep(r) \/ Cancel(r) PROVE IInv'
  BY <1>3, StartOK, CancelOK, FindStateOK, CreateStateOK, RegistryFullOK, QuietActions, EnqueueOK,
     ContendOK, RemoveTicketOK, RefundOK, ReleaseOK, LeaveOK DEF RequestStep
<1> QED
  BY <1>1, <1>2, <1>3 DEF Next

\* The invariant says that the limits are respected.
LEMMA Suffices ==
  ASSUME IInv
  PROVE  LimitsRespected
<1>0. Typed
  BY DEF IInv
<1>1. TypeOK
  <2>1. ASSUME NEW s \in States
        PROVE  /\ DOMAIN states[s] = DOMAIN NewState
               /\ states[s].capacity \in Rates \cup {0} /\ states[s].elapsed \in 0 .. Grain
    <3>1. PICK st \in LimitState : st = states[s]
      BY <1>0 DEF Typed
    <3>2. DOMAIN st = {"queue", "waiters", "active", "references", "capacity", "tokens", "elapsed"}
      BY DEF LimitState
    <3>3. DOMAIN NewState = {"queue", "waiters", "active", "references", "capacity", "tokens", "elapsed"}
      BY DEF NewState
    <3>4. st.capacity \in Rates \cup {0} /\ st.elapsed \in 0 .. Grain
      BY DEF LimitState
    <3> QED
      BY <3>1, <3>2, <3>3, <3>4
  <2>2. ASSUME NEW s \in States PROVE states[s].tokens \in 0 .. Full(states[s])
    <3>1. PICK st \in LimitState : st = states[s] /\ st.tokens <= Full(st)
      BY <1>0 DEF Typed
    <3> QED
      BY <3>1, Numbers
  <2> QED
    BY <1>0, <2>1, <2>2 DEF Typed, TypeOK
<1>2. AccountsExact
  <2> SUFFICES ASSUME NEW s \in States
               PROVE  /\ states[s].references = Cardinality(HoldersAt(s, Holding))
                      /\ states[s].active = Cardinality(HoldersAt(s, InFlight))
                      /\ {states[s].queue[i] : i \in DOMAIN states[s].queue} = HoldersAt(s, Waiting)
                      /\ Len(states[s].queue) = Cardinality(HoldersAt(s, Waiting))
                      /\ states[s].waiters = Len(states[s].queue)
    BY DEF AccountsExact
  <2>1. Books(s)
    BY DEF IInv
  <2>2. PICK queue \in Seq(Requests) : queue = states[s].queue
    BY <1>0 DEF Typed, LimitState
  <2>3. PICK holders : holders = HoldersAt(s, Waiting)
    OBVIOUS
  <2>4. Tickets(queue, holders)
    BY <2>1, <2>2, <2>3 DEF Books
  <2>5. IsFiniteSet(holders)
    BY <2>3, HoldersFinite
  <2>6. Len(queue) = Cardinality(holders)
    BY <2>4, <2>5, TicketCount
  <2>7. {queue[i] : i \in DOMAIN queue} = holders
    BY <2>4 DEF Tickets
  <2> QED
    BY <2>1, <2>2, <2>3, <2>6, <2>7 DEF Books
<1>3. InFlightWithinLimit
  <2> SUFFICES ASSUME NEW p \in Providers, Flying(p) # {}
               PROVE  \E r \in Flying(p) : Cardinality(Flying(p)) <= requests[r].limit
    BY DEF InFlightWithinLimit, Flying
  <2>1. Limited(p)
    BY DEF IInv
  <2> QED
    BY <2>1 DEF Limited
<1>4. RateRespected
  <2> SUFFICES ASSUME OneRate, NEW p \in Providers PROVE level[p] <= TopRate * Grain
    BY DEF RateRespected, OneRate
  <2>1. TopRate \in Nat /\ Grain \in Nat /\ TopRate * Grain \in Nat
    BY TopRateIs
  <2>2. Earned(p) /\ level[p] \in Nat
    BY <1>0 DEF IInv, Typed
  <2>3. CASE registry[p] = None
    BY <2>1, <2>2, <2>3 DEF Earned
  <2>4. CASE registry[p] # None
    <3>1. PICK s \in States : s = registry[p]
      BY <1>0, <2>4 DEF Typed
    <3>2. PICK st \in LimitState : st = states[s]
      BY <1>0 DEF Typed
    <3>3. /\ st.capacity = 0 => level[p] = 0
          /\ st.capacity # 0 => level[p] + Bucket(st) <= Full(st)
      BY <3>1, <3>2, EarnedNow
    <3>4. CASE st.capacity = 0
      BY <2>1, <3>3, <3>4
    <3>5. CASE st.capacity # 0
      <4>1. st.capacity = TopRate
        BY <3>5, TopRateIs DEF OneRate, LimitState
      <4>2. Full(st) = TopRate * Grain /\ Bucket(st) \in Nat
        BY <4>1, Numbers DEF Full
      <4> QED
        BY <2>1, <2>2, <3>3, <3>5, <4>2
    <3> QED
      BY <3>4, <3>5
  <2> QED
    BY <2>3, <2>4
<1> QED
  BY <1>1, <1>2, <1>3, <1>4 DEF LimitsRespected

\* For any number of requests, providers and limits, whoever is cancelled where
\* and whatever states are dropped and made anew: the books of every limit state
\* are exact, a provider has no more calls under way than a limit one of them was
\* admitted under, and takes no more tokens than its bucket allows (_admit,
\* _limit_state, _refund_rate_limit, _release_concurrency).
THEOREM LimitsAlwaysRespected == Spec => []LimitsRespected
<1>1. Init => IInv
  BY Starts
<1>2. IInv /\ [Next]_vars => IInv'
  BY Steps
<1>3. IInv => LimitsRespected
  BY Suffices
<1> QED
  BY <1>1, <1>2, <1>3, PTL DEF Spec
=============================================================================
