---------------------------- MODULE JobLifecycle ----------------------------
(***************************************************************************)
(* What the job queue promises, without slots, leases, clocks or stages.   *)
(* A job waits, is leased out a bounded number of times and settles once.  *)
(***************************************************************************)
EXTENDS Naturals

CONSTANTS Jobs, MaxAttempts

VARIABLES phase, spent

lifecycleVars == <<phase, spent>>

Outcomes == {"succeeded", "failed", "cancelled"}

LifecycleInit ==
  /\ phase = [j \in Jobs |-> "waiting"]
  /\ spent = [j \in Jobs |-> 0]

\* A job is leased, or leased anew after its holder went silent.
LeaseOut(j) ==
  /\ phase[j] \in {"waiting", "leased"} /\ spent[j] < MaxAttempts
  /\ phase' = [phase EXCEPT ![j] = "leased"]
  /\ spent' = [spent EXCEPT ![j] = @ + 1]

\* The holder puts the job back, with or without charging the attempt; a
\* waiting job can always be leased once more.
PutBack(j) ==
  /\ phase[j] = "leased"
  /\ phase' = [phase EXCEPT ![j] = "waiting"]
  /\ \E n \in {spent[j], spent[j] - 1} :
       n < MaxAttempts /\ spent' = [spent EXCEPT ![j] = n]

\* A leased job ends.
Settle(j) ==
  /\ phase[j] = "leased"
  /\ \E o \in Outcomes : phase' = [phase EXCEPT ![j] = o]
  /\ UNCHANGED spent

LifecycleNext == \E j \in Jobs : LeaseOut(j) \/ PutBack(j) \/ Settle(j)

LifecycleSpec == LifecycleInit /\ [][LifecycleNext]_lifecycleVars
=============================================================================
