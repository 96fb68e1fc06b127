----------------------------- MODULE Connections -----------------------------
(***************************************************************************)
(* ConnectionFactory.create: a driver adapter's acquire under the circuit  *)
(* of its target.  All credentials of a target share one circuit and have  *)
(* a pool each; a call that asks for no pool opens a connection directly.  *)
(***************************************************************************)
EXTENDS CircuitBreaker, PoolCache

ASSUME CallAssumption == Callers \subseteq Calls

Direct == Calls \ Callers

vars == <<circuit, mode, entries, pending, caller, open>>

Init == BreakerInit /\ CacheInit

(* run() refuses, or calls adapter.acquire, in one go.                     *)
Reject(c) == Refused(c) /\ UNCHANGED cache
Acquire(c, k) == Admit(c) /\ Begin(c, k)
AcquireDirect(c) == Admit(c) /\ UNCHANGED cache
Fetch(c) == Progress(c) /\ UNCHANGED breaker

(* acquire ends: pool.connect() answers, or something before it has failed. *)
Connect(c) ==
  /\ Leave(c)
  /\ \E outcome \in Outcome :
       /\ At(c, "ended") => outcome = "refusal"
       /\ At(c, "failing") => outcome # "ok"
       /\ Finish(c, outcome)

ConnectDirect(c) == (\E outcome \in Outcome : Finish(c, outcome)) /\ UNCHANGED cache

CloseAll == Clear /\ UNCHANGED breaker
Clock == Cool /\ UNCHANGED cache
Other == (Snapshot \/ Forget) /\ UNCHANGED cache

Next ==
  \/ \E c \in Calls : Reject(c)
  \/ \E c \in Callers : Fetch(c) \/ Connect(c)
  \/ \E c \in Direct : AcquireDirect(c) \/ ConnectDirect(c)
  \/ \E c \in Callers, k \in Keys : Acquire(c, k)
  \/ CloseAll \/ Clock \/ Other

(* Callbacks run and every connect has a timeout, so some pending work is   *)
(* done; the clock advances; and somebody keeps asking for a connection.   *)
Work ==
  \/ \E c \in Callers : Fetch(c) \/ Connect(c)
  \/ \E c \in Direct : ConnectDirect(c)
Ask ==
  (\E c \in Callers, k \in Keys : Acquire(c, k)) \/ (\E c \in Direct : AcquireDirect(c))
Fairness == WF_vars(Work) /\ WF_vars(Clock) /\ WF_vars(Ask)

Spec == Init /\ [][Next]_vars
FairSpec == Spec /\ Fairness

-----------------------------------------------------------------------------
(* A target is never locked out for good: as long as somebody asks, a call *)
(* is let through again and again, whatever the earlier ones reported.     *)
AdmissionsContinue == []<><<\E c \in Calls : Admit(c)>>_vars
=============================================================================
