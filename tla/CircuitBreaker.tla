--------------------------- MODULE CircuitBreaker ---------------------------
(***************************************************************************)
(* The circuit of one target (host, port and database) in dbCircuitBreaker *)
(* and the calls that run under it.  A call's mode says what its closure   *)
(* holds: nothing, or the trial slot of the circuit object it was admitted *)
(* by, which may have opened again or been deleted since.                  *)
(***************************************************************************)
EXTENDS Integers

CONSTANTS
  Calls,             \* concurrent callers of run() for this target
  FailureThreshold,  \* consecutive failures before the circuit opens
  SuccessThreshold   \* successes in half-open before it closes

ASSUME ThresholdAssumption ==
  FailureThreshold \in Nat \ {0} /\ SuccessThreshold \in Nat \ {0}

VARIABLES
  circuit,  \* the entry of circuits; cooling: openUntil is still to come
  mode      \* Calls -> what each call of run() is doing

breaker == <<circuit, mode>>

Circuit ==
  [state : {"closed", "open", "half-open"}, failures : Nat, successes : Nat,
   cooling : BOOLEAN, trialInFlight : BOOLEAN]
(* "trial" was admitted in this half-open period, "overrun" in an earlier  *)
(* one of the same circuit object, "orphan" by an object deleted since.    *)
Mode == {"none", "call", "trial", "overrun", "orphan"}
Outcome == {"ok", "refusal", "unavailable"}

BreakerTypeOK == circuit \in Circuit /\ mode \in [Calls -> Mode]

(* A circuit as circuit() makes it, and as a key without one behaves.      *)
Closed ==
  [state |-> "closed", failures |-> 0, successes |-> 0, cooling |-> FALSE,
   trialInFlight |-> FALSE]

HalfOpen ==
  [circuit EXCEPT !.state = "half-open", !.successes = 0, !.trialInFlight = FALSE]

BreakerInit == circuit = Closed /\ mode = [c \in Calls |-> "none"]

(* What the trials in flight become when their period, or circuit, ends.   *)
Become(m, from, to) == [c \in Calls |-> IF m[c] \in from THEN to ELSE m[c]]
NextPeriod(m) == Become(m, {"trial"}, "overrun")
Deleted(m) == Become(m, {"trial", "overrun"}, "orphan")

-----------------------------------------------------------------------------
(* stateOf: an elapsed cooldown is noticed when somebody looks.            *)
Ripe == circuit.state = "open" /\ ~circuit.cooling

Ripen == Ripe /\ circuit' = HalfOpen /\ mode' = NextPeriod(mode)

(* run(), refused without calling fn: open, or the trial slot is taken.    *)
Refused(c) ==
  /\ mode[c] = "none"
  /\ \/ circuit.state = "open" /\ circuit.cooling
     \/ circuit.state = "half-open" /\ circuit.trialInFlight
  /\ UNCHANGED breaker

(* Mutant of ClaimTrial: the slot is left free.                            *)
ClaimNothing(k) == k

ClaimTrial(k) == [k EXCEPT !.trialInFlight = TRUE]

(* run(), admitted: a plain call, or the trial, whose slot is claimed       *)
(* before anything is awaited.                                             *)
AdmitCall(c) ==
  /\ mode[c] = "none" /\ circuit.state = "closed"
  /\ mode' = [mode EXCEPT ![c] = "call"]
  /\ UNCHANGED circuit
AdmitTrial(c) ==
  /\ mode[c] = "none" /\ ~circuit.trialInFlight /\ circuit.state = "half-open"
  /\ circuit' = ClaimTrial(circuit)
  /\ mode' = [mode EXCEPT ![c] = "trial"]
AdmitFirstTrial(c) ==
  /\ mode[c] = "none" /\ Ripe
  /\ circuit' = ClaimTrial(HalfOpen)
  /\ mode' = [NextPeriod(mode) EXCEPT ![c] = "trial"]
Admit(c) == AdmitCall(c) \/ AdmitTrial(c) \/ AdmitFirstTrial(c)

Opened(k) == [k EXCEPT !.state = "open", !.cooling = TRUE]

(* recordFailure.                                                          *)
AfterFailure ==
  IF circuit.state = "half-open" THEN [Opened(circuit) EXCEPT !.successes = 0]
  ELSE LET k == [circuit EXCEPT !.failures = @ + 1] IN
       IF k.failures >= FailureThreshold THEN Opened(k) ELSE k

(* recordSuccess, when it does not close the circuit.                      *)
Closes == circuit.state = "half-open" /\ circuit.successes + 1 >= SuccessThreshold
AfterSuccess ==
  IF circuit.state = "half-open" THEN [circuit EXCEPT !.successes = @ + 1]
  ELSE [circuit EXCEPT !.failures = 0]

(* finally: the call gives its slot back to the object it took it from.    *)
Released(c, k) ==
  IF mode[c] \in {"trial", "overrun"} THEN [k EXCEPT !.trialInFlight = FALSE] ELSE k

(* Mutant of FinishOk: a refusal by a healthy server is not recorded, and   *)
(* the slot of the trial is kept.                                          *)
FinishKept(c, outcome) ==
  /\ mode[c] # "none" /\ outcome \in {"ok", "refusal"}
  /\ mode' = [mode EXCEPT ![c] = "none"]
  /\ UNCHANGED circuit

(* fn() ended: an answer of the server, whatever it says, is a success.    *)
FinishOk(c, outcome) ==
  /\ mode[c] # "none" /\ outcome \in {"ok", "refusal"}
  /\ IF Closes
     THEN circuit' = Closed /\ mode' = [Deleted(mode) EXCEPT ![c] = "none"]
     ELSE /\ circuit' = Released(c, AfterSuccess)
          /\ mode' = [mode EXCEPT ![c] = "none"]
FinishUnavailable(c) ==
  /\ mode[c] # "none"
  /\ circuit' = Released(c, AfterFailure)
  /\ mode' = [mode EXCEPT ![c] = "none"]
Finish(c, outcome) ==
  FinishOk(c, outcome) \/ (outcome = "unavailable" /\ FinishUnavailable(c))

-----------------------------------------------------------------------------
(* Time passes openUntil.                                                  *)
Cool ==
  /\ circuit.cooling
  /\ circuit' = [circuit EXCEPT !.cooling = FALSE]
  /\ UNCHANGED mode

(* snapshot() reads the state of every circuit, as run() does.             *)
Snapshot == Ripen

(* circuit() of another key drops this one when the map is full.           *)
Forget == circuit # Closed /\ circuit' = Closed /\ mode' = Deleted(mode)

BreakerNext ==
  \/ \E c \in Calls : Refused(c) \/ Admit(c)
  \/ \E c \in Calls, outcome \in Outcome : Finish(c, outcome)
  \/ Cool \/ Snapshot \/ Forget

BreakerSpec == BreakerInit /\ [][BreakerNext]_breaker

-----------------------------------------------------------------------------
(* "Half-open admits exactly one trial" (circuit-breaker.ts:80): of the    *)
(* calls in flight at most one was admitted as the trial of the current    *)
(* period, whatever late calls of earlier periods report meanwhile.  It    *)
(* needs SuccessThreshold = 1, as dbCircuitBreaker has it.                 *)
OneTrialPerPeriod ==
  \A c, d \in Calls : (mode[c] = "trial" /\ mode[d] = "trial") => c = d
=============================================================================
