---------------------------- MODULE RunLifecycle ----------------------------
(***************************************************************************)
(* What the run table promises a caller, whoever executes: a run is worked *)
(* on by at most one execution at a time, it is handed out again only when *)
(* nobody works on it, and once done it stays done.                        *)
(***************************************************************************)
CONSTANT Runs

VARIABLES
  stage,   \* where each run stands
  working  \* whether an execution works on it

vars == <<stage, working>>

Stage == {"absent", "waiting", "taken", "parked", "done"}

TypeOK == stage \in [Runs -> Stage] /\ working \in [Runs -> BOOLEAN]

Init ==
  /\ stage = [r \in Runs |-> "absent"]
  /\ working = [r \in Runs |-> FALSE]

Move(r, from, to) == stage[r] = from /\ stage' = [stage EXCEPT ![r] = to]

Admit(r) == Move(r, "absent", "waiting") /\ UNCHANGED working

Start(r) ==
  /\ Move(r, "waiting", "taken")
  /\ ~working[r] /\ working' = [working EXCEPT ![r] = TRUE]

(* The execution stops: the run is done, or parked until it is resumed.    *)
Settle(r) ==
  /\ \E to \in {"parked", "done"} : Move(r, "taken", to)
  /\ working[r] /\ working' = [working EXCEPT ![r] = FALSE]

(* A process dies under the runs it was executing.                         *)
Lose(S) ==
  /\ \A r \in S : working[r]
  /\ working' = [r \in Runs |-> working[r] /\ r \notin S]
  /\ UNCHANGED stage

Return(r) == Move(r, "taken", "waiting") /\ ~working[r] /\ UNCHANGED working
Resume(r) == Move(r, "parked", "waiting") /\ ~working[r] /\ UNCHANGED working
Withdraw(r) == Move(r, "waiting", "done") /\ ~working[r] /\ UNCHANGED working

Next ==
  \/ \E r \in Runs : \/ Admit(r) \/ Start(r) \/ Settle(r)
                     \/ Return(r) \/ Resume(r) \/ Withdraw(r)
  \/ \E S \in SUBSET Runs : Lose(S)

Spec == Init /\ [][Next]_vars
=============================================================================
