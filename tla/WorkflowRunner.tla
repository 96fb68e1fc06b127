--------------------------- MODULE WorkflowRunner ---------------------------
(***************************************************************************)
(* One run as WorkflowRunner.run executes it: pipelines released wave by   *)
(* wave along completion edges, pauses on human gates, cancellation, and   *)
(* the attempts that follow a crash or an answer.  pipeline_runs is the    *)
(* only thing one attempt leaves to the next.                              *)
(*                                                                         *)
(* What a pipeline does is its outcome.  One attempt runs at a time:       *)
(* RunScheduler says when that is so.                                      *)
(***************************************************************************)
EXTENDS Integers, FiniteSets

CONSTANTS
  Pipelines,   \* pipeline ids
  Shapes,      \* workflows: the pairs that may have an edge, the pipelines that
               \* ask a person, the completion edges and the gates in use
  MaxCrashes,  \* bound: process deaths
  MaxResumes   \* bound: resumes that do not come with an answer

Completions == {"success", "failure", "always"}

(* A gate expression is its value; "broken" throws.                        *)
GateValues == {"open", "closed", "broken"}

ASSUME PipelinesAssumption == Pipelines \subseteq Nat /\ IsFiniteSet(Pipelines)
ASSUME ShapesAssumption ==
  Shapes \subseteq [pairs : SUBSET (Pipelines \X Pipelines), asking : SUBSET Pipelines,
                   on : SUBSET Completions, gates : SUBSET GateValues]
ASSUME BoundAssumption == MaxCrashes \in Nat /\ MaxResumes \in Nat

VARIABLES
  deps,      \* the snapshot's dependencies: one edge at most between two pipelines
  asking,    \* its pipelines with a human gate
  run,       \* workflow_runs.status
  table,     \* pipeline_runs.status, "none" before the row exists
  live,      \* an attempt is executing
  aborted,   \* its AbortSignal
  parked,    \* the run is in the runner's paused set
  question,  \* human_inputs.status of each pipeline's question
  crashes,
  resumes

vars == <<deps, asking, run, table, live, aborted, parked, question, crashes, resumes>>

PipelineStatus ==
  {"none", "pending", "running", "succeeded", "failed", "skipped", "cancelled", "paused"}
RunStatus ==
  {"queued", "running", "paused", "interrupted", "succeeded", "failed", "cancelled"}

Edges ==
  [from : Pipelines, to : Pipelines, on : Completions, gate : GateValues]
Labels(s) == [on : s.on, gate : s.gates]
EdgeSets(s) ==
  UNION {{{[from |-> q[1], to |-> q[2], on |-> l[q].on, gate |-> l[q].gate] : q \in P}
            : l \in [P -> Labels(s)]} : P \in SUBSET s.pairs}

In(s) == {p \in Pipelines : table[p] = s}
Inbound(p) == {d \in deps : d.to = p}

(* Mutants of IsTerminal: whatever does not run, and only what ran.        *)
NotRunning(s) == s # "running"
TerminalIfRan(s) == s \in {"succeeded", "failed", "cancelled", "paused"}

(* "Terminal for this attempt": a paused pipeline counts, or the wave loop *)
(* would find nothing to release.                                          *)
IsTerminal(s) == s \in {"succeeded", "failed", "skipped", "cancelled", "paused"}

Matches(d, s) ==
  CASE d.on = "always" -> IsTerminal(s)
    [] d.on = "success" -> s = "succeeded"
    [] OTHER -> s = "failed"

AtBarrier == live /\ In("running") = {}

Ready == {p \in In("pending") : \A d \in Inbound(p) : IsTerminal(table[d.from])}

(* Mutant of Refusing: the gate of a matching edge is not asked.           *)
RefusingByStatus(p) == {d \in Inbound(p) : ~Matches(d, table[d.from])}

(* Every edge must match and have an open gate; a gate that throws fails   *)
(* the pipeline.  The first edge that refuses decides, in declared order.  *)
Refusing(p) ==
  {d \in Inbound(p) : ~Matches(d, table[d.from]) \/ d.gate = "closed"}
Throwing(p) ==
  {d \in Inbound(p) : Matches(d, table[d.from]) /\ d.gate = "broken"}

(* Mutant of Verdicts: a gate that throws skips the pipeline.              *)
VerdictsSkipBroken(p) ==
  IF Refusing(p) \cup Throwing(p) = {} THEN {"running"} ELSE {"skipped"}

Verdicts(p) ==
  IF Refusing(p) \cup Throwing(p) = {}
  THEN {"running"}
  ELSE (IF Refusing(p) # {} THEN {"skipped"} ELSE {})
       \cup (IF Throwing(p) # {} THEN {"failed"} ELSE {})

Init ==
  /\ \E s \in Shapes : deps \in EdgeSets(s) /\ asking = s.asking
  /\ run = "queued"
  /\ table = [p \in Pipelines |-> "none"]
  /\ live = FALSE /\ aborted = FALSE /\ parked = FALSE
  /\ question = [p \in Pipelines |-> "none"]
  /\ crashes = 0 /\ resumes = 0

-----------------------------------------------------------------------------
(* Mutant of Begin: every pipeline is done again.                          *)
BeginAfresh ==
  /\ run = "queued" /\ ~live
  /\ run' = "running" /\ live' = TRUE /\ aborted' = FALSE
  /\ table' = [p \in Pipelines |-> "pending"]
  /\ UNCHANGED <<deps, asking, parked, question, crashes, resumes>>

(* The claim, and the records of the attempt: what a dead process left     *)
(* running or a gate left paused is done again.                            *)
Begin ==
  /\ run = "queued" /\ ~live
  /\ run' = "running" /\ live' = TRUE /\ aborted' = FALSE
  /\ table' = [p \in Pipelines |->
       IF table[p] \in {"none", "running", "paused"} THEN "pending" ELSE table[p]]
  /\ UNCHANGED <<deps, asking, parked, question, crashes, resumes>>

(* Mutant of Wave: the abort signal is not looked at.                      *)
WaveWhileAborted ==
  /\ AtBarrier /\ In("pending") # {} /\ Ready # {}
  /\ \E v \in [Ready -> {"running", "skipped", "failed"}] :
       /\ \A p \in Ready : v[p] \in Verdicts(p)
       /\ table' = [p \in Pipelines |-> IF p \in Ready THEN v[p] ELSE table[p]]
  /\ UNCHANGED <<deps, asking, run, live, aborted, parked, question, crashes, resumes>>

(* One turn of executePhase: all ready pipelines are released or refused   *)
(* before any of them runs.                                                *)
Wave ==
  /\ AtBarrier /\ In("pending") # {} /\ ~aborted /\ Ready # {}
  /\ \E v \in [Ready -> {"running", "skipped", "failed"}] :
       /\ \A p \in Ready : v[p] \in Verdicts(p)
       /\ table' = [p \in Pipelines |-> IF p \in Ready THEN v[p] ELSE table[p]]
  /\ UNCHANGED <<deps, asking, run, live, aborted, parked, question, crashes, resumes>>

CancelPending ==
  table' = [p \in Pipelines |-> IF table[p] = "pending" THEN "cancelled" ELSE table[p]]

(* The abort is seen between waves.                                        *)
StopAtBarrier ==
  /\ AtBarrier /\ In("pending") # {} /\ aborted
  /\ CancelPending
  /\ run' = "cancelled" /\ live' = FALSE
  /\ UNCHANGED <<deps, asking, aborted, parked, question, crashes, resumes>>

FailAtBarrier ==
  /\ CancelPending
  /\ run' = "failed" /\ live' = FALSE
  /\ UNCHANGED <<deps, asking, aborted, parked, question, crashes, resumes>>

(* Mutant of NoProgress: the loop goes round instead of throwing.          *)
NoProgressSpins ==
  /\ AtBarrier /\ In("pending") # {} /\ ~aborted /\ Ready = {}
  /\ UNCHANGED vars

(* "workflow dependency release made no progress": the edges form a cycle. *)
NoProgress == AtBarrier /\ In("pending") # {} /\ ~aborted /\ Ready = {} /\ FailAtBarrier

(* A workflow middleware throws before or after the phase.  A store call    *)
(* that throws inside a wave, while siblings execute, is not modelled.     *)
PhaseThrows == AtBarrier /\ FailAtBarrier

(* executePipeline: the outcome of the executor.                           *)
Settle(p, s) ==
  /\ live /\ table[p] = "running"
  /\ s \in {"succeeded", "failed"} \cup IF aborted THEN {"cancelled"} ELSE {}
  /\ table' = [table EXCEPT ![p] = s]
  /\ UNCHANGED <<deps, asking, run, live, aborted, parked, question, crashes, resumes>>

(* HumanInputRequired: the question is stored once, the pipeline is left   *)
(* paused, and the run parks when the wave loop is done.                   *)
Ask(p) ==
  /\ live /\ table[p] = "running" /\ p \in asking /\ question[p] # "answered"
  /\ table' = [table EXCEPT ![p] = "paused"]
  /\ question' = [question EXCEPT ![p] = "pending"]
  /\ parked' = TRUE
  /\ UNCHANGED <<deps, asking, run, live, aborted, crashes, resumes>>

(* Mutant of FinalStatus: failed pipelines do not count.                   *)
FinalStatusLenient ==
  IF parked THEN "paused"
  ELSE IF In("cancelled") # {} THEN "cancelled" ELSE "succeeded"

FinalStatus ==
  IF parked THEN "paused"
  ELSE IF In("cancelled") # {} THEN "cancelled"
  ELSE IF In("failed") # {} THEN "failed" ELSE "succeeded"

(* Mutant of End: the run stays in the paused set.                         *)
EndKeepsParked ==
  /\ AtBarrier /\ In("pending") = {}
  /\ run' = FinalStatus /\ live' = FALSE
  /\ UNCHANGED <<deps, asking, table, aborted, parked, question, crashes, resumes>>

End ==
  /\ AtBarrier /\ In("pending") = {}
  /\ run' = FinalStatus /\ live' = FALSE /\ parked' = FALSE
  /\ UNCHANGED <<deps, asking, table, aborted, question, crashes, resumes>>

-----------------------------------------------------------------------------
(* cancel: the controller of a live attempt, or the row of a queued run.   *)
Cancel ==
  /\ \/ live /\ ~aborted /\ aborted' = TRUE /\ UNCHANGED run
     \/ run = "queued" /\ run' = "cancelled" /\ UNCHANGED aborted
  /\ UNCHANGED <<deps, asking, table, live, parked, question, crashes, resumes>>

(* POST /runs/:id/inputs: the answer is stored, then the run is resumed if *)
(* it can be; a run that is still executing answers 409.                   *)
Answer(p) ==
  /\ question[p] = "pending"
  /\ question' = [question EXCEPT ![p] = "answered"]
  /\ run' = IF run \in {"paused", "interrupted"} THEN "queued" ELSE run
  /\ UNCHANGED <<deps, asking, table, live, aborted, parked, crashes, resumes>>

(* POST /runs/:id/resume, or recover() for an interrupted run.             *)
Resume ==
  /\ run \in {"paused", "interrupted"}
  /\ run = "paused" => resumes < MaxResumes
  /\ run' = "queued"
  /\ resumes' = IF run = "paused" THEN resumes + 1 ELSE resumes
  /\ UNCHANGED <<deps, asking, table, live, aborted, parked, question, crashes>>

(* The process dies; interruptRunning marks the run.                       *)
Crash ==
  /\ live /\ crashes < MaxCrashes
  /\ run' = "interrupted" /\ live' = FALSE /\ aborted' = FALSE /\ parked' = FALSE
  /\ crashes' = crashes + 1
  /\ UNCHANGED <<deps, asking, table, question, resumes>>

Attempt ==
  \/ Begin \/ Wave \/ StopAtBarrier \/ NoProgress \/ End
  \/ \E p \in Pipelines : Ask(p) \/ \E s \in PipelineStatus : Settle(p, s)

Next ==
  \/ Attempt \/ PhaseThrows \/ Cancel \/ Resume \/ Crash
  \/ \E p \in Pipelines : Answer(p)

Spec == Init /\ [][Next]_vars

(* A live attempt goes on and its pipelines return; people, crashes and    *)
(* errors owe nothing.                                                     *)
FairSpec == Spec /\ WF_vars(Attempt)

-----------------------------------------------------------------------------
TypeOK ==
  /\ deps \subseteq Edges /\ asking \subseteq Pipelines
  /\ run \in RunStatus
  /\ table \in [Pipelines -> PipelineStatus]
  /\ live \in BOOLEAN /\ aborted \in BOOLEAN /\ parked \in BOOLEAN
  /\ question \in [Pipelines -> {"none", "pending", "answered"}]
  /\ crashes \in 0 .. MaxCrashes /\ resumes \in 0 .. MaxResumes

Forward == \A d \in deps : d.from < d.to

(* Without a cycle the wave loop never meets "workflow dependency release  *)
(* made no progress": with pending pipelines at a barrier, some are ready. *)
WavesProgress == (Forward /\ AtBarrier /\ In("pending") # {}) => Ready # {}

(* A run that ended by itself left no pipeline waiting or running, whatever *)
(* was interrupted and redone on the way; a succeeded one has only          *)
(* succeeded and skipped pipelines.                                         *)
FinishedRunsAreSettled ==
  /\ run \in {"succeeded", "failed"} =>
       \A p \in Pipelines : table[p] \notin {"none", "pending", "running"}
  /\ run = "succeeded" => \A p \in Pipelines : table[p] \in {"succeeded", "skipped"}

(* "Always" matches an upstream that only waits for a person.              *)
Hasty(d) == d.on = "always" /\ d.from \in asking

(* A pipeline that ran was released by what its upstreams finally came to: *)
(* every inbound edge that is not Hasty matches and has an open gate.      *)
RanMeansReleased ==
  \A p \in Pipelines : table[p] \in {"running", "succeeded", "paused"} =>
    \A d \in Inbound(p) :
      ~Hasty(d) => Matches(d, table[d.from]) /\ d.gate = "open"

(* Downstream work starts only when upstream work is over: "which terminal *)
(* state of `from` releases `to`"; again save for Hasty edges.             *)
UpstreamIsOver ==
  \A p \in Pipelines : table[p] \in {"running", "succeeded"} =>
    \A d \in Inbound(p) :
      ~Hasty(d) => table[d.from] \in {"succeeded", "failed", "skipped", "cancelled"}

(* A pipeline is skipped only if an edge refuses it for good: a finished   *)
(* run did not skip work its answered gates released.                      *)
SkippedMeansRefused ==
  run = "succeeded" => \A p \in In("skipped") : Refusing(p) # {}

(* Where no person is asked, no succeeded run skipped released work.       *)
UnattendedSkipsAreRefused == asking = {} => SkippedMeansRefused

(* A parked run has a paused pipeline that asked, so the next attempt has  *)
(* something to redo and does not "succeed" on the spot.                   *)
ParkedRunHasPausedPipeline ==
  run = "paused" => \E p \in asking : table[p] = "paused" /\ question[p] # "none"

(* A recorded success is never redone, over crashes and resumes.           *)
SuccessIsKept ==
  [][\A p \in Pipelines : table[p] = "succeeded" => table'[p] = "succeeded"]_vars

(* After a cancel reached the attempt, it starts no further pipeline.      *)
NothingStartsAfterAbort ==
  [][\A p \in Pipelines :
       (live /\ aborted /\ table[p] = "pending") => table'[p] # "running"]_vars

(* An attempt comes to an end: the wave loop never spins.                  *)
AttemptsEnd == (live ~> ~live)
=============================================================================
