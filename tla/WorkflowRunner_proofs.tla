----------------------- MODULE WorkflowRunner_proofs -----------------------
(***************************************************************************)
(* Theorems about WorkflowRunner, for every set of pipelines and edges,    *)
(* cyclic ones included, every gate, and any number of crashes, answers    *)
(* and resumes.                                                            *)
(***************************************************************************)
EXTENDS WorkflowRunner, WellFoundedInduction, TLAPS

(* An attempt is live exactly while the row says "running".                *)
LiveIsRunning == live <=> run = "running"

(* Begin gave every pipeline of a live attempt a record.                   *)
RecordsExist == live => \A p \in Pipelines : table[p] # "none"

(* The paused set of a live attempt and the paused records agree: the run  *)
(* is in the set as soon as one pipeline asked, and only then.             *)
Waiting(p) == p \in asking /\ table[p] = "paused" /\ question[p] # "none"

ParkedMeansWaiting ==
  /\ live /\ parked => \E p \in asking : Waiting(p)
  /\ live => \A p \in Pipelines : table[p] = "paused" => parked
  /\ run \notin {"running", "cancelled", "failed"} => ~parked

IInv ==
  /\ TypeOK
  /\ LiveIsRunning
  /\ RecordsExist
  /\ ParkedMeansWaiting
  /\ FinishedRunsAreSettled
  /\ ParkedRunHasPausedPipeline

-----------------------------------------------------------------------------
(* The edges of every shape join pipelines of the workflow.                *)
LEMMA ShapesAreEdges ==
  \A s \in Shapes : s.asking \subseteq Pipelines /\ \A D \in EdgeSets(s) : D \subseteq Edges
<1> TAKE s \in Shapes
<1>1. /\ s.pairs \subseteq Pipelines \X Pipelines /\ s.asking \subseteq Pipelines
      /\ s.on \subseteq Completions /\ s.gates \subseteq GateValues
  BY ShapesAssumption
<1> QED BY <1>1 DEF EdgeSets, Edges, Labels

(* Every step keeps the types.                                             *)
LEMMA TypeStep ==
  ASSUME TypeOK, [Next]_vars
  PROVE  TypeOK'
<1> USE BoundAssumption DEF TypeOK
<1>1. CASE Begin
  BY <1>1 DEF Begin, RunStatus, PipelineStatus
<1>2. CASE Wave
  <2>1. PICK v \in [Ready -> {"running", "skipped", "failed"}] :
          table' = [p \in Pipelines |-> IF p \in Ready THEN v[p] ELSE table[p]]
    BY <1>2 DEF Wave
  <2>2. table' \in [Pipelines -> PipelineStatus]
    BY <2>1 DEF PipelineStatus
  <2> QED BY <1>2, <2>2 DEF Wave
<1>3. CASE StopAtBarrier
  BY <1>3 DEF StopAtBarrier, CancelPending, RunStatus, PipelineStatus
<1>4. CASE NoProgress \/ PhaseThrows
  BY <1>4 DEF NoProgress, PhaseThrows, FailAtBarrier, CancelPending, RunStatus, PipelineStatus
<1>5. CASE End
  BY <1>5 DEF End, FinalStatus, RunStatus
<1>6. ASSUME NEW p \in Pipelines, NEW s \in PipelineStatus, Settle(p, s) PROVE TypeOK'
  BY <1>6 DEF Settle
<1>7. ASSUME NEW p \in Pipelines, Ask(p) PROVE TypeOK'
  BY <1>7 DEF Ask, PipelineStatus
<1>8. CASE Cancel
  BY <1>8 DEF Cancel, RunStatus
<1>9. CASE Resume
  BY <1>9 DEF Resume, RunStatus
<1>10. CASE Crash
  <2>1. crashes' \in 0 .. MaxCrashes
    BY <1>10 DEF Crash
  <2>2. run' \in RunStatus
    BY <1>10 DEF Crash, RunStatus
  <2> QED BY <1>10, <2>1, <2>2 DEF Crash
<1>11. ASSUME NEW p \in Pipelines, Answer(p) PROVE TypeOK'
  BY <1>11 DEF Answer, RunStatus
<1>12. CASE UNCHANGED vars
  BY <1>12 DEF vars
<1> QED
  BY <1>1, <1>2, <1>3, <1>4, <1>5, <1>6, <1>7, <1>8, <1>9, <1>10, <1>11, <1>12
     DEF Next, Attempt

(* Every step keeps the invariant.                                         *)
LEMMA InvStep ==
  ASSUME IInv, [Next]_vars
  PROVE  IInv'
<1>0. TypeOK' /\ TypeOK
  BY TypeStep DEF IInv
<1> DEFINE Rest == /\ LiveIsRunning /\ RecordsExist /\ ParkedMeansWaiting
                   /\ FinishedRunsAreSettled /\ ParkedRunHasPausedPipeline
<1> USE <1>0
    DEF TypeOK, IInv, LiveIsRunning, RecordsExist, ParkedMeansWaiting, Waiting,
        FinishedRunsAreSettled, ParkedRunHasPausedPipeline, In, AtBarrier
<1>1. CASE Begin
  BY <1>1 DEF Begin
<1>2. CASE Wave
  <2>1. PICK v \in [Ready -> {"running", "skipped", "failed"}] :
          table' = [p \in Pipelines |-> IF p \in Ready THEN v[p] ELSE table[p]]
    BY <1>2 DEF Wave
  <2>2. \A p \in Pipelines :
           \/ table'[p] = table[p]
           \/ table[p] = "pending" /\ table'[p] \in {"running", "skipped", "failed"}
    BY <2>1 DEF Ready
  <2>3. run = "running" /\ UNCHANGED <<asking, run, live, parked, question>>
    BY <1>2 DEF Wave
  <2> QED BY <2>2, <2>3
<1>3. CASE StopAtBarrier
  BY <1>3 DEF StopAtBarrier, CancelPending
<1>4. CASE NoProgress \/ PhaseThrows
  BY <1>4 DEF NoProgress, PhaseThrows, FailAtBarrier, CancelPending, PipelineStatus
<1>5. CASE End
  <2>1. \A p \in Pipelines : table[p] \notin {"none", "pending", "running"}
    BY <1>5 DEF End
  <2>2. FinalStatus = "succeeded" =>
          ~parked /\ \A p \in Pipelines : table[p] \notin {"cancelled", "failed"}
    BY DEF FinalStatus
  <2> QED BY <1>5, <2>1, <2>2 DEF End, FinalStatus, PipelineStatus
<1>6. ASSUME NEW p \in Pipelines, NEW s \in PipelineStatus, Settle(p, s) PROVE Rest'
  BY <1>6 DEF Settle
<1>7. ASSUME NEW p \in Pipelines, Ask(p) PROVE Rest'
  BY <1>7 DEF Ask
<1>8. CASE Cancel
  BY <1>8 DEF Cancel
<1>9. CASE Resume
  BY <1>9 DEF Resume
<1>10. CASE Crash
  BY <1>10 DEF Crash
<1>11. ASSUME NEW p \in Pipelines, Answer(p) PROVE Rest'
  BY <1>11 DEF Answer
<1>12. CASE UNCHANGED vars
  BY <1>12 DEF vars
<1> QED
  BY <1>1, <1>2, <1>3, <1>4, <1>5, <1>6, <1>7, <1>8, <1>9, <1>10, <1>11, <1>12
     DEF Next, Attempt

(* The inductive invariant.                                                *)
LEMMA Invariance == Spec => []IInv
<1>1. Init => IInv
  <2> SUFFICES ASSUME Init PROVE IInv
    OBVIOUS
  <2>1. deps \subseteq Edges /\ asking \subseteq Pipelines
    BY ShapesAreEdges DEF Init
  <2>2. TypeOK
    <3>1. run \in RunStatus /\ live \in BOOLEAN /\ aborted \in BOOLEAN /\ parked \in BOOLEAN
      BY DEF Init, RunStatus
    <3>2. crashes \in 0 .. MaxCrashes /\ resumes \in 0 .. MaxResumes
      BY BoundAssumption DEF Init
    <3>3. /\ table \in [Pipelines -> PipelineStatus]
          /\ question \in [Pipelines -> {"none", "pending", "answered"}]
      BY DEF Init, PipelineStatus
    <3> QED BY <2>1, <3>1, <3>2, <3>3 DEF TypeOK
  <2>3. LiveIsRunning /\ RecordsExist /\ ParkedMeansWaiting
    BY DEF Init, LiveIsRunning, RecordsExist, ParkedMeansWaiting
  <2>4. FinishedRunsAreSettled /\ ParkedRunHasPausedPipeline
    BY DEF Init, FinishedRunsAreSettled, ParkedRunHasPausedPipeline
  <2> QED BY <2>2, <2>3, <2>4 DEF IInv
<1>2. IInv /\ [Next]_vars => IInv'
  BY InvStep
<1> QED BY <1>1, <1>2, PTL DEF Spec

(* Every record, question and run has a status the code can give it.       *)
THEOREM TypeCorrect == Spec => []TypeOK
<1>1. IInv => TypeOK
  BY DEF IInv
<1> QED BY Invariance, <1>1, PTL

(* A run that succeeded or failed left no pipeline waiting or running, and *)
(* one that succeeded has only succeeded and skipped pipelines: not after  *)
(* a crash in the middle of a wave, not after any number of answers.       *)
THEOREM FinishedIsSettled == Spec => []FinishedRunsAreSettled
<1>1. IInv => FinishedRunsAreSettled
  BY DEF IInv
<1> QED BY Invariance, <1>1, PTL

(* A run parks only behind a pipeline that is paused on a stored question, *)
(* so that the attempt an answer starts has that pipeline to redo.         *)
THEOREM ParkedIsWaiting == Spec => []ParkedRunHasPausedPipeline
<1>1. IInv => ParkedRunHasPausedPipeline
  BY DEF IInv
<1> QED BY Invariance, <1>1, PTL

(* A pipeline recorded as succeeded is never run again.                    *)
THEOREM SuccessSurvives == Spec => SuccessIsKept
<1> DEFINE A == \A p \in Pipelines : table[p] = "succeeded" => table'[p] = "succeeded"
<1>1. IInv /\ [Next]_vars => [A]_vars
  <2> SUFFICES ASSUME IInv, Next PROVE A
    OBVIOUS
  <2> USE DEF IInv, TypeOK
  <2>1. CASE Begin
    BY <2>1 DEF Begin
  <2>2. CASE Wave
    BY <2>2 DEF Wave, Ready, In
  <2>3. CASE StopAtBarrier \/ NoProgress \/ PhaseThrows
    BY <2>3 DEF StopAtBarrier, NoProgress, PhaseThrows, FailAtBarrier, CancelPending
  <2>4. ASSUME NEW p \in Pipelines, NEW s \in PipelineStatus, Settle(p, s) PROVE A
    BY <2>4 DEF Settle
  <2>5. ASSUME NEW p \in Pipelines, Ask(p) PROVE A
    BY <2>5 DEF Ask
  <2>6. CASE UNCHANGED table
    BY <2>6
  <2> QED
    BY <2>1, <2>2, <2>3, <2>4, <2>5, <2>6
       DEF Next, Attempt, End, Cancel, Resume, Crash, Answer
<1> QED BY Invariance, <1>1, PTL DEF Spec, SuccessIsKept

(* Once the abort of a cancel is set, the attempt releases nothing.        *)
THEOREM AbortStopsRelease == Spec => NothingStartsAfterAbort
<1> DEFINE A == \A p \in Pipelines :
       (live /\ aborted /\ table[p] = "pending") => table'[p] # "running"
<1>1. IInv /\ [Next]_vars => [A]_vars
  <2> SUFFICES ASSUME IInv, Next, NEW p \in Pipelines, live, aborted, table[p] = "pending"
               PROVE  table'[p] # "running"
    OBVIOUS
  <2> USE DEF IInv, TypeOK
  <2>1. CASE StopAtBarrier \/ NoProgress \/ PhaseThrows
    BY <2>1 DEF StopAtBarrier, NoProgress, PhaseThrows, FailAtBarrier, CancelPending
  <2>2. ASSUME NEW q \in Pipelines, NEW s \in PipelineStatus, Settle(q, s)
        PROVE  table'[p] # "running"
    BY <2>2 DEF Settle
  <2>3. ASSUME NEW q \in Pipelines, Ask(q) PROVE table'[p] # "running"
    BY <2>3 DEF Ask
  <2>4. CASE UNCHANGED table
    BY <2>4
  <2> QED
    BY <2>1, <2>2, <2>3, <2>4
       DEF Next, Attempt, Begin, Wave, End, Cancel, Resume, Crash, Answer
<1> QED BY Invariance, <1>1, PTL DEF Spec, NothingStartsAfterAbort

-----------------------------------------------------------------------------
(* What no later attempt touches.                                          *)
Final == {"succeeded", "failed", "skipped", "cancelled"}

(* Only a pipeline with a human gate is ever left paused.                  *)
OnlyAskersPause == \A p \in Pipelines : table[p] = "paused" => p \in asking

(* A skip was decided on an upstream that was over.                        *)
SkipsAreRefused ==
  asking = {} => \A p \in In("skipped") :
    \E d \in Refusing(p) : IsTerminal(table[d.from])

(* A wave decides the pipelines that are ready, and no other one.          *)
LEMMA WaveDecides ==
  ASSUME TypeOK, Wave
  PROVE  /\ UNCHANGED <<deps, asking>>
         /\ \A p \in Pipelines :
              \/ table'[p] = table[p]
              \/ p \in Ready /\ table'[p] \in Verdicts(p)
         /\ \A p \in Pipelines : IsTerminal(table[p]) => table'[p] = table[p]
<1>1. PICK v \in [Ready -> {"running", "skipped", "failed"}] :
        /\ \A p \in Ready : v[p] \in Verdicts(p)
        /\ table' = [p \in Pipelines |-> IF p \in Ready THEN v[p] ELSE table[p]]
  BY DEF Wave
<1> QED BY <1>1 DEF Wave, TypeOK, Ready, In, IsTerminal

(* Every other step leaves what is final, and starts nothing.              *)
LEMMA OtherStepsKeep ==
  ASSUME TypeOK, [Next]_vars, ~Wave
  PROVE  /\ UNCHANGED <<deps, asking>>
         /\ \A p \in Pipelines :
              /\ table[p] \in Final => table'[p] = table[p]
              /\ table'[p] = "running" => table[p] = "running"
              /\ table'[p] = "skipped" => table[p] = "skipped"
              /\ table'[p] = "succeeded" => table[p] \in {"running", "succeeded"}
              /\ table'[p] = "paused" =>
                   table[p] = "paused" \/ (table[p] = "running" /\ p \in asking)
<1> DEFINE Kept(p) ==
         /\ table[p] \in Final => table'[p] = table[p]
         /\ table'[p] = "running" => table[p] = "running"
         /\ table'[p] = "skipped" => table[p] = "skipped"
         /\ table'[p] = "succeeded" => table[p] \in {"running", "succeeded"}
         /\ table'[p] = "paused" =>
              table[p] = "paused" \/ (table[p] = "running" /\ p \in asking)
<1>1. UNCHANGED <<deps, asking>>
  BY DEF Next, Attempt, Begin, StopAtBarrier, NoProgress, PhaseThrows, FailAtBarrier, End,
         Settle, Ask, Cancel, Answer, Resume, Crash, vars
<1>2. ASSUME NEW p \in Pipelines PROVE Kept(p)
  <2> USE DEF TypeOK, Final
  <2>1. CASE Begin
    BY <2>1 DEF Begin
  <2>2. CASE StopAtBarrier \/ NoProgress \/ PhaseThrows
    BY <2>2 DEF StopAtBarrier, NoProgress, PhaseThrows, FailAtBarrier, CancelPending
  <2>3. ASSUME NEW q \in Pipelines, NEW s \in PipelineStatus, Settle(q, s) PROVE Kept(p)
    BY <2>3 DEF Settle
  <2>4. ASSUME NEW q \in Pipelines, Ask(q) PROVE Kept(p)
    BY <2>4 DEF Ask
  <2>5. CASE UNCHANGED table
    BY <2>5
  <2> QED
    BY <2>1, <2>2, <2>3, <2>4, <2>5 DEF Next, Attempt, End, Cancel, Resume, Crash, Answer, vars
<1> QED BY <1>1, <1>2

(* Every step keeps what is known of released and skipped pipelines.       *)
LEMMA ReleaseStep ==
  ASSUME TypeOK, OnlyAskersPause, RanMeansReleased, SkipsAreRefused, [Next]_vars
  PROVE  OnlyAskersPause' /\ RanMeansReleased' /\ SkipsAreRefused'
<1> DEFINE Calm(p) == \A d \in Inbound(p) :
             ~Hasty(d) => Matches(d, table[d.from]) /\ d.gate = "open"
<1> DEFINE Vain(p) == \E d \in Refusing(p) : IsTerminal(table[d.from])
<1>1. /\ UNCHANGED <<deps, asking>>
      /\ \A p \in Pipelines : table[p] \in Final => table'[p] = table[p]
  BY WaveDecides, OtherStepsKeep DEF Final, IsTerminal
<1>2. \A d \in deps : d \in Edges /\ d.from \in Pipelines
  BY DEF TypeOK, Edges
<1>3. ASSUME NEW p \in Pipelines, Calm(p),
             \A d \in Inbound(p) : IsTerminal(table[d.from]) => table'[d.from] = table[d.from]
      PROVE  Calm(p)'
  BY <1>1, <1>2, <1>3 DEF Inbound, Matches, IsTerminal, Hasty, Edges, Completions
<1>4. ASSUME NEW p \in Pipelines, asking = {}, Vain(p),
             \A d \in Inbound(p) : IsTerminal(table[d.from]) => table'[d.from] = table[d.from]
      PROVE  Vain(p)'
  BY <1>1, <1>4 DEF Inbound, Refusing
<1>5. CASE Wave
  <2>1. /\ \A p \in Pipelines :
              \/ table'[p] = table[p]
              \/ p \in Ready /\ table'[p] \in Verdicts(p)
        /\ \A p \in Pipelines : IsTerminal(table[p]) => table'[p] = table[p]
    BY <1>5, WaveDecides
  <2>2. \A p \in Ready : Verdicts(p) \subseteq {"running", "skipped", "failed"}
    BY DEF Verdicts
  <2>3. OnlyAskersPause'
    BY <1>1, <2>1, <2>2 DEF OnlyAskersPause
  <2>4. ASSUME NEW p \in Pipelines, table'[p] \in {"running", "succeeded", "paused"}
        PROVE  Calm(p)
    <3>1. CASE table'[p] = table[p]
      BY <2>4, <3>1 DEF RanMeansReleased
    <3>2. CASE p \in Ready /\ table'[p] \in Verdicts(p)
      <4>1. Refusing(p) \cup Throwing(p) = {}
        BY <2>2, <2>4, <3>2 DEF Verdicts
      <4> QED BY <4>1, <1>2 DEF Refusing, Throwing, Inbound, Edges, GateValues
    <3> QED BY <2>1, <3>1, <3>2
  <2>5. ASSUME NEW p \in Pipelines, table'[p] = "skipped", asking = {}
        PROVE  Vain(p)
    <3>1. CASE table'[p] = table[p]
      BY <2>5, <3>1 DEF SkipsAreRefused, In
    <3>2. CASE p \in Ready /\ table'[p] \in Verdicts(p)
      <4>1. Refusing(p) # {}
        BY <2>5, <3>2 DEF Verdicts
      <4>2. \A d \in Refusing(p) : IsTerminal(table[d.from])
        BY <3>2 DEF Ready, Refusing
      <4> QED BY <4>1, <4>2
    <3> QED BY <2>1, <3>1, <3>2
  <2>6. \A p \in Pipelines : \A d \in Inbound(p) :
           IsTerminal(table[d.from]) => table'[d.from] = table[d.from]
    BY <1>2, <2>1 DEF Inbound
  <2>7. RanMeansReleased'
    BY <1>3, <2>4, <2>6 DEF RanMeansReleased
  <2>8. SkipsAreRefused'
    BY <1>1, <1>4, <2>5, <2>6 DEF SkipsAreRefused, In
  <2> QED BY <2>3, <2>7, <2>8
<1>6. CASE ~Wave
  <2>1. \A p \in Pipelines :
          /\ table'[p] = "running" => table[p] = "running"
          /\ table'[p] = "skipped" => table[p] = "skipped"
          /\ table'[p] = "succeeded" => table[p] \in {"running", "succeeded"}
          /\ table'[p] = "paused" =>
               table[p] = "paused" \/ (table[p] = "running" /\ p \in asking)
    BY <1>6, OtherStepsKeep
  <2>2. OnlyAskersPause'
    BY <1>1, <2>1 DEF OnlyAskersPause
  <2>3. ASSUME NEW p \in Pipelines, Calm(p) PROVE Calm(p)'
    BY <1>1, <1>2, <2>3
       DEF OnlyAskersPause, Inbound, Matches, IsTerminal, Hasty, Edges, Completions, Final
  <2>4. ASSUME NEW p \in Pipelines, asking = {}, Vain(p) PROVE Vain(p)'
    <3>1. \A q \in Pipelines : IsTerminal(table[q]) => table'[q] = table[q]
      BY <1>1, <2>4 DEF OnlyAskersPause, IsTerminal, Final
    <3> QED BY <1>1, <1>2, <1>4, <2>4, <3>1 DEF Inbound
  <2>5. RanMeansReleased'
    BY <2>1, <2>3 DEF RanMeansReleased
  <2>6. SkipsAreRefused'
    BY <1>1, <2>1, <2>4 DEF SkipsAreRefused, In
  <2> QED BY <2>2, <2>5, <2>6
<1> QED BY <1>5, <1>6

(* What is known of released and skipped pipelines, in every state.        *)
LEMMA ReleaseInvariance ==
  Spec => [](OnlyAskersPause /\ RanMeansReleased /\ SkipsAreRefused)
<1>1. Init => OnlyAskersPause /\ RanMeansReleased /\ SkipsAreRefused
  BY DEF Init, OnlyAskersPause, RanMeansReleased, SkipsAreRefused, In
<1>2. /\ TypeOK /\ OnlyAskersPause /\ RanMeansReleased /\ SkipsAreRefused /\ [Next]_vars
      => (OnlyAskersPause /\ RanMeansReleased /\ SkipsAreRefused)'
  BY ReleaseStep
<1> QED BY <1>1, <1>2, TypeCorrect, PTL DEF Spec

(* Whatever crashed, was cancelled or asked on the way, a pipeline that    *)
(* ran was released by what its upstreams came to in the end.              *)
THEOREM RunsAreReleased == Spec => []RanMeansReleased
BY ReleaseInvariance, PTL

(* No pipeline starts while an upstream still has work to do, unless an    *)
(* "always" edge leads to it from a pipeline that waits for a person.      *)
THEOREM UpstreamComesFirst == Spec => []UpstreamIsOver
<1>1. TypeOK /\ OnlyAskersPause /\ RanMeansReleased => UpstreamIsOver
  BY DEF TypeOK, OnlyAskersPause, RanMeansReleased, UpstreamIsOver, Inbound, Matches,
         IsTerminal, Hasty, Edges, Completions
<1> QED BY <1>1, ReleaseInvariance, TypeCorrect, PTL

(* A succeeded run nobody was asked in skipped only what an edge refuses.  *)
THEOREM SkipsAreFinal == Spec => []UnattendedSkipsAreRefused
<1>1. SkipsAreRefused => UnattendedSkipsAreRefused
  BY DEF SkipsAreRefused, UnattendedSkipsAreRefused, SkippedMeansRefused
<1> QED BY <1>1, ReleaseInvariance, PTL

(* Over edges that go upward the wave loop always finds a pipeline to      *)
(* release: the smallest pending one.                                      *)
THEOREM WavesGoOn == Spec => []WavesProgress
<1>1. IInv => WavesProgress
  <2> SUFFICES ASSUME IInv, Forward, AtBarrier, In("pending") # {} PROVE Ready # {}
    BY DEF WavesProgress
  <2> DEFINE Below == OpToRel(<, Nat)
  <2>1. IsWellFoundedOn(Below, Nat)
    BY NatLessThanWellFounded
  <2>2. In("pending") \subseteq Nat
    BY PipelinesAssumption DEF In
  <2>3. PICK p \in In("pending") : \A q \in In("pending") : <<q, p>> \notin Below
    <3> HIDE DEF Below
    <3> QED BY <2>1, <2>2, WFMin
  <2>4. \A q \in In("pending") : ~(q < p)
    BY <2>2, <2>3 DEF OpToRel
  <2>5. ASSUME NEW d \in Inbound(p) PROVE IsTerminal(table[d.from])
    <3>1. d.from \in Pipelines /\ d.from < p
      BY DEF Inbound, Forward, IInv, TypeOK, Edges
    <3>2. table[d.from] \notin {"none", "pending", "running"}
      BY <2>4, <3>1 DEF In, AtBarrier, IInv, RecordsExist
    <3> QED BY <3>1, <3>2 DEF IInv, TypeOK, PipelineStatus, IsTerminal
  <2> QED BY <2>3, <2>5 DEF Ready
<1> QED BY <1>1, Invariance, PTL
=============================================================================
