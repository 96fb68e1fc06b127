------------------------ MODULE RunScheduler_proofs ------------------------
(***************************************************************************)
(* Theorems about RunScheduler, for every set of processes, ids, runs and  *)
(* workflows, every overlap policy, any number of crashes and resumes, and *)
(* heartbeats that may be late.                                            *)
(***************************************************************************)
EXTENDS RunScheduler, TLAPS

(* A serial job about to claim has picked a run of its own workflow.       *)
PickedIsOwn ==
  \A i \in Instances, w \in Workflows :
    loop[i][w] = "claim" => picked[i][w] \in Runs /\ WorkflowOf[picked[i][w]] = w

(* Runs that wait outside a serial job are of parallel workflows.          *)
PendingIsParallel ==
  \A i \in Instances : \A r \in pending[i] : ~Serial(r)

(* A serial run executes inside the serial job of its process: the job     *)
(* cannot read the next run before the execution is over.                  *)
SerialRunHoldsLoop ==
  \A e \in exec : Serial(e.run) => loop[e.inst][WorkflowOf[e.run]] = "run"

-----------------------------------------------------------------------------
(* What the two helpers that several actions share do to the state.        *)
LEMMA WriteTypes ==
  ASSUME TypeOK, NEW r \in Runs, NEW s \in Status, NEW id \in Ids \cup {NoOne},
         Write(r, s, id)
  PROVE  status' \in [Runs -> Status] /\ owner' \in [Runs -> Ids \cup {NoOne}]
BY DEF TypeOK, Write

(* A dispatch adds only runs of parallel workflows to pending, and changes *)
(* a loop of its own process only from none to scan.                       *)
LEMMA StartAllEffect ==
  ASSUME TypeOK, NEW i \in Instances, NEW S \in SUBSET Runs, StartAll(i, S)
  PROVE  /\ pending' \in [Instances -> SUBSET Runs]
         /\ \A j \in Instances : j # i => pending'[j] = pending[j]
         /\ \A r \in pending'[i] : r \in pending[i] \/ ~Serial(r)
         /\ loop' \in [Instances -> [Workflows -> {"none", "scan", "claim", "run"}]]
         /\ \A j \in Instances, w \in Workflows :
              loop'[j][w] = loop[j][w]
                \/ (j = i /\ loop[j][w] = "none" /\ loop'[j][w] = "scan")
<1>1. loop \in [Instances -> [Workflows -> {"none", "scan", "claim", "run"}]]
      /\ pending \in [Instances -> SUBSET Runs]
  BY DEF TypeOK
<1>2. /\ pending' \in [Instances -> SUBSET Runs]
      /\ \A j \in Instances : j # i => pending'[j] = pending[j]
      /\ \A r \in pending'[i] : r \in pending[i] \/ ~Serial(r)
  BY <1>1 DEF StartAll
<1> DEFINE started == [w \in Workflows |->
       IF loop[i][w] = "none" /\ \E r \in S : WorkflowOf[r] = w /\ Serial(r)
       THEN "scan" ELSE loop[i][w]]
<1>3. loop' = [loop EXCEPT ![i] = started]
  BY DEF StartAll
<1>4. started \in [Workflows -> {"none", "scan", "claim", "run"}]
  BY <1>1
<1>5. \A w \in Workflows :
        started[w] = loop[i][w] \/ (loop[i][w] = "none" /\ started[w] = "scan")
  OBVIOUS
<1> HIDE DEF started
<1> QED BY <1>1, <1>2, <1>3, <1>4, <1>5

(* The claim types the row, the execution, the controller and the timer.   *)
LEMMA TakeTypes ==
  ASSUME TypeOK, NEW i \in Instances, NEW r \in Runs, Take(i, r)
  PROVE  /\ status' \in [Runs -> Status]
         /\ owner' \in [Runs -> Ids \cup {NoOne}]
         /\ lease' \in [Runs -> {"null", "live", "lapsed"}]
         /\ claims' \in [Runs -> Nat]
         /\ exec' \subseteq Executions
         /\ held' \in [Instances -> [Runs -> Nat]]
         /\ timers' \subseteq Tickets
<1>1. claims[r] + 1 \in Nat \ {0}
  BY DEF TypeOK
<1>2. IdOf[i] \in Ids \cup {NoOne}
  BY InstanceAssumption
<1>3. status' \in [Runs -> Status] /\ owner' \in [Runs -> Ids \cup {NoOne}]
  BY <1>2, WriteTypes DEF Take, Status
<1>4. exec' \subseteq Executions
  <2>1. [inst |-> i, run |-> r, no |-> claims[r] + 1,
         stage |-> "claimed", as |-> NoOne, aborted |-> FALSE] \in Executions
    BY <1>1 DEF Executions
  <2> QED BY <2>1 DEF TypeOK, Take
<1>5. timers' \subseteq Tickets
  BY <1>1 DEF TypeOK, Take, Tickets
<1>6. /\ lease' \in [Runs -> {"null", "live", "lapsed"}]
      /\ claims' \in [Runs -> Nat]
      /\ held' \in [Instances -> [Runs -> Nat]]
  BY <1>1 DEF TypeOK, Take
<1> QED BY <1>3, <1>4, <1>5, <1>6

-----------------------------------------------------------------------------
(* Every step keeps every variable in its type.                            *)
LEMMA TypeStep ==
  ASSUME TypeOK, PickedIsOwn, [Next]_vars
  PROVE  TypeOK'
<1> USE InstanceAssumption
<1>1. ASSUME NEW i \in Instances, NEW r \in Runs, Enqueue(i, r) PROVE TypeOK'
  <2>1. status' \in [Runs -> Status] /\ owner' \in [Runs -> Ids \cup {NoOne}]
    BY <1>1, WriteTypes DEF Enqueue, Status
  <2>2. /\ pending' \in [Instances -> SUBSET Runs]
        /\ loop' \in [Instances -> [Workflows -> {"none", "scan", "claim", "run"}]]
    BY <1>1, StartAllEffect DEF Enqueue, TypeOK
  <2> QED BY <1>1, <2>1, <2>2 DEF Enqueue, TypeOK
<1>2. ASSUME NEW i \in Instances, Poll(i) PROVE TypeOK'
  <2>1. /\ pending' \in [Instances -> SUBSET Runs]
        /\ loop' \in [Instances -> [Workflows -> {"none", "scan", "claim", "run"}]]
    BY <1>2, StartAllEffect DEF Poll
  <2> QED BY <1>2, <2>1 DEF Poll, TypeOK, rowVars
<1>3. ASSUME NEW i \in Instances, NEW w \in Workflows, Scan(i, w) PROVE TypeOK'
  <2>1. /\ loop' \in [Instances -> [Workflows -> {"none", "scan", "claim", "run"}]]
        /\ picked' \in [Instances -> [Workflows -> Runs \cup {0}]]
    <3>1. CASE Queued(w) = {} /\ loop' = [loop EXCEPT ![i][w] = "none"] /\ UNCHANGED picked
      BY <3>1 DEF TypeOK
    <3>2. CASE \E r \in Queued(w) : /\ loop' = [loop EXCEPT ![i][w] = "claim"]
                                    /\ picked' = [picked EXCEPT ![i][w] = r]
      BY <3>2 DEF TypeOK, Queued
    <3> QED BY <1>3, <3>1, <3>2 DEF Scan
  <2> QED BY <1>3, <2>1 DEF Scan, TypeOK, rowVars
<1>4. ASSUME NEW i \in Instances, NEW w \in Workflows, ClaimNext(i, w) PROVE TypeOK'
  <2>1. loop' \in [Instances -> [Workflows -> {"none", "scan", "claim", "run"}]]
    <3>1. \E l \in {"none", "run"} : loop' = [loop EXCEPT ![i][w] = l]
      BY <1>4 DEF ClaimNext
    <3> QED BY <3>1 DEF TypeOK
  <2>2. CASE Claimable(picked[i][w])
    <3>1. picked[i][w] \in Runs
      BY <1>4 DEF ClaimNext, PickedIsOwn
    <3> QED BY <1>4, <2>1, <2>2, <3>1, TakeTypes DEF ClaimNext, TypeOK
  <2>3. CASE ~Claimable(picked[i][w])
    BY <1>4, <2>1, <2>3 DEF ClaimNext, TypeOK, rowVars
  <2> QED BY <2>2, <2>3
<1>5. ASSUME NEW i \in Instances, NEW r \in Runs, ClaimParallel(i, r) PROVE TypeOK'
  BY <1>5, TakeTypes DEF ClaimParallel, TypeOK, rowVars
<1>6. ASSUME NEW e \in exec, Load(e) PROVE TypeOK'
  <2>1. [e EXCEPT !.stage = "loaded", !.as = owner[e.run]] \in Executions
    BY DEF TypeOK, Executions
  <2>2. exec' \subseteq Executions
    BY <1>6, <2>1 DEF Load, TypeOK
  <2> QED BY <1>6, <2>2 DEF Load, TypeOK, rowVars
<1>7. ASSUME NEW e \in exec, Begin(e) PROVE TypeOK'
  <2>1. e \in Executions /\ [e EXCEPT !.stage = "running"] \in Executions
    BY DEF TypeOK, Executions
  <2>2. exec' \subseteq Executions
    BY <1>7, <2>1 DEF Begin, TypeOK
  <2>3. status' \in [Runs -> Status] /\ owner' \in [Runs -> Ids \cup {NoOne}]
    BY <1>7, <2>1, WriteTypes DEF Begin, Executions, Status
  <2> QED BY <1>7, <2>2, <2>3 DEF Begin, TypeOK
<1>8. ASSUME NEW e \in exec, NEW s \in Status, Finish(e, s) PROVE TypeOK'
  <2>1. e.inst \in Instances /\ e.run \in Runs /\ e.as \in Ids \cup {NoOne}
    BY DEF TypeOK, Executions
  <2>2. status' \in [Runs -> Status] /\ owner' \in [Runs -> Ids \cup {NoOne}]
    BY <1>8, <2>1, WriteTypes DEF Finish
  <2>3. held' \in [Instances -> [Runs -> Nat]]
    BY <1>8, <2>1 DEF Finish, TypeOK
  <2>4. loop' \in [Instances -> [Workflows -> {"none", "scan", "claim", "run"}]]
    BY <1>8, <2>1 DEF Finish, TypeOK
  <2>5. exec' \subseteq Executions /\ timers' \subseteq Tickets
    BY <1>8 DEF Finish, ReleaseLease, TypeOK
  <2> QED BY <1>8, <2>2, <2>3, <2>4, <2>5 DEF Finish, TypeOK
<1>9. ASSUME NEW t \in timers, Renew(t) PROVE TypeOK'
  BY <1>9 DEF Renew, TypeOK, jobVars, Tickets
<1>10. ASSUME NEW r \in Runs, Lapse(r) PROVE TypeOK'
  BY <1>10 DEF Lapse, TypeOK, jobVars
<1>11. ASSUME NEW i \in Instances, NEW r \in Runs, Cancel(i, r) PROVE TypeOK'
  <2>1. exec' \subseteq Executions
    <3>1. ASSUME NEW e \in exec PROVE [e EXCEPT !.aborted = TRUE] \in Executions
      <4>1. e \in Executions
        BY DEF TypeOK
      <4> QED BY <4>1 DEF Executions
    <3> QED BY <1>11, <3>1 DEF Cancel, TypeOK
  <2>2. calls' \subseteq [op : {"cancel", "resume"}, inst : Instances, run : Runs,
                          as : Ids \cup {NoOne}]
    BY <1>11 DEF Cancel, TypeOK
  <2> QED BY <1>11, <2>1, <2>2 DEF Cancel, TypeOK, rowVars
<1>12. ASSUME NEW i \in Instances, NEW r \in Runs, Resume(i, r) PROVE TypeOK'
  BY <1>12, BoundAssumption DEF Resume, TypeOK, rowVars, jobVars
<1>13. ASSUME NEW c \in calls, CancelWrite(c) PROVE TypeOK'
  BY <1>13, WriteTypes DEF CancelWrite, TypeOK, jobVars, Status
<1>14. ASSUME NEW c \in calls, ResumeWrite(c) PROVE TypeOK'
  <2>1. c.inst \in Instances /\ c.run \in Runs /\ c.as \in Ids \cup {NoOne}
    BY DEF TypeOK
  <2>2. status' \in [Runs -> Status] /\ owner' \in [Runs -> Ids \cup {NoOne}]
    BY <1>14, <2>1, WriteTypes DEF ResumeWrite, Status
  <2>3. /\ pending' \in [Instances -> SUBSET Runs]
        /\ loop' \in [Instances -> [Workflows -> {"none", "scan", "claim", "run"}]]
    BY <1>14, <2>1, StartAllEffect DEF ResumeWrite
  <2> QED BY <1>14, <2>2, <2>3 DEF ResumeWrite, TypeOK
<1>15. ASSUME NEW i \in Instances, Crash(i) PROVE TypeOK'
  BY <1>15, BoundAssumption DEF Crash, TypeOK, rowVars, Phase
<1>16. ASSUME NEW i \in Instances, Boot(i) PROVE TypeOK'
  BY <1>16 DEF Boot, TypeOK, rowVars, jobVars, Phase
<1>17. ASSUME NEW i \in Instances, InterruptRunning(i) PROVE TypeOK'
  <2>1. status' \in [Runs -> Status]
    BY <1>17 DEF InterruptRunning, TypeOK, Status
  <2>2. reclaimed' \in [Instances -> SUBSET [run : Runs, as : Ids \cup {NoOne}]]
    BY <1>17 DEF InterruptRunning, TypeOK
  <2>3. phase' \in [Instances -> Phase]
    BY <1>17 DEF InterruptRunning, TypeOK, Phase
  <2> QED BY <1>17, <2>1, <2>2, <2>3 DEF InterruptRunning, TypeOK, jobVars
<1>18. ASSUME NEW i \in Instances, Requeue(i) PROVE TypeOK'
  <2>1. PICK c \in reclaimed[i] :
          /\ Write(c.run, "queued", c.as)
          /\ reclaimed' = [reclaimed EXCEPT ![i] = @ \ {c}]
    BY <1>18 DEF Requeue
  <2>2. c.run \in Runs /\ c.as \in Ids \cup {NoOne}
    BY DEF TypeOK
  <2>3. status' \in [Runs -> Status] /\ owner' \in [Runs -> Ids \cup {NoOne}]
    BY <2>1, <2>2, WriteTypes DEF Status
  <2>4. reclaimed' \in [Instances -> SUBSET [run : Runs, as : Ids \cup {NoOne}]]
    BY <2>1 DEF TypeOK
  <2> QED BY <1>18, <2>3, <2>4 DEF Requeue, TypeOK, jobVars
<1>19. ASSUME NEW i \in Instances, DispatchRecovered(i) PROVE TypeOK'
  BY <1>19, StartAllEffect DEF DispatchRecovered, TypeOK, rowVars, Phase
<1>20. ASSUME NEW i \in Instances, Recovered(i) PROVE TypeOK'
  BY <1>20 DEF Recovered, TypeOK, rowVars, jobVars, Phase
<1>21. CASE UNCHANGED vars
  BY <1>21 DEF TypeOK, vars
<1> QED
  BY <1>1, <1>2, <1>3, <1>4, <1>5, <1>6, <1>7, <1>8, <1>9, <1>10, <1>11,
     <1>12, <1>13, <1>14, <1>15, <1>16, <1>17, <1>18, <1>19, <1>20, <1>21
     DEF Next, Api, Job, Execute, Heartbeat, Recover

(* The job of a loop claims the run it picked, and picks one of its own.   *)
LEMMA PickedStep ==
  ASSUME TypeOK, PickedIsOwn, [Next]_vars
  PROVE  PickedIsOwn'
<1>1. ASSUME NEW i \in Instances, NEW S \in SUBSET Runs, StartAll(i, S), UNCHANGED picked
      PROVE  PickedIsOwn'
  BY <1>1, StartAllEffect DEF PickedIsOwn
<1>2. ASSUME NEW i \in Instances, NEW w \in Workflows, Scan(i, w) PROVE PickedIsOwn'
  <2>1. CASE loop' = [loop EXCEPT ![i][w] = "none"] /\ UNCHANGED picked
    BY <2>1 DEF TypeOK, PickedIsOwn
  <2>2. CASE \E r \in Queued(w) : /\ loop' = [loop EXCEPT ![i][w] = "claim"]
                                  /\ picked' = [picked EXCEPT ![i][w] = r]
    BY <2>2 DEF TypeOK, PickedIsOwn, Queued
  <2> QED BY <1>2, <2>1, <2>2 DEF Scan
<1>3. ASSUME NEW i \in Instances, NEW w \in Workflows, ClaimNext(i, w) PROVE PickedIsOwn'
  <2>1. PICK l \in {"none", "run"} : loop' = [loop EXCEPT ![i][w] = l]
    BY <1>3 DEF ClaimNext
  <2> QED BY <1>3, <2>1 DEF ClaimNext, TypeOK, PickedIsOwn
<1>4. ASSUME NEW e \in exec, NEW s \in Status, Finish(e, s) PROVE PickedIsOwn'
  <2>1. e.inst \in Instances /\ e.run \in Runs
    BY DEF TypeOK, Executions
  <2>2. WorkflowOf[e.run] \in Workflows
    BY <2>1, WorkflowAssumption
  <2> QED BY <1>4, <2>1, <2>2 DEF Finish, TypeOK, PickedIsOwn
<1>5. ASSUME NEW i \in Instances, Crash(i) PROVE PickedIsOwn'
  BY <1>5 DEF Crash, TypeOK, PickedIsOwn
<1>6. CASE UNCHANGED <<loop, picked>>
  BY <1>6 DEF PickedIsOwn
<1>7. ASSUME NEW i \in Instances, NEW r \in Runs, Enqueue(i, r) PROVE PickedIsOwn'
  BY <1>1, <1>6, <1>7 DEF Enqueue
<1>8. ASSUME NEW c \in calls, ResumeWrite(c) PROVE PickedIsOwn'
  <2>1. c.inst \in Instances /\ c.run \in Runs
    BY DEF TypeOK
  <2> QED BY <1>1, <1>8, <2>1 DEF ResumeWrite
<1>9. ASSUME NEW i \in Instances, Poll(i) \/ DispatchRecovered(i) PROVE PickedIsOwn'
  <2>1. {r \in Runs : status[r] = "queued"} \in SUBSET Runs
    OBVIOUS
  <2> QED BY <1>1, <1>9, <2>1 DEF Poll, DispatchRecovered
<1>10. ASSUME NEW i \in Instances, NEW r \in Runs,
              ClaimParallel(i, r) \/ Cancel(i, r) \/ Resume(i, r)
       PROVE  PickedIsOwn'
  BY <1>6, <1>10 DEF ClaimParallel, Cancel, Resume, jobVars
<1>11. ASSUME NEW e \in exec, Load(e) \/ Begin(e) PROVE PickedIsOwn'
  BY <1>6, <1>11 DEF Load, Begin
<1>12. CASE Heartbeat
  BY <1>6, <1>12 DEF Heartbeat, Renew, Lapse, jobVars
<1>13. ASSUME NEW c \in calls, CancelWrite(c) PROVE PickedIsOwn'
  BY <1>6, <1>13 DEF CancelWrite, jobVars
<1>14. ASSUME NEW i \in Instances,
              Boot(i) \/ InterruptRunning(i) \/ Requeue(i) \/ Recovered(i)
       PROVE  PickedIsOwn'
  BY <1>6, <1>14 DEF Boot, InterruptRunning, Requeue, Recovered, jobVars
<1>15. CASE UNCHANGED vars
  BY <1>6, <1>15 DEF vars
<1> QED
  BY <1>2, <1>3, <1>4, <1>5, <1>7, <1>8, <1>9, <1>10, <1>11, <1>12, <1>13,
     <1>14, <1>15 DEF Next, Api, Job, Execute, Recover

(* Every reachable state is one the code can hold: rows have a status and  *)
(* an instance id, a serial job is at one of four places, a timer names a  *)
(* claim that was made.                                                    *)
THEOREM TypeCorrect == Spec => []TypeOK
<1>1. Init => TypeOK /\ PickedIsOwn
  BY InstanceAssumption, BoundAssumption
     DEF Init, TypeOK, Status, Phase, Executions, Tickets, PickedIsOwn
<1>2. TypeOK /\ PickedIsOwn /\ [Next]_vars => (TypeOK /\ PickedIsOwn)'
  BY TypeStep, PickedStep
<1> QED BY <1>1, <1>2, PTL DEF Spec

-----------------------------------------------------------------------------
(* Runs of parallel workflows are the only ones that wait in pending.      *)
LEMMA PendingStep ==
  ASSUME TypeOK, PendingIsParallel, [Next]_vars
  PROVE  PendingIsParallel'
<1>1. ASSUME NEW i \in Instances, NEW S \in SUBSET Runs, StartAll(i, S)
      PROVE  PendingIsParallel'
  BY <1>1, StartAllEffect DEF PendingIsParallel, Serial
<1>2. ASSUME NEW i \in Instances, NEW r \in Runs, ClaimParallel(i, r)
      PROVE  PendingIsParallel'
  BY <1>2 DEF ClaimParallel, TypeOK, PendingIsParallel, Serial
<1>3. ASSUME NEW i \in Instances, Crash(i) PROVE PendingIsParallel'
  BY <1>3 DEF Crash, TypeOK, PendingIsParallel, Serial
<1>4. CASE UNCHANGED pending
  BY <1>4 DEF PendingIsParallel, Serial
<1>5. ASSUME NEW i \in Instances, NEW r \in Runs,
             Enqueue(i, r) \/ Cancel(i, r) \/ Resume(i, r)
      PROVE  PendingIsParallel'
  BY <1>1, <1>4, <1>5 DEF Enqueue, Cancel, Resume, jobVars
<1>6. ASSUME NEW c \in calls, CancelWrite(c) \/ ResumeWrite(c) PROVE PendingIsParallel'
  <2>1. c.inst \in Instances /\ c.run \in Runs
    BY DEF TypeOK
  <2> QED BY <1>1, <1>4, <1>6, <2>1 DEF CancelWrite, ResumeWrite, jobVars
<1>7. ASSUME NEW i \in Instances, Poll(i) \/ Recover(i) PROVE PendingIsParallel'
  <2>1. {r \in Runs : status[r] = "queued"} \in SUBSET Runs
    OBVIOUS
  <2> QED
    BY <1>1, <1>4, <1>7, <2>1
       DEF Poll, Recover, Boot, InterruptRunning, Requeue, DispatchRecovered,
           Recovered, jobVars
<1>8. ASSUME NEW i \in Instances, NEW w \in Workflows, Scan(i, w) \/ ClaimNext(i, w)
      PROVE  PendingIsParallel'
  BY <1>4, <1>8 DEF Scan, ClaimNext
<1>9. CASE Execute
  BY <1>4, <1>9 DEF Execute, Load, Begin, Finish
<1>10. CASE Heartbeat \/ UNCHANGED vars
  BY <1>4, <1>10 DEF Heartbeat, Renew, Lapse, jobVars, vars
<1> QED BY <1>2, <1>3, <1>5, <1>6, <1>7, <1>8, <1>9, <1>10 DEF Next, Api, Job

(* A serial run starts only from a loop that was free, and leaves the loop *)
(* only by ending.                                                         *)
SerialInv == OneSerialRunPerInstance /\ SerialRunHoldsLoop

(* No step starts a second serial run of a workflow in a process.          *)
LEMMA SerialStep ==
  ASSUME TypeOK, PickedIsOwn, PendingIsParallel, SerialInv, [Next]_vars
  PROVE  SerialInv'
<1> DEFINE Goal == SerialInv'
<1>0. \A e \in exec : /\ e.inst \in Instances /\ e.run \in Runs
                      /\ WorkflowOf[e.run] \in Workflows
  BY WorkflowAssumption DEF TypeOK, Executions
<1>1. ASSUME UNCHANGED exec,
             \A j \in Instances, w \in Workflows :
               loop[j][w] = "run" => loop'[j][w] = "run"
      PROVE  Goal
  BY <1>0, <1>1 DEF SerialInv, OneSerialRunPerInstance, SerialRunHoldsLoop, Serial
<1>2. ASSUME NEW i \in Instances, NEW S \in SUBSET Runs, StartAll(i, S), UNCHANGED exec
      PROVE  Goal
  BY <1>1, <1>2, StartAllEffect
<1>3. ASSUME NEW i \in Instances, NEW w \in Workflows, Scan(i, w) PROVE Goal
  <2>1. loop[i][w] = "scan" /\ \E l \in {"none", "claim"} : loop' = [loop EXCEPT ![i][w] = l]
    BY <1>3 DEF Scan
  <2> QED BY <1>1, <1>3, <2>1 DEF Scan, TypeOK
<1>4. ASSUME NEW i \in Instances, NEW w \in Workflows, ClaimNext(i, w) PROVE Goal
  <2>0. loop[i][w] = "claim"
    BY <1>4 DEF ClaimNext
  <2>1. CASE ~Claimable(picked[i][w])
    <3>1. UNCHANGED exec /\ loop' = [loop EXCEPT ![i][w] = "none"]
      BY <1>4, <2>1 DEF ClaimNext
    <3>2. \A j \in Instances, v \in Workflows : loop[j][v] = "run" => loop'[j][v] = "run"
      BY <2>0, <3>1 DEF TypeOK
    <3> QED BY <1>1, <3>1, <3>2
  <2>2. CASE Claimable(picked[i][w])
    <3> DEFINE r == picked[i][w]
    <3>1. r \in Runs /\ WorkflowOf[r] = w
      BY <2>0 DEF PickedIsOwn
    <3>2. PICK n : n.inst = i /\ n.run = r /\ exec' = exec \cup {n}
      <4> DEFINE n == [inst |-> i, run |-> r, no |-> claims[r] + 1,
                       stage |-> "claimed", as |-> NoOne, aborted |-> FALSE]
      <4>1. n.inst = i /\ n.run = r /\ exec' = exec \cup {n}
        BY <1>4, <2>2 DEF ClaimNext, Take
      <4> QED BY <4>1
    <3>3. loop' = [loop EXCEPT ![i][w] = "run"]
      BY <1>4, <2>2 DEF ClaimNext
    <3>4. ASSUME NEW e \in exec, e.inst = i, WorkflowOf[e.run] = w, Serial(e.run)
          PROVE  FALSE
      BY <2>0, <3>4 DEF SerialInv, SerialRunHoldsLoop
    <3>5. OneSerialRunPerInstance'
      BY <3>1, <3>2, <3>4 DEF SerialInv, OneSerialRunPerInstance, Serial
    <3>6. SerialRunHoldsLoop'
      BY <1>0, <3>1, <3>2, <3>3 DEF SerialInv, SerialRunHoldsLoop, Serial, TypeOK
    <3> QED BY <3>5, <3>6 DEF SerialInv
  <2> QED BY <2>1, <2>2
<1>5. ASSUME NEW i \in Instances, NEW r \in Runs, ClaimParallel(i, r) PROVE Goal
  <2>0. ~Serial(r) /\ UNCHANGED loop
    BY <1>5 DEF ClaimParallel, PendingIsParallel
  <2>1. CASE ~Claimable(r)
    BY <1>1, <1>5, <2>0, <2>1 DEF ClaimParallel
  <2>2. CASE Claimable(r)
    <3>1. PICK n : n.run = r /\ exec' = exec \cup {n}
      <4> DEFINE n == [inst |-> i, run |-> r, no |-> claims[r] + 1,
                       stage |-> "claimed", as |-> NoOne, aborted |-> FALSE]
      <4>1. n.run = r /\ exec' = exec \cup {n}
        BY <1>5, <2>2 DEF ClaimParallel, Take
      <4> QED BY <4>1
    <3> QED BY <2>0, <3>1
            DEF SerialInv, OneSerialRunPerInstance, SerialRunHoldsLoop, Serial
  <2> QED BY <2>1, <2>2
<1>6. ASSUME NEW e \in exec, Load(e) \/ Begin(e) PROVE Goal
  <2>1. PICK n : n.inst = e.inst /\ n.run = e.run /\ exec' = (exec \ {e}) \cup {n}
    <3>1. e \in Executions
      BY DEF TypeOK
    <3>2. CASE Load(e)
      <4> DEFINE n == [e EXCEPT !.stage = "loaded", !.as = owner[e.run]]
      <4>1. n.inst = e.inst /\ n.run = e.run /\ exec' = (exec \ {e}) \cup {n}
        BY <3>1, <3>2 DEF Load, Executions
      <4> QED BY <4>1
    <3>3. CASE Begin(e)
      <4> DEFINE n == [e EXCEPT !.stage = "running"]
      <4>1. n.inst = e.inst /\ n.run = e.run /\ exec' = (exec \ {e}) \cup {n}
        BY <3>1, <3>3 DEF Begin, Executions
      <4> QED BY <4>1
    <3> QED BY <1>6, <3>2, <3>3
  <2>2. UNCHANGED loop
    BY <1>6 DEF Load, Begin
  <2> QED BY <2>1, <2>2 DEF SerialInv, OneSerialRunPerInstance, SerialRunHoldsLoop, Serial
<1>7. ASSUME NEW e \in exec, NEW s \in Status, Finish(e, s) PROVE Goal
  <2>1. exec' = exec \ {e}
    BY <1>7 DEF Finish
  <2>2. ASSUME NEW d \in exec, d # e, Serial(d.run)
        PROVE  loop'[d.inst][WorkflowOf[d.run]] = loop[d.inst][WorkflowOf[d.run]]
    <3>1. d.inst # e.inst \/ WorkflowOf[d.run] # WorkflowOf[e.run]
      BY <2>2 DEF SerialInv, OneSerialRunPerInstance
    <3> QED BY <1>0, <1>7, <3>1 DEF Finish, TypeOK
  <2> QED BY <2>1, <2>2 DEF SerialInv, OneSerialRunPerInstance, SerialRunHoldsLoop, Serial
<1>8. ASSUME NEW i \in Instances, NEW r \in Runs, Cancel(i, r) PROVE Goal
  <2>1. CASE UNCHANGED exec
    BY <1>1, <1>8, <2>1 DEF Cancel
  <2>2. CASE exec' = {IF Ticket(e) = [inst |-> i, run |-> r, no |-> held[i][r]]
                      THEN [e EXCEPT !.aborted = TRUE] ELSE e : e \in exec}
    <3>1. ASSUME NEW e \in exec'
          PROVE  \E d \in exec : /\ d.inst = e.inst /\ d.run = e.run
                                 /\ e = IF Ticket(d) = [inst |-> i, run |-> r, no |-> held[i][r]]
                                        THEN [d EXCEPT !.aborted = TRUE] ELSE d
      <4>1. PICK d \in exec : e = IF Ticket(d) = [inst |-> i, run |-> r, no |-> held[i][r]]
                                  THEN [d EXCEPT !.aborted = TRUE] ELSE d
        BY <2>2
      <4>2. d \in Executions
        BY DEF TypeOK
      <4> QED BY <4>1, <4>2 DEF Executions
    <3>2. UNCHANGED loop
      BY <1>8 DEF Cancel
    <3>3. OneSerialRunPerInstance'
      <4> SUFFICES ASSUME NEW d \in exec', NEW e \in exec', d.inst = e.inst,
                          WorkflowOf[d.run] = WorkflowOf[e.run], Serial(d.run)
                   PROVE  d = e
        BY DEF OneSerialRunPerInstance, Serial
      <4> QED BY <3>1 DEF SerialInv, OneSerialRunPerInstance
    <3>4. SerialRunHoldsLoop'
      BY <3>1, <3>2 DEF SerialInv, SerialRunHoldsLoop, Serial
    <3> QED BY <3>3, <3>4 DEF SerialInv
  <2> QED BY <1>8, <2>1, <2>2 DEF Cancel
<1>9. ASSUME NEW i \in Instances, Crash(i) PROVE Goal
  <2>1. exec' = {e \in exec : e.inst # i} /\ \A j \in Instances : j # i => loop'[j] = loop[j]
    BY <1>9 DEF Crash, TypeOK
  <2> QED BY <1>0, <2>1
          DEF SerialInv, OneSerialRunPerInstance, SerialRunHoldsLoop, Serial
<1>10. CASE UNCHANGED <<exec, loop>>
  BY <1>1, <1>10
<1>11. ASSUME NEW i \in Instances, NEW r \in Runs, Enqueue(i, r) \/ Resume(i, r)
       PROVE  Goal
  BY <1>2, <1>10, <1>11 DEF Enqueue, Resume, jobVars
<1>12. ASSUME NEW c \in calls, CancelWrite(c) \/ ResumeWrite(c) PROVE Goal
  <2>1. c.inst \in Instances /\ c.run \in Runs
    BY DEF TypeOK
  <2> QED BY <1>2, <1>10, <1>12, <2>1 DEF CancelWrite, ResumeWrite, jobVars
<1>13. ASSUME NEW i \in Instances, Poll(i) \/ Recover(i) PROVE Goal
  <2>1. {r \in Runs : status[r] = "queued"} \in SUBSET Runs
    OBVIOUS
  <2> QED
    BY <1>2, <1>10, <1>13, <2>1
       DEF Poll, Recover, Boot, InterruptRunning, Requeue, DispatchRecovered,
           Recovered, jobVars
<1>14. CASE Heartbeat \/ UNCHANGED vars
  BY <1>10, <1>14 DEF Heartbeat, Renew, Lapse, jobVars, vars
<1> QED
  BY <1>3, <1>4, <1>5, <1>6, <1>7, <1>8, <1>9, <1>11, <1>12, <1>13, <1>14
     DEF Next, Api, Job, Execute

(* A process never executes two runs of a workflow that is not "parallel": *)
(* not with late heartbeats, shared instance ids, cancels, manual resumes  *)
(* or crashes.  The guarantee is the serial job's, not the lease's.        *)
THEOREM SerialOnEachInstance == Spec => []OneSerialRunPerInstance
<1> DEFINE IInv == TypeOK /\ PickedIsOwn /\ PendingIsParallel /\ SerialInv
<1>1. Init => IInv
  BY InstanceAssumption, BoundAssumption
     DEF Init, TypeOK, Status, Phase, Executions, Tickets, PickedIsOwn,
         PendingIsParallel, SerialInv, OneSerialRunPerInstance, SerialRunHoldsLoop
<1>2. IInv /\ [Next]_vars => IInv'
  BY TypeStep, PickedStep, PendingStep, SerialStep
<1>3. IInv => OneSerialRunPerInstance
  BY DEF SerialInv
<1> QED BY <1>1, <1>2, <1>3, PTL DEF Spec

-----------------------------------------------------------------------------
(* A process that has not dispatched yet has nothing that could act.       *)
Starting(i) == phase[i] \in {"down", "interrupt", "requeue"}

(* No step starts work in a process that recovers.                         *)
LEMMA RecoveryStep ==
  ASSUME TypeOK, PickedIsOwn, RecoversBeforeExecuting, [Next]_vars
  PROVE  RecoversBeforeExecuting'
<1> DEFINE Goal == RecoversBeforeExecuting'
<1> USE DEF ExecOn
<1>0. /\ \A e \in exec : e.inst \in Instances /\ ~Starting(e.inst)
      /\ \A c \in calls : c.inst \in Instances /\ c.run \in Runs /\ ~Starting(c.inst)
      /\ \A t \in timers : t.inst \in Instances /\ ~Starting(t.inst)
  BY DEF TypeOK, Executions, Tickets, RecoversBeforeExecuting, Starting
<1>1. ASSUME NEW i \in Instances, ~Starting(i), UNCHANGED phase,
             \A e \in exec' : e.inst # i => \E d \in exec : d.inst = e.inst,
             \A t \in timers' : t.inst # i => t \in timers,
             \A c \in calls' : c.inst # i => c \in calls,
             \A j \in Instances : j # i => pending'[j] = pending[j] /\ loop'[j] = loop[j]
      PROVE  Goal
  BY <1>1 DEF RecoversBeforeExecuting, Starting
<1>2. CASE UNCHANGED <<phase, exec, timers, calls, pending, loop>>
  BY <1>2 DEF RecoversBeforeExecuting
<1>3. ASSUME NEW i \in Instances, NEW S \in SUBSET Runs, StartAll(i, S), ~Starting(i),
             UNCHANGED <<phase, exec, timers>>, calls' \subseteq calls
      PROVE  Goal
  BY <1>1, <1>3 DEF StartAll, TypeOK
<1>4. ASSUME NEW i \in Instances, NEW r \in Runs, Enqueue(i, r) PROVE Goal
  BY <1>2, <1>3, <1>4 DEF Enqueue, Quiet, Starting
<1>5. ASSUME NEW i \in Instances, Poll(i) PROVE Goal
  <2>1. {r \in Runs : status[r] = "queued"} \in SUBSET Runs
    OBVIOUS
  <2> QED BY <1>3, <1>5, <2>1 DEF Poll, Quiet, Starting
<1>6. ASSUME NEW i \in Instances, NEW w \in Workflows, Scan(i, w) PROVE Goal
  <2>1. ~Starting(i)
    BY <1>6 DEF Scan, RecoversBeforeExecuting, Starting
  <2>2. \A j \in Instances : j # i => loop'[j] = loop[j]
    BY <1>6 DEF Scan, TypeOK
  <2> QED BY <1>1, <1>6, <2>1, <2>2 DEF Scan
<1>7. ASSUME NEW i \in Instances, NEW r \in Runs, Take(i, r)
      PROVE  /\ \A e \in exec' : e.inst # i => \E d \in exec : d.inst = e.inst
             /\ \A t \in timers' : t.inst # i => t \in timers
  BY <1>7 DEF Take
<1>8. ASSUME NEW i \in Instances, NEW w \in Workflows, ClaimNext(i, w) PROVE Goal
  <2>1. ~Starting(i)
    BY <1>8 DEF ClaimNext, RecoversBeforeExecuting, Starting
  <2>2. \A j \in Instances : j # i => loop'[j] = loop[j]
    <3>1. \E l \in {"none", "run"} : loop' = [loop EXCEPT ![i][w] = l]
      BY <1>8 DEF ClaimNext
    <3> QED BY <3>1 DEF TypeOK
  <2>3. picked[i][w] \in Runs
    BY <1>8 DEF ClaimNext, PickedIsOwn
  <2>4. Take(i, picked[i][w]) \/ UNCHANGED <<exec, timers>>
    BY <1>8 DEF ClaimNext
  <2>5. UNCHANGED <<phase, pending, calls>>
    BY <1>8 DEF ClaimNext
  <2> QED BY <1>1, <1>7, <2>1, <2>2, <2>3, <2>4, <2>5
<1>9. ASSUME NEW i \in Instances, NEW r \in Runs, ClaimParallel(i, r) PROVE Goal
  <2>1. ~Starting(i)
    BY <1>9 DEF ClaimParallel, RecoversBeforeExecuting, Starting
  <2>2. \A j \in Instances : j # i => pending'[j] = pending[j]
    BY <1>9 DEF ClaimParallel, TypeOK
  <2>3. Take(i, r) \/ UNCHANGED <<exec, timers>>
    BY <1>9 DEF ClaimParallel
  <2>4. UNCHANGED <<phase, loop, calls>>
    BY <1>9 DEF ClaimParallel
  <2> QED BY <1>1, <1>7, <2>1, <2>2, <2>3, <2>4
<1>10. ASSUME NEW e \in exec, Load(e) \/ Begin(e) PROVE Goal
  <2>1. \A d \in exec' : d.inst # e.inst => d \in exec
    <3>1. e \in Executions
      BY DEF TypeOK
    <3>2. /\ [e EXCEPT !.stage = "loaded", !.as = owner[e.run]].inst = e.inst
          /\ [e EXCEPT !.stage = "running"].inst = e.inst
      BY <3>1 DEF Executions
    <3> QED BY <1>10, <3>2 DEF Load, Begin
  <2>2. UNCHANGED <<phase, timers, calls, pending, loop>>
    BY <1>10 DEF Load, Begin
  <2> QED BY <1>0, <1>1, <2>1, <2>2
<1>11. ASSUME NEW e \in exec, NEW s \in Status, Finish(e, s) PROVE Goal
  <2>1. exec' \subseteq exec /\ timers' \subseteq timers
    BY <1>11 DEF Finish, ReleaseLease
  <2>2. \A j \in Instances : j # e.inst => loop'[j] = loop[j]
    BY <1>11 DEF Finish, TypeOK
  <2>3. UNCHANGED <<phase, calls, pending>>
    BY <1>11 DEF Finish
  <2> QED BY <1>0, <1>1, <2>1, <2>2, <2>3
<1>12. ASSUME NEW i \in Instances, NEW r \in Runs, Cancel(i, r) PROVE Goal
  <2>1. ASSUME NEW e \in exec' PROVE \E d \in exec : d.inst = e.inst
    <3>1. CASE exec' = exec
      BY <3>1
    <3>2. CASE exec' = {IF Ticket(d) = [inst |-> i, run |-> r, no |-> held[i][r]]
                        THEN [d EXCEPT !.aborted = TRUE] ELSE d : d \in exec}
      <4>1. PICK d \in exec : e = IF Ticket(d) = [inst |-> i, run |-> r, no |-> held[i][r]]
                                  THEN [d EXCEPT !.aborted = TRUE] ELSE d
        BY <3>2
      <4>2. d \in Executions
        BY DEF TypeOK
      <4> QED BY <4>1, <4>2 DEF Executions
    <3> QED BY <1>12, <3>1, <3>2 DEF Cancel
  <2>2. \A c \in calls' : c.inst # i => c \in calls
    BY <1>12 DEF Cancel
  <2>3. ~Starting(i) /\ UNCHANGED <<phase, timers, pending, loop>>
    BY <1>12 DEF Cancel, Starting
  <2> QED BY <1>1, <2>1, <2>2, <2>3
<1>13. ASSUME NEW i \in Instances, NEW r \in Runs, Resume(i, r) PROVE Goal
  BY <1>1, <1>13 DEF Resume, Starting, jobVars
<1>14. ASSUME NEW c \in calls, CancelWrite(c) PROVE Goal
  BY <1>0, <1>1, <1>14 DEF CancelWrite, jobVars
<1>15. ASSUME NEW c \in calls, ResumeWrite(c) PROVE Goal
  BY <1>0, <1>3, <1>15 DEF ResumeWrite
<1>16. ASSUME NEW i \in Instances, Crash(i) PROVE Goal
  BY <1>16 DEF Crash, TypeOK, RecoversBeforeExecuting
<1>17. ASSUME NEW i \in Instances, Boot(i) \/ InterruptRunning(i) PROVE Goal
  <2>1. \A j \in Instances : phase'[j] \in {"down", "interrupt", "requeue"} => Starting(j)
    BY <1>17 DEF Boot, InterruptRunning, TypeOK, Starting
  <2>2. UNCHANGED <<exec, timers, calls, pending, loop>>
    BY <1>17 DEF Boot, InterruptRunning, jobVars
  <2> QED BY <2>1, <2>2 DEF RecoversBeforeExecuting, Starting
<1>18. ASSUME NEW i \in Instances, Requeue(i) PROVE Goal
  BY <1>2, <1>18 DEF Requeue, jobVars
<1>19. ASSUME NEW i \in Instances, DispatchRecovered(i) PROVE Goal
  BY <1>19 DEF DispatchRecovered, StartAll, TypeOK, RecoversBeforeExecuting
<1>20. ASSUME NEW i \in Instances, Recovered(i) PROVE Goal
  BY <1>20 DEF Recovered, TypeOK, jobVars, RecoversBeforeExecuting
<1>21. CASE Heartbeat \/ UNCHANGED vars
  <2>1. UNCHANGED <<phase, exec, calls, pending, loop, timers>>
    BY <1>21 DEF Heartbeat, Renew, Lapse, jobVars, vars
  <2> QED BY <1>2, <2>1
<1> QED
  BY <1>4, <1>5, <1>6, <1>8, <1>9, <1>10, <1>11, <1>12, <1>13, <1>14, <1>15,
     <1>16, <1>17, <1>18, <1>19, <1>20, <1>21
     DEF Next, Api, Job, Execute, Recover

(* recover() runs before anything else of its process can: while rows are  *)
(* being taken back the process has no job, no execution, no heartbeat and *)
(* no API call, so a row it takes back under its own id is not its own     *)
(* work.  (Another process with the same id may be working on it.)         *)
THEOREM RecoveryIsFirst == Spec => []RecoversBeforeExecuting
<1> DEFINE IInv == TypeOK /\ PickedIsOwn /\ RecoversBeforeExecuting
<1>1. Init => IInv
  BY InstanceAssumption, BoundAssumption
     DEF Init, TypeOK, Status, Phase, Executions, Tickets, PickedIsOwn,
         RecoversBeforeExecuting
<1>2. IInv /\ [Next]_vars => IInv'
  BY TypeStep, PickedStep, RecoveryStep
<1> QED BY <1>1, <1>2, PTL DEF Spec
=============================================================================
