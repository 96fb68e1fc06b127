------------------------- MODULE RunExclusion_proofs -------------------------
(***************************************************************************)
(* When a run has one execution, and what the run table then promises.     *)
(*                                                                         *)
(* Cancel, resume and recover() write back a record they read before an    *)
(* await, whatever the row says by then (storage/index.ts, update).  The   *)
(* theorems say what holds while no such write is overtaken, for any set   *)
(* of runs, workflows and processes and any number of crashes, cancels and *)
(* resumes; and which installations never overtake one.                    *)
(***************************************************************************)
EXTENDS RunScheduler_proofs

(* FOXFLOW_INSTANCE_ID, as it is meant to be given.                        *)
DistinctIds == \A i, j \in Instances : IdOf[i] = IdOf[j] => i = j
OneProcess == \A i, j \in Instances : i = j

-----------------------------------------------------------------------------
(* What the executions of a process rely on.                               *)
RowsAreOwned ==
  \A e \in exec : status[e.run] = "running" /\ owner[e.run] = IdOf[e.inst]
LeasesAreLive == Punctual => \A e \in exec : lease[e.run] = "live"
RecordsAreOwn == \A e \in exec : e.stage # "claimed" => e.as = IdOf[e.inst]

ExecInv ==
  /\ OneExecutionPerRun
  /\ HeartbeatsMatchExecutions
  /\ RowsAreOwned
  /\ LeasesAreLive
  /\ RecordsAreOwn

(* The types of what an execution carries.                                 *)
LEMMA ExecTypes ==
  ASSUME TypeOK, NEW e \in exec
  PROVE  /\ e \in Executions
         /\ e.inst \in Instances /\ e.run \in Runs /\ e.no \in Nat \ {0}
         /\ Ticket(e) \in Tickets
BY DEF TypeOK, Executions, Ticket, Tickets

(* A step that leaves alone the executions, their heartbeats and the rows  *)
(* of executing runs.                                                      *)
LEMMA ExecFrame ==
  ASSUME ExecInv, UNCHANGED <<exec, held, timers>>,
         \A e \in exec : /\ status'[e.run] = status[e.run]
                         /\ owner'[e.run] = owner[e.run]
                         /\ Punctual /\ lease[e.run] = "live" => lease'[e.run] = "live"
  PROVE  ExecInv'
<1>1. OneExecutionPerRun' /\ RecordsAreOwn'
  BY DEF ExecInv, OneExecutionPerRun, RecordsAreOwn
<1>2. HeartbeatsMatchExecutions'
  BY DEF ExecInv, HeartbeatsMatchExecutions, Ticket
<1>3. RowsAreOwned' /\ LeasesAreLive'
  BY DEF ExecInv, RowsAreOwned, LeasesAreLive
<1> QED BY <1>1, <1>2, <1>3 DEF ExecInv

(* Writing a row nobody executes.                                          *)
LEMMA WriteIdle ==
  ASSUME TypeOK, ExecInv, NEW r \in Runs, status[r] # "running", NEW s, NEW id,
         Write(r, s, id), UNCHANGED <<exec, held, timers, lease>>
  PROVE  ExecInv'
<1>1. ASSUME NEW e \in exec
      PROVE  status'[e.run] = status[e.run] /\ owner'[e.run] = owner[e.run]
  <2>1. e.run \in Runs /\ e.run # r
    BY ExecTypes DEF ExecInv, RowsAreOwned
  <2> QED BY <2>1 DEF Write, TypeOK
<1> QED BY <1>1, ExecFrame

-----------------------------------------------------------------------------
(* The claim of a queued row starts the only execution of its run.         *)
LEMMA TakeStep ==
  ASSUME TypeOK, ExecInv, NEW i \in Instances, NEW r \in Runs, Claimable(r), Take(i, r)
  PROVE  ExecInv'
<1> DEFINE n == [inst |-> i, run |-> r, no |-> claims[r] + 1,
                 stage |-> "claimed", as |-> NoOne, aborted |-> FALSE]
<1>1. /\ n.inst = i /\ n.run = r /\ n.no = claims[r] + 1 /\ n.stage = "claimed"
      /\ Ticket(n) = [inst |-> i, run |-> r, no |-> claims[r] + 1]
  BY DEF Ticket
<1>2. /\ exec' = exec \cup {n}
      /\ timers' = timers \cup {Ticket(n)}
      /\ held' = [held EXCEPT ![i][r] = n.no]
      /\ status' = [status EXCEPT ![r] = "running"]
      /\ owner' = [owner EXCEPT ![r] = IdOf[i]]
      /\ lease' = [lease EXCEPT ![r] = "live"]
  BY <1>1 DEF Take, Write
<1> HIDE DEF n
<1>3. \A e \in exec : e.inst \in Instances /\ e.run \in Runs /\ e.run # r
  BY ExecTypes DEF Claimable, ExecInv, RowsAreOwned
<1>4. OneExecutionPerRun'
  BY <1>1, <1>2, <1>3 DEF ExecInv, OneExecutionPerRun
<1>5. HeartbeatsMatchExecutions'
  <2>1. timers' = {Ticket(e) : e \in exec'}
    BY <1>2 DEF ExecInv, HeartbeatsMatchExecutions
  <2>2. \A e \in exec : held'[e.inst][e.run] = e.no
    BY <1>2, <1>3 DEF ExecInv, HeartbeatsMatchExecutions, TypeOK
  <2>3. held'[n.inst][n.run] = n.no
    BY <1>1, <1>2 DEF TypeOK
  <2> QED BY <1>2, <2>1, <2>2, <2>3 DEF HeartbeatsMatchExecutions, Ticket
<1>6. RowsAreOwned' /\ LeasesAreLive'
  BY <1>1, <1>2, <1>3 DEF ExecInv, RowsAreOwned, LeasesAreLive, TypeOK
<1>7. RecordsAreOwn'
  BY <1>1, <1>2 DEF ExecInv, RecordsAreOwn
<1> QED BY <1>4, <1>5, <1>6, <1>7 DEF ExecInv

(* An execution that goes on under the same ticket, to a later stage.      *)
LEMMA AdvanceStep ==
  ASSUME TypeOK, ExecInv, NEW e \in exec, NEW n, UNCHANGED <<held, timers, lease>>,
         exec' = (exec \ {e}) \cup {n},
         n.inst = e.inst, n.run = e.run, n.no = e.no,
         n.as = IdOf[e.inst],
         UNCHANGED <<status, owner>> \/ Write(e.run, "running", IdOf[e.inst])
  PROVE  ExecInv'
<1>1. Ticket(n) = Ticket(e)
  BY DEF Ticket
<1>2. \A d \in exec : d # e => d.run # e.run
  BY DEF ExecInv, OneExecutionPerRun
<1>3. OneExecutionPerRun'
  BY <1>2 DEF ExecInv, OneExecutionPerRun
<1>4. HeartbeatsMatchExecutions'
  <2>1. timers' = {Ticket(d) : d \in exec'}
    BY <1>1 DEF ExecInv, HeartbeatsMatchExecutions
  <2> QED BY <2>1 DEF ExecInv, HeartbeatsMatchExecutions, Ticket
<1>5. \A r \in Runs : /\ status[r] = "running" => status'[r] = "running"
                      /\ r # e.run => owner'[r] = owner[r]
                      /\ r = e.run /\ owner[r] = IdOf[e.inst] => owner'[r] = IdOf[e.inst]
  BY ExecTypes DEF Write, TypeOK
<1>6. RowsAreOwned' /\ LeasesAreLive' /\ RecordsAreOwn'
  BY <1>2, <1>5, ExecTypes DEF ExecInv, RowsAreOwned, LeasesAreLive, RecordsAreOwn
<1> QED BY <1>3, <1>4, <1>6 DEF ExecInv

(* The end of an execution, with its controller and its heartbeat.         *)
LEMMA FinishStep ==
  ASSUME TypeOK, ExecInv, NEW e \in exec, NEW s \in Status, Finish(e, s)
  PROVE  ExecInv'
<1>1. e.inst \in Instances /\ e.run \in Runs
  BY ExecTypes
<1>2. \A d \in exec : d # e => d.run # e.run
  BY DEF ExecInv, OneExecutionPerRun
<1>3. /\ exec' = exec \ {e}
      /\ held' = [held EXCEPT ![e.inst][e.run] = 0]
      /\ status' = [status EXCEPT ![e.run] = s]
      /\ owner' = [owner EXCEPT ![e.run] = e.as]
      /\ lease' = lease
  BY DEF Finish, Write
<1>4. timers' = timers \ {Ticket(e)}
  BY DEF Finish, ReleaseLease, ExecInv, HeartbeatsMatchExecutions, Ticket
<1>5. HeartbeatsMatchExecutions'
  <2>1. \A d \in exec : d # e => Ticket(d) # Ticket(e)
    BY <1>2 DEF Ticket
  <2>2. timers' = {Ticket(d) : d \in exec'}
    BY <1>3, <1>4, <2>1 DEF ExecInv, HeartbeatsMatchExecutions
  <2>3. \A d \in exec' : held'[d.inst][d.run] = d.no
    BY <1>1, <1>2, <1>3, ExecTypes DEF ExecInv, HeartbeatsMatchExecutions, TypeOK
  <2> QED BY <2>2, <2>3 DEF HeartbeatsMatchExecutions, Ticket
<1>6. RowsAreOwned' /\ LeasesAreLive'
  BY <1>1, <1>2, <1>3, ExecTypes DEF ExecInv, RowsAreOwned, LeasesAreLive, TypeOK
<1>7. OneExecutionPerRun' /\ RecordsAreOwn'
  BY <1>3 DEF ExecInv, OneExecutionPerRun, RecordsAreOwn
<1> QED BY <1>5, <1>6, <1>7 DEF ExecInv

(* An abort marks one execution and changes nothing else of it.            *)
Mark(i, r, e) ==
  IF Ticket(e) = [inst |-> i, run |-> r, no |-> held[i][r]]
  THEN [e EXCEPT !.aborted = TRUE] ELSE e
Marked(i, r) == {Mark(i, r, e) : e \in exec}

(* Aborting flips a flag: the executions stay the same by everything else. *)
LEMMA MarkedEffect ==
  ASSUME TypeOK, NEW i \in Instances, NEW r \in Runs, exec' = Marked(i, r)
  PROVE  /\ \A e \in exec' : \E d \in exec :
              /\ e = Mark(i, r, d)
              /\ Ticket(e) = Ticket(d) /\ e.inst = d.inst /\ e.run = d.run
              /\ e.no = d.no /\ e.stage = d.stage /\ e.as = d.as
         /\ \A d \in exec : \E e \in exec' : Ticket(e) = Ticket(d) /\ e.run = d.run
<1>1. ASSUME NEW d \in exec
      PROVE  /\ Mark(i, r, d).inst = d.inst /\ Mark(i, r, d).run = d.run
             /\ Mark(i, r, d).no = d.no
             /\ Mark(i, r, d).stage = d.stage /\ Mark(i, r, d).as = d.as
  BY ExecTypes DEF Executions, Mark
<1>2. \A d \in exec : Ticket(Mark(i, r, d)) = Ticket(d)
  BY <1>1 DEF Ticket
<1> QED BY <1>1, <1>2 DEF Marked

(* Cancelling marks an execution and leaves its row to the cancelled run.  *)
LEMMA CancelStep ==
  ASSUME TypeOK, ExecInv, NEW i \in Instances, NEW r \in Runs, Cancel(i, r)
  PROVE  ExecInv'
<1>1. UNCHANGED <<rowVars, held, timers>> /\ (UNCHANGED exec \/ exec' = Marked(i, r))
  BY DEF Cancel, Marked, Mark
<1>2. CASE UNCHANGED exec
  BY <1>1, <1>2, ExecFrame DEF rowVars
<1>3. CASE exec' = Marked(i, r)
  <2>1. OneExecutionPerRun'
    BY <1>3, MarkedEffect DEF ExecInv, OneExecutionPerRun
  <2>2. HeartbeatsMatchExecutions'
    <3>1. {Ticket(e) : e \in exec'} = {Ticket(d) : d \in exec}
      BY <1>3, MarkedEffect
    <3>2. timers' = {Ticket(e) : e \in exec'}
      BY <1>1, <3>1 DEF ExecInv, HeartbeatsMatchExecutions
    <3>3. \A e \in exec' : held'[e.inst][e.run] = e.no
      BY <1>1, <1>3, MarkedEffect DEF ExecInv, HeartbeatsMatchExecutions
    <3> QED BY <3>2, <3>3 DEF HeartbeatsMatchExecutions, Ticket
  <2>3. RowsAreOwned' /\ LeasesAreLive' /\ RecordsAreOwn'
    BY <1>1, <1>3, MarkedEffect
       DEF ExecInv, RowsAreOwned, LeasesAreLive, RecordsAreOwn, rowVars
  <2> QED BY <2>1, <2>2, <2>3 DEF ExecInv
<1> QED BY <1>1, <1>2, <1>3

(* A process dies with its executions, its controllers and its heartbeats. *)
LEMMA CrashStep ==
  ASSUME TypeOK, ExecInv, NEW i \in Instances, Crash(i)
  PROVE  ExecInv'
<1>1. /\ exec' = {e \in exec : e.inst # i}
      /\ timers' = {t \in timers : t.inst # i}
      /\ held' = [held EXCEPT ![i] = [r \in Runs |-> 0]]
      /\ UNCHANGED <<status, owner, lease>>
  BY DEF Crash, rowVars
<1>2. HeartbeatsMatchExecutions'
  <2>1. \A e \in exec : Ticket(e).inst = e.inst
    BY DEF Ticket
  <2>2. timers' = {Ticket(e) : e \in exec'}
    BY <1>1, <2>1 DEF ExecInv, HeartbeatsMatchExecutions
  <2>3. \A e \in exec' : held'[e.inst][e.run] = e.no
    BY <1>1, ExecTypes DEF ExecInv, HeartbeatsMatchExecutions, TypeOK
  <2> QED BY <2>2, <2>3 DEF HeartbeatsMatchExecutions, Ticket
<1>3. OneExecutionPerRun' /\ RowsAreOwned' /\ LeasesAreLive' /\ RecordsAreOwn'
  BY <1>1 DEF ExecInv, OneExecutionPerRun, RowsAreOwned, LeasesAreLive, RecordsAreOwn
<1> QED BY <1>2, <1>3 DEF ExecInv

(* recover() finds no executing row it may take: an owner that is punctual *)
(* keeps its lease, a process with another id does not own the row, and a  *)
(* process that recovers executes nothing itself.                          *)
LEMMA NothingToReclaim ==
  ASSUME TypeOK, ExecInv, RecoversBeforeExecuting, DistinctIds, Punctual \/ OneProcess,
         NEW i \in Instances, phase[i] = "interrupt", NEW e \in exec
  PROVE  ~Reclaimable(i, e.run)
<1>1. e.inst \in Instances /\ e.inst # i
  BY ExecTypes DEF RecoversBeforeExecuting, ExecOn
<1>2. Punctual /\ IdOf[e.inst] # IdOf[i]
  BY <1>1 DEF OneProcess, DistinctIds
<1> QED BY <1>2 DEF Reclaimable, ExecInv, RowsAreOwned, LeasesAreLive

(* A recovery interrupts rows, none of which is executed.                  *)
LEMMA InterruptStep ==
  ASSUME TypeOK, ExecInv, RecoversBeforeExecuting, DistinctIds, Punctual \/ OneProcess,
         NEW i \in Instances, InterruptRunning(i)
  PROVE  ExecInv'
<1>1. \A e \in exec : e.run \in Runs /\ ~Reclaimable(i, e.run)
  BY ExecTypes, NothingToReclaim DEF InterruptRunning
<1>2. \A e \in exec : status'[e.run] = status[e.run]
  BY <1>1 DEF InterruptRunning
<1>3. UNCHANGED <<exec, held, timers, owner, lease>>
  BY DEF InterruptRunning, jobVars
<1> QED BY <1>2, <1>3, ExecFrame

(* A lease that a punctual heartbeat keeps does not pass.                  *)
LEMMA LapseStep ==
  ASSUME TypeOK, ExecInv, NEW r \in Runs, Lapse(r)
  PROVE  ExecInv'
<1>1. ASSUME Punctual, NEW e \in exec PROVE e.run # r
  <2>1. Ticket(e) \in timers /\ Ticket(e).run = e.run /\ Ticket(e).inst = e.inst
    BY DEF ExecInv, HeartbeatsMatchExecutions, Ticket
  <2>2. e.run = r => Beats(Ticket(e), r)
    BY <2>1 DEF Beats, ExecInv, RowsAreOwned
  <2> QED BY <1>1, <2>1, <2>2 DEF Lapse
<1>2. /\ UNCHANGED <<exec, held, timers, status, owner>>
      /\ lease' = [lease EXCEPT ![r] = "lapsed"]
  BY DEF Lapse, jobVars
<1>3. \A e \in exec : Punctual => lease'[e.run] = lease[e.run]
  BY <1>1, <1>2, ExecTypes DEF TypeOK
<1> QED BY <1>2, <1>3, ExecFrame

(* A heartbeat that is due renews the lease of the run it beats for.       *)
LEMMA RenewStep ==
  ASSUME TypeOK, ExecInv, NEW t \in timers, Renew(t)
  PROVE  ExecInv'
<1>1. t.run \in Runs
  BY DEF TypeOK, Tickets
<1>2. /\ UNCHANGED <<exec, held, timers, status, owner>>
      /\ lease' = [lease EXCEPT ![t.run] = "live"]
  BY DEF Renew, jobVars
<1>3. \A e \in exec : lease[e.run] = "live" => lease'[e.run] = "live"
  BY <1>1, <1>2, ExecTypes DEF TypeOK
<1> QED BY <1>2, <1>3, ExecFrame

-----------------------------------------------------------------------------
(* Every step keeps one execution per run, if no write back of the state   *)
(* it starts in is overtaken.                                              *)
LEMMA ExecStep ==
  ASSUME TypeOK, PickedIsOwn, RecoversBeforeExecuting, ExecInv, NothingOvertaken,
         DistinctIds, Punctual \/ OneProcess, [Next]_vars
  PROVE  ExecInv'
<1>1. CASE UNCHANGED <<exec, held, timers, rowVars>>
  BY <1>1, ExecFrame DEF rowVars
<1>2. ASSUME NEW i \in Instances, NEW r \in Runs, Enqueue(i, r) PROVE ExecInv'
  BY <1>2, WriteIdle DEF Enqueue
<1>3. ASSUME NEW i \in Instances, NEW r \in Runs, Cancel(i, r) PROVE ExecInv'
  BY <1>3, CancelStep
<1>4. ASSUME NEW i \in Instances, NEW r \in Runs, Resume(i, r) PROVE ExecInv'
  BY <1>1, <1>4 DEF Resume, jobVars
<1>5. ASSUME NEW c \in calls, CancelWrite(c) \/ ResumeWrite(c) PROVE ExecInv'
  <2>1. c.run \in Runs /\ status[c.run] # "running"
    BY <1>5 DEF TypeOK, NothingOvertaken, Resumable, CancelWrite, ResumeWrite
  <2> QED BY <1>5, <2>1, WriteIdle DEF CancelWrite, ResumeWrite, jobVars
<1>6. ASSUME NEW i \in Instances, Poll(i) PROVE ExecInv'
  BY <1>1, <1>6 DEF Poll
<1>7. ASSUME NEW i \in Instances, NEW w \in Workflows, Scan(i, w) PROVE ExecInv'
  BY <1>1, <1>7 DEF Scan
<1>8. ASSUME NEW i \in Instances, NEW w \in Workflows, ClaimNext(i, w) PROVE ExecInv'
  <2>1. picked[i][w] \in Runs
    BY <1>8 DEF ClaimNext, PickedIsOwn
  <2> QED BY <1>1, <1>8, <2>1, TakeStep DEF ClaimNext
<1>9. ASSUME NEW i \in Instances, NEW r \in Runs, ClaimParallel(i, r) PROVE ExecInv'
  BY <1>1, <1>9, TakeStep DEF ClaimParallel
<1>10. ASSUME NEW i \in Instances, Boot(i) \/ DispatchRecovered(i) \/ Recovered(i)
       PROVE  ExecInv'
  BY <1>1, <1>10 DEF Boot, DispatchRecovered, Recovered, jobVars
<1>11. ASSUME NEW i \in Instances, InterruptRunning(i) PROVE ExecInv'
  BY <1>11, InterruptStep
<1>12. ASSUME NEW i \in Instances, Requeue(i) PROVE ExecInv'
  <2>1. PICK c \in reclaimed[i] : Write(c.run, "queued", c.as)
    BY <1>12 DEF Requeue
  <2>2. c.run \in Runs /\ status[c.run] # "running"
    BY DEF TypeOK, NothingOvertaken
  <2> QED BY <1>12, <2>1, <2>2, WriteIdle DEF Requeue, jobVars
<1>13. ASSUME NEW i \in Instances, Crash(i) PROVE ExecInv'
  BY <1>13, CrashStep
<1>14. ASSUME NEW e \in exec, Load(e) PROVE ExecInv'
  <2> DEFINE n == [e EXCEPT !.stage = "loaded", !.as = owner[e.run]]
  <2>1. n.inst = e.inst /\ n.run = e.run /\ n.no = e.no /\ n.as = IdOf[e.inst]
    BY ExecTypes DEF Executions, ExecInv, RowsAreOwned
  <2>2. exec' = (exec \ {e}) \cup {n} /\ UNCHANGED <<held, timers, status, owner, lease>>
    BY <1>14 DEF Load, rowVars
  <2> HIDE DEF n
  <2> QED BY <2>1, <2>2, AdvanceStep
<1>15. ASSUME NEW e \in exec, Begin(e) PROVE ExecInv'
  <2> DEFINE n == [e EXCEPT !.stage = "running"]
  <2>1. e.as = IdOf[e.inst]
    BY <1>15 DEF Begin, ExecInv, RecordsAreOwn
  <2>2. n.inst = e.inst /\ n.run = e.run /\ n.no = e.no /\ n.as = IdOf[e.inst]
    BY <2>1, ExecTypes DEF Executions
  <2>3. /\ exec' = (exec \ {e}) \cup {n} /\ UNCHANGED <<held, timers, lease>>
        /\ Write(e.run, "running", IdOf[e.inst])
    BY <1>15, <2>1 DEF Begin
  <2> HIDE DEF n
  <2> QED BY <2>2, <2>3, AdvanceStep
<1>16. ASSUME NEW e \in exec, NEW s \in Status, Finish(e, s) PROVE ExecInv'
  BY <1>16, FinishStep
<1>17. CASE Heartbeat
  BY <1>17, LapseStep, RenewStep DEF Heartbeat
<1>18. CASE UNCHANGED vars
  BY <1>1, <1>18 DEF vars, rowVars
<1> QED
  BY <1>2, <1>3, <1>4, <1>5, <1>6, <1>7, <1>8, <1>9, <1>10, <1>11, <1>12, <1>13,
     <1>14, <1>15, <1>16, <1>17, <1>18 DEF Next, Api, Job, Execute, Recover

(* What RunScheduler_proofs shows of every behaviour, taken together.      *)
CoreInv ==
  TypeOK /\ PickedIsOwn /\ PendingIsParallel /\ SerialInv /\ RecoversBeforeExecuting

(* It holds at first.                                                      *)
LEMMA CoreInit == Init => CoreInv
BY InstanceAssumption, BoundAssumption
   DEF Init, CoreInv, TypeOK, Status, Phase, Executions, Tickets, PickedIsOwn,
       PendingIsParallel, SerialInv, OneSerialRunPerInstance, SerialRunHoldsLoop,
       RecoversBeforeExecuting, ExecOn

(* Every step keeps it.                                                    *)
LEMMA CoreStep == CoreInv /\ [Next]_vars => CoreInv'
BY TypeStep, PickedStep, PendingStep, SerialStep, RecoveryStep DEF CoreInv

(* It holds in every state.                                                *)
LEMMA CoreAlways == Spec => []CoreInv
BY CoreInit, CoreStep, PTL DEF Spec

(* The executions are tied to their rows as long as no write is overtaken. *)
LEMMA ExecAlways ==
  ASSUME DistinctIds, Punctual \/ OneProcess
  PROVE  Spec /\ []NothingOvertaken => []ExecInv
<1>1. Init => ExecInv
  BY DEF Init, ExecInv, OneExecutionPerRun, HeartbeatsMatchExecutions, RowsAreOwned,
         LeasesAreLive, RecordsAreOwn
<1>2. CoreInv /\ ExecInv /\ NothingOvertaken /\ [Next]_vars => ExecInv'
  BY ExecStep DEF CoreInv
<1> QED BY <1>1, <1>2, CoreAlways, PTL DEF Spec

(* No run is executed twice at the same time, on one process or on two:    *)
(* with distinct instance ids and punctual heartbeats (or one process, and *)
(* then heartbeats may be late), while no write back is overtaken.         *)
THEOREM RunsExecuteOnce ==
  ASSUME DistinctIds, Punctual \/ OneProcess
  PROVE  Spec /\ []NothingOvertaken => []OneExecutionPerRun
<1>1. ExecInv => OneExecutionPerRun
  BY DEF ExecInv
<1> QED BY <1>1, ExecAlways, PTL

(* Every execution has its heartbeat and its controller, and no heartbeat  *)
(* outlives the execution it vouches for (runControlled's finally).        *)
THEOREM HeartbeatsAreOfExecutions ==
  ASSUME DistinctIds, Punctual \/ OneProcess
  PROVE  Spec /\ []NothingOvertaken => []HeartbeatsMatchExecutions
<1>1. ExecInv => HeartbeatsMatchExecutions
  BY DEF ExecInv
<1> QED BY <1>1, ExecAlways, PTL

(* What a peer's interruptRunning relies on: an executing run is a running *)
(* row under its process's id with a live lease.                           *)
THEOREM ExecutingRowsAreProtected ==
  ASSUME DistinctIds, Punctual
  PROVE  Spec /\ []NothingOvertaken => []ExecutingRowIsProtected
<1>1. ExecInv => ExecutingRowIsProtected
  BY DEF ExecInv, RowsAreOwned, LeasesAreLive, ExecutingRowIsProtected
<1> QED BY <1>1, ExecAlways, PTL

-----------------------------------------------------------------------------
(* A run starts being executed only by a claim that its row allows.        *)
LEMMA WorkStarts ==
  ASSUME TypeOK, PickedIsOwn, [Next]_vars
  PROVE  \/ \E i \in Instances, r \in Runs : Claimable(r) /\ Take(i, r)
         \/ \A e \in exec' : \E d \in exec : e.run = d.run
<1> DEFINE Goal == \/ \E i \in Instances, r \in Runs : Claimable(r) /\ Take(i, r)
                   \/ \A e \in exec' : \E d \in exec : e.run = d.run
<1>1. CASE UNCHANGED exec
  BY <1>1
<1>2. ASSUME NEW i \in Instances, NEW r \in Runs,
             Enqueue(i, r) \/ Cancel(i, r) \/ Resume(i, r)
      PROVE  Goal
  <2>1. UNCHANGED exec \/ exec' = Marked(i, r)
    BY <1>2 DEF Enqueue, Cancel, Resume, jobVars, Marked, Mark
  <2> QED BY <1>1, <2>1, MarkedEffect
<1>3. ASSUME NEW c \in calls, CancelWrite(c) \/ ResumeWrite(c) PROVE Goal
  BY <1>1, <1>3 DEF CancelWrite, ResumeWrite, jobVars
<1>4. ASSUME NEW i \in Instances, NEW w \in Workflows, Scan(i, w) \/ ClaimNext(i, w)
      PROVE  Goal
  <2>1. ClaimNext(i, w) => picked[i][w] \in Runs
    BY DEF ClaimNext, PickedIsOwn
  <2> QED BY <1>1, <1>4, <2>1 DEF Scan, ClaimNext
<1>5. ASSUME NEW i \in Instances, NEW r \in Runs, ClaimParallel(i, r) PROVE Goal
  BY <1>1, <1>5 DEF ClaimParallel
<1>6. ASSUME NEW i \in Instances, Poll(i) \/ Recover(i) PROVE Goal
  BY <1>1, <1>6 DEF Poll, Recover, Boot, InterruptRunning, Requeue, DispatchRecovered,
                    Recovered, jobVars
<1>7. ASSUME NEW i \in Instances, Crash(i) PROVE Goal
  BY <1>7 DEF Crash
<1>8. ASSUME NEW e \in exec, Load(e) \/ Begin(e) PROVE Goal
  <2>1. /\ [e EXCEPT !.stage = "loaded", !.as = owner[e.run]].run = e.run
        /\ [e EXCEPT !.stage = "running"].run = e.run
    BY ExecTypes DEF Executions
  <2> QED BY <1>8, <2>1 DEF Load, Begin
<1>9. ASSUME NEW e \in exec, NEW s \in Status, Finish(e, s) PROVE Goal
  BY <1>9 DEF Finish
<1>10. CASE Heartbeat \/ UNCHANGED vars
  BY <1>1, <1>10 DEF Heartbeat, Renew, Lapse, jobVars, vars
<1> QED
  BY <1>2, <1>3, <1>4, <1>5, <1>6, <1>7, <1>8, <1>9, <1>10
     DEF Next, Api, Job, Execute

(* A claim refuses a serial run beside an executing one of its workflow,   *)
(* whose lease is live as long as heartbeats are punctual.                 *)
LEMMA SerialAcrossStep ==
  ASSUME TypeOK, PickedIsOwn, ExecInv, ExecInv', SerialAcrossInstances, Punctual,
         [Next]_vars
  PROVE  SerialAcrossInstances'
<1>1. CASE \A e \in exec' : \E d \in exec : e.run = d.run
  <2> SUFFICES ASSUME NEW a \in exec', NEW b \in exec',
                      WorkflowOf[a.run] = WorkflowOf[b.run], Serial(a.run)
               PROVE  a.run = b.run
    BY DEF SerialAcrossInstances, ExecInv, OneExecutionPerRun, Serial
  <2>1. PICK d \in exec : d.run = a.run
    BY <1>1
  <2>2. PICK e \in exec : e.run = b.run
    BY <1>1
  <2> QED BY <2>1, <2>2 DEF SerialAcrossInstances
<1>2. ASSUME NEW i \in Instances, NEW r \in Runs, Claimable(r), Take(i, r)
      PROVE  SerialAcrossInstances'
  <2>1. PICK n : n.run = r /\ exec' = exec \cup {n}
    <3> DEFINE n == [inst |-> i, run |-> r, no |-> claims[r] + 1,
                     stage |-> "claimed", as |-> NoOne, aborted |-> FALSE]
    <3>1. n.run = r /\ exec' = exec \cup {n}
      BY <1>2 DEF Take
    <3> QED BY <3>1
  <2>2. ASSUME NEW e \in exec, WorkflowOf[e.run] = WorkflowOf[r], Serial(r) PROVE FALSE
    <3>1. status[e.run] = "running" /\ lease[e.run] = "live" /\ e.run \in Runs
      BY ExecTypes DEF ExecInv, RowsAreOwned, LeasesAreLive
    <3>2. e.run # r
      BY <1>2, <3>1 DEF Claimable
    <3> QED BY <1>2, <2>2, <3>1, <3>2 DEF Claimable
  <2> QED BY <2>1, <2>2 DEF SerialAcrossInstances, Serial
<1> QED BY <1>1, <1>2, WorkStarts

(* Two runs of a workflow that is not "parallel" never execute together,   *)
(* on any processes: the claim's lease test and the punctual heartbeat     *)
(* make the promise that the serial job makes only within its process.     *)
THEOREM SerialEverywhere ==
  ASSUME DistinctIds, Punctual
  PROVE  Spec /\ []NothingOvertaken => []SerialAcrossInstances
<1>1. Init => SerialAcrossInstances
  BY DEF Init, SerialAcrossInstances
<1>2. CoreInv /\ ExecInv /\ ExecInv' /\ SerialAcrossInstances /\ [Next]_vars
        => SerialAcrossInstances'
  BY SerialAcrossStep DEF CoreInv
<1> QED BY <1>1, <1>2, CoreAlways, ExecAlways, PTL DEF Spec

-----------------------------------------------------------------------------
(* The moves a write makes of a row when it is not overtaken; one more is  *)
(* interruptRunning's.                                                     *)
Moves ==
  {<<"absent", "queued">>, <<"queued", "running">>, <<"queued", "cancelled">>,
   <<"running", "succeeded">>, <<"running", "failed">>, <<"running", "cancelled">>,
   <<"running", "paused">>, <<"paused", "queued">>, <<"interrupted", "queued">>}

(* One conditional or unconditional write of a row makes one move.         *)
LEMMA WriteMoves ==
  ASSUME TypeOK, NEW q \in Runs, NEW s, NEW id, Write(q, s, id),
         <<status[q], s>> \in Moves \/ status[q] = s,
         NEW r \in Runs
  PROVE  status'[r] = status[r] \/ <<status[r], status'[r]>> \in Moves
BY DEF Write, TypeOK

Interrupted(r) ==
  /\ \E i \in Instances : InterruptRunning(i) /\ Reclaimable(i, r)
  /\ status'[r] = "interrupted"

(* A row makes a lawful move, or a recovery finds nobody executing it.     *)
LEMMA RowMoves ==
  ASSUME TypeOK, PickedIsOwn, ExecInv, NothingOvertaken, [Next]_vars, NEW r \in Runs
  PROVE  \/ status'[r] = status[r]
         \/ <<status[r], status'[r]>> \in Moves
         \/ Interrupted(r)
<1> DEFINE Goal == \/ status'[r] = status[r]
                   \/ <<status[r], status'[r]>> \in Moves
                   \/ Interrupted(r)
<1>1. CASE UNCHANGED status
  BY <1>1
<1>2. ASSUME NEW i \in Instances, NEW q \in Runs, Enqueue(i, q) PROVE Goal
  BY <1>2, WriteMoves DEF Enqueue, Moves
<1>3. ASSUME NEW i \in Instances, NEW q \in Runs, Cancel(i, q) \/ Resume(i, q) PROVE Goal
  BY <1>1, <1>3 DEF Cancel, Resume, rowVars
<1>4. ASSUME NEW c \in calls, CancelWrite(c) PROVE Goal
  <2>1. c.run \in Runs /\ status[c.run] = "queued"
    BY <1>4 DEF TypeOK, NothingOvertaken, CancelWrite
  <2> QED BY <1>4, <2>1, WriteMoves DEF CancelWrite, Moves
<1>5. ASSUME NEW c \in calls, ResumeWrite(c) PROVE Goal
  <2>1. c.run \in Runs /\ status[c.run] \in {"paused", "interrupted"}
    BY <1>5 DEF TypeOK, NothingOvertaken, ResumeWrite, Resumable
  <2> QED BY <1>5, <2>1, WriteMoves DEF ResumeWrite, Moves
<1>6. ASSUME NEW i \in Instances, NEW q \in Runs, Claimable(q), Take(i, q) PROVE Goal
  BY <1>6, WriteMoves DEF Take, Claimable, Moves
<1>7. ASSUME NEW i \in Instances, NEW w \in Workflows, Scan(i, w) \/ ClaimNext(i, w)
      PROVE  Goal
  <2>1. ClaimNext(i, w) => picked[i][w] \in Runs
    BY DEF ClaimNext, PickedIsOwn
  <2> QED BY <1>1, <1>6, <1>7, <2>1 DEF Scan, ClaimNext, rowVars
<1>8. ASSUME NEW i \in Instances, NEW q \in Runs, ClaimParallel(i, q) PROVE Goal
  BY <1>1, <1>6, <1>8 DEF ClaimParallel, rowVars
<1>9. ASSUME NEW i \in Instances,
             Poll(i) \/ Boot(i) \/ DispatchRecovered(i) \/ Recovered(i) \/ Crash(i)
      PROVE  Goal
  BY <1>1, <1>9 DEF Poll, Boot, DispatchRecovered, Recovered, Crash, rowVars
<1>10. ASSUME NEW i \in Instances, InterruptRunning(i) PROVE Goal
  BY <1>10 DEF InterruptRunning, Interrupted
<1>11. ASSUME NEW i \in Instances, Requeue(i) PROVE Goal
  <2>1. PICK c \in reclaimed[i] : Write(c.run, "queued", c.as)
    BY <1>11 DEF Requeue
  <2>2. c.run \in Runs /\ status[c.run] = "interrupted"
    BY DEF TypeOK, NothingOvertaken
  <2> QED BY <2>1, <2>2, WriteMoves DEF Moves
<1>12. ASSUME NEW e \in exec, Load(e) PROVE Goal
  BY <1>1, <1>12 DEF Load, rowVars
<1>13. ASSUME NEW e \in exec, Begin(e) PROVE Goal
  <2>1. e.run \in Runs /\ status[e.run] = "running"
    BY ExecTypes DEF ExecInv, RowsAreOwned
  <2> QED BY <1>13, <2>1, WriteMoves DEF Begin
<1>14. ASSUME NEW e \in exec, NEW s \in Status, Finish(e, s) PROVE Goal
  <2>1. e.run \in Runs /\ status[e.run] = "running"
    BY ExecTypes DEF ExecInv, RowsAreOwned
  <2>2. s \in {"succeeded", "failed", "paused", "cancelled"}
    BY <1>14 DEF Finish, Outcomes
  <2> QED BY <1>14, <2>1, <2>2, WriteMoves DEF Finish, Moves
<1>15. CASE Heartbeat \/ UNCHANGED vars
  BY <1>1, <1>15 DEF Heartbeat, Renew, Lapse, vars
<1> QED
  BY <1>2, <1>3, <1>4, <1>5, <1>7, <1>8, <1>9, <1>10, <1>11, <1>12, <1>13, <1>14,
     <1>15 DEF Next, Api, Job, Execute, Recover

(* While no write of a record read earlier is overtaken, nothing brings a  *)
(* succeeded, failed or cancelled run back: the step the theorems on one   *)
(* process, and on one at a time, rest on.  An overtaken write is what     *)
(* breaks it, as run cancel_race shows.                                    *)
LEMMA TerminalStaysFinal ==
  ASSUME DistinctIds, Punctual \/ OneProcess
  PROVE  Spec /\ []NothingOvertaken => TerminalIsFinal
<1> DEFINE A == \A r \in Runs : status[r] \in Terminal => status'[r] = status[r]
<1>1. CoreInv /\ ExecInv /\ NothingOvertaken /\ [Next]_vars => [A]_vars
  <2> SUFFICES ASSUME CoreInv, ExecInv, NothingOvertaken, [Next]_vars,
                      NEW r \in Runs, status[r] \in Terminal
               PROVE  status'[r] = status[r]
    OBVIOUS
  <2> QED BY RowMoves DEF CoreInv, Moves, Terminal, Interrupted, Reclaimable
<1> QED BY <1>1, CoreAlways, ExecAlways, PTL DEF Spec, TerminalIsFinal

(* recover() takes back only rows no process is executing.                 *)
THEOREM RecoveryTakesIdleRuns ==
  ASSUME DistinctIds, Punctual \/ OneProcess
  PROVE  Spec /\ []NothingOvertaken => RecoveryTakesOnlyIdleRuns
<1> DEFINE A == \A r \in Runs : status[r] = "running" /\ status'[r] = "interrupted"
                                  => ~ \E e \in exec : e.run = r
<1>1. CoreInv /\ ExecInv /\ NothingOvertaken /\ [Next]_vars => [A]_vars
  <2> SUFFICES ASSUME CoreInv, ExecInv, NothingOvertaken, [Next]_vars, NEW r \in Runs,
                      status[r] = "running", status'[r] = "interrupted",
                      NEW e \in exec, e.run = r
               PROVE  FALSE
    OBVIOUS
  <2>1. PICK i \in Instances : InterruptRunning(i) /\ Reclaimable(i, r)
    BY RowMoves DEF CoreInv, Moves, Interrupted
  <2> QED BY <2>1, NothingToReclaim DEF CoreInv, InterruptRunning
<1> QED BY <1>1, CoreAlways, ExecAlways, PTL DEF Spec, RecoveryTakesOnlyIdleRuns

-----------------------------------------------------------------------------
(* The run table implements RunLifecycle: what the steps do to its two     *)
(* variables.                                                              *)
Stages == [r \in Runs |-> StageOf(status[r])]
Working == [r \in Runs |-> \E e \in exec : e.run = r]
Promise == [Lifecycle!Next]_(Lifecycle!vars)

(* A step that changes neither stages nor work keeps the promise.          *)
LEMMA PromiseFrame ==
  ASSUME UNCHANGED Stages, UNCHANGED Working
  PROVE  Promise
BY DEF Promise, Lifecycle!vars, Stages, Working

(* A write moves the stage of its row alone.                               *)
LEMMA WriteStage ==
  ASSUME TypeOK, NEW r \in Runs, NEW s, NEW id, Write(r, s, id)
  PROVE  Stages' = [Stages EXCEPT ![r] = StageOf(s)]
BY DEF Write, TypeOK, Stages, StageOf

(* A write of a row nobody executes, between stages the promise allows.    *)
LEMMA WriteKeepsPromise ==
  ASSUME TypeOK, NEW r \in Runs, NEW s, NEW id, Write(r, s, id), UNCHANGED exec,
         \A e \in exec : e.run # r,
         <<StageOf(status[r]), StageOf(s)>> \in
           {<<"absent", "waiting">>, <<"taken", "waiting">>,
            <<"parked", "waiting">>, <<"waiting", "done">>}
  PROVE  Promise
<1>1. Stages' = [Stages EXCEPT ![r] = StageOf(s)] /\ Stages[r] = StageOf(status[r])
  BY WriteStage DEF Stages
<1>2. UNCHANGED Working /\ ~Working[r]
  BY DEF Working
<1>3. \/ Lifecycle!Admit(r) \/ Lifecycle!Return(r)
      \/ Lifecycle!Resume(r) \/ Lifecycle!Withdraw(r)
  BY <1>1, <1>2 DEF Lifecycle!Admit, Lifecycle!Return, Lifecycle!Resume,
     Lifecycle!Withdraw, Lifecycle!Move, Stages, Working
<1> QED BY <1>3 DEF Promise, Lifecycle!Next

(* A claim starts a run that nobody works on.                              *)
LEMMA TakeKeepsPromise ==
  ASSUME TypeOK, ExecInv, NEW i \in Instances, NEW r \in Runs, Claimable(r), Take(i, r)
  PROVE  Promise
<1>1. status[r] = "queued" /\ \A e \in exec : e.run # r
  BY DEF Claimable, ExecInv, RowsAreOwned
<1>2. Stages' = [Stages EXCEPT ![r] = "taken"] /\ Stages[r] = "waiting"
  BY <1>1, WriteStage DEF Take, Stages, StageOf
<1>3. PICK n : n.run = r /\ exec' = exec \cup {n}
  <2> DEFINE n == [inst |-> i, run |-> r, no |-> claims[r] + 1,
                   stage |-> "claimed", as |-> NoOne, aborted |-> FALSE]
  <2>1. n.run = r /\ exec' = exec \cup {n}
    BY DEF Take
  <2> QED BY <2>1
<1>4. ~Working[r]
  BY <1>1 DEF Working
<1>5. Working' = [Working EXCEPT ![r] = TRUE]
  <2>1. \A q \in Runs : (\E e \in exec' : e.run = q) <=> (q = r \/ \E e \in exec : e.run = q)
    BY <1>3
  <2> QED BY <2>1 DEF Working
<1>6. Lifecycle!Start(r)
  BY <1>2, <1>4, <1>5 DEF Lifecycle!Start, Lifecycle!Move, Stages, Working
<1> QED BY <1>6 DEF Promise, Lifecycle!Next

(* The end of an execution settles its run.                                *)
LEMMA FinishKeepsPromise ==
  ASSUME TypeOK, ExecInv, NEW e \in exec, NEW s \in Status, Finish(e, s)
  PROVE  Promise
<1>1. e.run \in Runs /\ status[e.run] = "running" /\ exec' = exec \ {e}
  BY ExecTypes DEF ExecInv, RowsAreOwned, Finish
<1>2. s \in {"succeeded", "failed", "paused", "cancelled"}
  BY DEF Finish, Outcomes
<1>3. Stages' = [Stages EXCEPT ![e.run] = StageOf(s)] /\ Stages[e.run] = "taken"
  BY <1>1, WriteStage DEF Finish, Stages, StageOf
<1>4. StageOf(s) \in {"parked", "done"}
  BY <1>2 DEF StageOf
<1>5. Working[e.run]
  BY <1>1 DEF Working
<1>6. Working' = [Working EXCEPT ![e.run] = FALSE]
  <2>1. \A q \in Runs : (\E d \in exec' : d.run = q) <=> (q # e.run /\ \E d \in exec : d.run = q)
    BY <1>1 DEF ExecInv, OneExecutionPerRun
  <2> QED BY <2>1 DEF Working
<1>7. Lifecycle!Settle(e.run)
  BY <1>3, <1>4, <1>5, <1>6 DEF Lifecycle!Settle, Lifecycle!Move, Stages, Working
<1> QED BY <1>1, <1>7 DEF Promise, Lifecycle!Next

(* A crash loses the work of all runs the process executed.                *)
LEMMA CrashKeepsPromise ==
  ASSUME TypeOK, ExecInv, NEW i \in Instances, Crash(i)
  PROVE  Promise
<1>1. PICK S \in SUBSET Runs : S = {r \in Runs : \E e \in exec : e.inst = i /\ e.run = r}
  OBVIOUS
<1>2. exec' = {e \in exec : e.inst # i} /\ UNCHANGED status
  BY DEF Crash, rowVars
<1>3. \A r \in S : Working[r]
  BY <1>1 DEF Working
<1>4. Working' = [r \in Runs |-> Working[r] /\ r \notin S]
  <2>1. \A r \in Runs : (\E e \in exec' : e.run = r) <=> ((\E e \in exec : e.run = r) /\ r \notin S)
    BY <1>1, <1>2 DEF ExecInv, OneExecutionPerRun
  <2> QED BY <2>1 DEF Working
<1>5. Lifecycle!Lose(S)
  BY <1>2, <1>3, <1>4 DEF Lifecycle!Lose, Stages, Working
<1> QED BY <1>5 DEF Promise, Lifecycle!Next

(* Every step keeps the promise or does not concern it.                    *)
LEMMA PromiseStep ==
  ASSUME CoreInv, ExecInv, NothingOvertaken, DistinctIds, Punctual \/ OneProcess,
         [Next]_vars
  PROVE  Promise
<1> USE DEF CoreInv
<1>0. \A r \in Runs : status[r] # "running" => \A e \in exec : e.run # r
  BY DEF ExecInv, RowsAreOwned
<1>1. CASE UNCHANGED <<status, exec>>
  BY <1>1, PromiseFrame DEF Stages, Working
<1>2. ASSUME NEW i \in Instances, NEW r \in Runs, Enqueue(i, r) PROVE Promise
  <2>1. status[r] = "absent" /\ Write(r, "queued", IdOf[i]) /\ UNCHANGED exec
    BY <1>2 DEF Enqueue
  <2> QED BY <1>0, <2>1, WriteKeepsPromise DEF StageOf
<1>3. ASSUME NEW i \in Instances, NEW r \in Runs, Cancel(i, r) PROVE Promise
  <2>1. UNCHANGED status /\ (UNCHANGED exec \/ exec' = Marked(i, r))
    BY <1>3 DEF Cancel, Marked, Mark, rowVars
  <2>2. \A q \in Runs : (\E e \in exec' : e.run = q) <=> (\E e \in exec : e.run = q)
    BY <2>1, MarkedEffect
  <2> QED BY <2>1, <2>2, PromiseFrame DEF Stages, Working
<1>4. ASSUME NEW i \in Instances, NEW r \in Runs, Resume(i, r) PROVE Promise
  BY <1>1, <1>4 DEF Resume, rowVars, jobVars
<1>5. ASSUME NEW c \in calls, CancelWrite(c) PROVE Promise
  <2>1. c.run \in Runs /\ status[c.run] = "queued"
    BY <1>5 DEF TypeOK, NothingOvertaken, CancelWrite
  <2>2. Write(c.run, "cancelled", c.as) /\ UNCHANGED exec
    BY <1>5 DEF CancelWrite, jobVars
  <2> QED BY <1>0, <2>1, <2>2, WriteKeepsPromise DEF StageOf
<1>6. ASSUME NEW c \in calls, ResumeWrite(c) PROVE Promise
  <2>1. c.run \in Runs /\ status[c.run] \in {"paused", "interrupted"}
    BY <1>6 DEF TypeOK, NothingOvertaken, ResumeWrite, Resumable
  <2>2. Write(c.run, "queued", c.as) /\ UNCHANGED exec
    BY <1>6 DEF ResumeWrite
  <2> QED BY <1>0, <2>1, <2>2, WriteKeepsPromise DEF StageOf
<1>7. ASSUME NEW i \in Instances, NEW w \in Workflows, Scan(i, w) \/ ClaimNext(i, w)
      PROVE  Promise
  <2>1. ClaimNext(i, w) => picked[i][w] \in Runs
    BY DEF ClaimNext, PickedIsOwn
  <2> QED BY <1>1, <1>7, <2>1, TakeKeepsPromise DEF Scan, ClaimNext, rowVars
<1>8. ASSUME NEW i \in Instances, NEW r \in Runs, ClaimParallel(i, r) PROVE Promise
  BY <1>1, <1>8, TakeKeepsPromise DEF ClaimParallel, rowVars
<1>9. ASSUME NEW i \in Instances,
             Poll(i) \/ Boot(i) \/ DispatchRecovered(i) \/ Recovered(i)
      PROVE  Promise
  BY <1>1, <1>9 DEF Poll, Boot, DispatchRecovered, Recovered, rowVars, jobVars
<1>10. ASSUME NEW i \in Instances, InterruptRunning(i) PROVE Promise
  <2>1. \A r \in Runs : StageOf(status'[r]) = StageOf(status[r])
    BY <1>10 DEF InterruptRunning, Reclaimable, StageOf
  <2>2. UNCHANGED exec
    BY <1>10 DEF InterruptRunning, jobVars
  <2> QED BY <2>1, <2>2, PromiseFrame DEF Stages, Working
<1>11. ASSUME NEW i \in Instances, Requeue(i) PROVE Promise
  <2>1. PICK c \in reclaimed[i] : Write(c.run, "queued", c.as)
    BY <1>11 DEF Requeue
  <2>2. c.run \in Runs /\ status[c.run] = "interrupted" /\ UNCHANGED exec
    BY <1>11 DEF TypeOK, NothingOvertaken, Requeue, jobVars
  <2> QED BY <1>0, <2>1, <2>2, WriteKeepsPromise DEF StageOf
<1>12. ASSUME NEW i \in Instances, Crash(i) PROVE Promise
  BY <1>12, CrashKeepsPromise
<1>13. ASSUME NEW e \in exec, Load(e) \/ Begin(e) PROVE Promise
  <2>1. e.run \in Runs /\ status[e.run] = "running"
    BY ExecTypes DEF ExecInv, RowsAreOwned
  <2>2. UNCHANGED status
    BY <1>13, <2>1 DEF Load, Begin, Write, rowVars, TypeOK
  <2>3. \E n : n.run = e.run /\ exec' = (exec \ {e}) \cup {n}
    <3>1. /\ [e EXCEPT !.stage = "loaded", !.as = owner[e.run]].run = e.run
          /\ [e EXCEPT !.stage = "running"].run = e.run
      BY ExecTypes DEF Executions
    <3> QED BY <1>13, <3>1 DEF Load, Begin
  <2>4. \A q \in Runs : (\E d \in exec' : d.run = q) <=> (\E d \in exec : d.run = q)
    BY <2>3
  <2> QED BY <2>2, <2>4, PromiseFrame DEF Stages, Working
<1>14. ASSUME NEW e \in exec, NEW s \in Status, Finish(e, s) PROVE Promise
  BY <1>14, FinishKeepsPromise
<1>15. CASE Heartbeat \/ UNCHANGED vars
  BY <1>1, <1>15 DEF Heartbeat, Renew, Lapse, jobVars, vars
<1> QED
  BY <1>2, <1>3, <1>4, <1>5, <1>6, <1>7, <1>8, <1>9, <1>10, <1>11, <1>12, <1>13,
     <1>14, <1>15 DEF Next, Api, Job, Execute, Recover

(* The run table with its processes implements RunLifecycle: a run is      *)
(* worked on by one execution at a time, is handed out again only when     *)
(* nobody works on it, and once done stays done.                           *)
THEOREM LifecycleIsImplemented ==
  ASSUME DistinctIds, Punctual \/ OneProcess
  PROVE  Spec /\ []NothingOvertaken => ImplementsLifecycle
<1>1. Init => Lifecycle!Init
  BY DEF Init, Lifecycle!Init, StageOf
<1>2. CoreInv /\ ExecInv /\ NothingOvertaken /\ [Next]_vars
        => [Lifecycle!Next]_(Lifecycle!vars)
  BY PromiseStep DEF Promise
<1> QED BY <1>1, <1>2, CoreAlways, ExecAlways, PTL
        DEF Spec, ImplementsLifecycle, Lifecycle!Spec

-----------------------------------------------------------------------------
(* Which installations never overtake a write back.  What holds in all of  *)
(* them: a process has one API call at a time between its read and its     *)
(* write, and it has read rows to take back only while it recovers, each   *)
(* row once.                                                               *)
WritersInv ==
  /\ \A c, d \in calls : c.inst = d.inst => c = d
  /\ \A i \in Instances : \A c, d \in reclaimed[i] : c.run = d.run => c = d
  /\ \A i \in Instances : reclaimed[i] # {} => phase[i] = "requeue"

(* Every step keeps it.                                                    *)
LEMMA WritersStep ==
  ASSUME CoreInv, WritersInv, [Next]_vars
  PROVE  WritersInv'
<1> USE DEF CoreInv
<1>0. \A c \in calls : c.inst \in Instances
  BY DEF TypeOK
<1>1. ASSUME calls' \subseteq calls, UNCHANGED <<reclaimed, phase>> PROVE WritersInv'
  BY <1>1 DEF WritersInv
<1>2. ASSUME NEW i \in Instances, NEW r \in Runs, Enqueue(i, r) PROVE WritersInv'
  BY <1>1, <1>2 DEF Enqueue
<1>3. ASSUME NEW i \in Instances, NEW r \in Runs, Cancel(i, r) \/ Resume(i, r)
      PROVE  WritersInv'
  <2>1. \A c \in calls : c.inst # i
    BY <1>3 DEF Cancel, Resume, Quiet, Calling
  <2>2. \A c, d \in calls' : c \in calls \/ (c.inst = i /\ (d \in calls \/ c = d))
    BY <1>3 DEF Cancel, Resume
  <2>3. UNCHANGED <<reclaimed, phase>>
    BY <1>3 DEF Cancel, Resume
  <2> QED BY <2>1, <2>2, <2>3 DEF WritersInv
<1>4. ASSUME NEW c \in calls, CancelWrite(c) \/ ResumeWrite(c) PROVE WritersInv'
  BY <1>1, <1>4 DEF CancelWrite, ResumeWrite
<1>5. ASSUME NEW i \in Instances, Poll(i) \/ Job(i) PROVE WritersInv'
  BY <1>1, <1>5 DEF Poll, Job, Scan, ClaimNext, ClaimParallel
<1>6. ASSUME NEW i \in Instances, Crash(i) PROVE WritersInv'
  BY <1>6 DEF Crash, TypeOK, WritersInv
<1>7. ASSUME NEW i \in Instances,
             phase[i] # "requeue" \/ reclaimed[i] = {},
             UNCHANGED <<calls, reclaimed>>,
             \A j \in Instances : j # i => phase'[j] = phase[j]
      PROVE  WritersInv'
  BY <1>7 DEF WritersInv
<1>8. ASSUME NEW i \in Instances, Boot(i) \/ DispatchRecovered(i) \/ Recovered(i)
      PROVE  WritersInv'
  BY <1>7, <1>8 DEF Boot, DispatchRecovered, Recovered, TypeOK
<1>9. ASSUME NEW i \in Instances, InterruptRunning(i) PROVE WritersInv'
  <2>1. /\ UNCHANGED calls
        /\ reclaimed' = [reclaimed EXCEPT ![i] =
             {[run |-> r, as |-> owner[r]] : r \in {q \in Runs : status'[q] = "interrupted"}}]
        /\ phase' = [phase EXCEPT ![i] = "requeue"]
    BY <1>9 DEF InterruptRunning
  <2>2. \A c, d \in reclaimed'[i] : c.run = d.run => c = d
    BY <2>1 DEF TypeOK
  <2> QED BY <2>1, <2>2 DEF TypeOK, WritersInv
<1>10. ASSUME NEW i \in Instances, Requeue(i) PROVE WritersInv'
  <2>1. /\ UNCHANGED <<calls, phase>> /\ phase[i] = "requeue"
        /\ \E c \in reclaimed[i] : reclaimed' = [reclaimed EXCEPT ![i] = @ \ {c}]
    BY <1>10 DEF Requeue
  <2> QED BY <2>1 DEF TypeOK, WritersInv
<1>11. CASE Execute
  BY <1>1, <1>11 DEF Execute, Load, Begin, Finish
<1>12. CASE Heartbeat \/ UNCHANGED vars
  BY <1>1, <1>12 DEF Heartbeat, Renew, Lapse, vars
<1> QED
  BY <1>2, <1>3, <1>4, <1>5, <1>6, <1>8, <1>9, <1>10, <1>11, <1>12
     DEF Next, Api, Recover

(* It holds in every state.                                                *)
LEMMA WritersAlways == Spec => []WritersInv
<1>1. Init => WritersInv
  BY DEF Init, WritersInv
<1>2. CoreInv /\ WritersInv /\ [Next]_vars => WritersInv'
  BY WritersStep
<1> QED BY <1>1, <1>2, CoreAlways, PTL DEF Spec

-----------------------------------------------------------------------------
(* While a call waits for its write, nothing else of its process moves:    *)
(* the continuations have drained, and no execution ends meanwhile.        *)
Still(i) ==
  /\ phase[i] \in {"idle", "serving"}
  /\ \A e \in ExecOn(i) : e.stage = "running"
  /\ SlotFree(i) => pending[i] = {}
  /\ \A w \in Workflows : /\ loop[i][w] # "scan"
                          /\ SlotFree(i) => loop[i][w] # "claim"

CallersAreStill == \A c \in calls : Still(c.inst)

(* While a caller holds the one process, only its write, a crash, the end of a*)
(* recovery or a heartbeat can happen.                                     *)
LEMMA CallersBlock ==
  ASSUME TypeOK, OneProcess, CallersAreStill, calls # {}, Next
  PROVE  \/ \E c \in calls : CancelWrite(c) \/ ResumeWrite(c)
         \/ \E i \in Instances : Crash(i) \/ Recovered(i)
         \/ Heartbeat
<1>1. \A i \in Instances : Still(i) /\ Calling(i)
  <2>1. PICK c \in calls : Still(c.inst)
    BY DEF CallersAreStill
  <2>2. c.inst \in Instances
    BY DEF TypeOK
  <2> QED BY <2>1, <2>2 DEF OneProcess, Calling
<1>2. ~ \E i \in Instances, r \in Runs : Enqueue(i, r) \/ Cancel(i, r) \/ Resume(i, r)
  BY <1>1 DEF Enqueue, Cancel, Resume, Quiet
<1>3. ~ \E i \in Instances : Poll(i) \/ Job(i)
  BY <1>1 DEF Still, Poll, Quiet, Job, Scan, ClaimNext, ClaimParallel
<1>4. ~ \E i \in Instances :
          Boot(i) \/ InterruptRunning(i) \/ Requeue(i) \/ DispatchRecovered(i)
  BY <1>1 DEF Still, Boot, InterruptRunning, Requeue, DispatchRecovered
<1>5. ~Execute
  <2>1. ASSUME NEW e \in exec PROVE Calling(e.inst) /\ e.stage = "running"
    BY <1>1, ExecTypes DEF Still, ExecOn
  <2> QED BY <2>1 DEF Execute, Load, Begin, Finish
<1> QED BY <1>2, <1>3, <1>4, <1>5 DEF Next, Api, Recover

(* Every step keeps it.                                                    *)
LEMMA CallersStillStep ==
  ASSUME TypeOK, OneProcess, WritersInv, CallersAreStill, [Next]_vars
  PROVE  CallersAreStill'
<1>0. \A c \in calls : c.inst \in Instances
  BY DEF TypeOK
<1>1. CASE UNCHANGED vars
  BY <1>1 DEF vars, CallersAreStill, Still, ExecOn, SlotFree
<1>2. CASE calls # {} /\ Next
  <2>1. ASSUME NEW c \in calls, CancelWrite(c) \/ ResumeWrite(c) PROVE calls' = {}
    BY <1>0, <2>1 DEF CancelWrite, ResumeWrite, WritersInv, OneProcess
  <2>2. ASSUME NEW i \in Instances, Crash(i) PROVE calls' = {}
    BY <1>0, <2>2 DEF Crash, OneProcess
  <2>3. ASSUME NEW i \in Instances, Recovered(i) PROVE CallersAreStill'
    <3>1. UNCHANGED <<calls, exec, pending, loop>> /\ phase' = [phase EXCEPT ![i] = "serving"]
      BY <2>3 DEF Recovered, jobVars
    <3> QED BY <1>0, <3>1 DEF CallersAreStill, Still, ExecOn, SlotFree, TypeOK
  <2>4. CASE Heartbeat
    <3>1. UNCHANGED <<calls, exec, pending, loop, phase>>
      BY <2>4 DEF Heartbeat, Renew, Lapse, jobVars
    <3> QED BY <3>1 DEF CallersAreStill, Still, ExecOn, SlotFree
  <2> QED BY <1>2, <2>1, <2>2, <2>3, <2>4, CallersBlock DEF CallersAreStill
<1>3. CASE calls = {} /\ Next
  <2>1. ASSUME NEW i \in Instances, NEW r \in Runs, Cancel(i, r) \/ Resume(i, r)
        PROVE  CallersAreStill'
    <3>1. Still(i) /\ (calls' = {} \/ UNCHANGED <<exec, pending, loop, phase>>)
      BY <1>3, <2>1 DEF Cancel, Resume, Quiet, Still, jobVars
    <3>2. \A c \in calls' : c.inst = i
      BY <1>3, <2>1 DEF Cancel, Resume
    <3> QED BY <3>1, <3>2 DEF CallersAreStill, Still, ExecOn, SlotFree
  <2>2. (\E i \in Instances, r \in Runs : Cancel(i, r) \/ Resume(i, r)) \/ calls' = {}
    BY <1>3 DEF Next, Api, Enqueue, CancelWrite, ResumeWrite, Poll, Job, Scan, ClaimNext,
       ClaimParallel, Recover, Boot, InterruptRunning, Requeue, DispatchRecovered,
       Recovered, Crash, Execute, Load, Begin, Finish, Heartbeat, Renew, Lapse
  <2> QED BY <2>1, <2>2 DEF CallersAreStill
<1> QED BY <1>1, <1>2, <1>3

(* While a process recovers, only recover() and time move in it.           *)
LEMMA RecoveryBlocks ==
  ASSUME CoreInv, WritersInv, OneProcess, NEW i \in Instances, reclaimed[i] # {}, Next
  PROVE  Requeue(i) \/ Crash(i) \/ UNCHANGED <<status, calls, reclaimed>>
<1> USE DEF CoreInv
<1>1. \A j \in Instances : j = i /\ phase[j] = "requeue"
  BY DEF OneProcess, WritersInv
<1>2. exec = {} /\ calls = {} /\ timers = {}
  <2>1. \A e \in exec : e.inst = i
    BY <1>1, ExecTypes
  <2>2. \A c \in calls : c.inst = i
    BY <1>1 DEF TypeOK
  <2>3. \A t \in timers : t.inst = i
    BY <1>1 DEF TypeOK, Tickets
  <2> QED BY <1>1, <2>1, <2>2, <2>3 DEF RecoversBeforeExecuting, ExecOn
<1>3. ~ \E j \in Instances, r \in Runs : Enqueue(j, r) \/ Cancel(j, r) \/ Resume(j, r)
  BY <1>1 DEF Enqueue, Cancel, Resume, Quiet
<1>4. ~ \E j \in Instances : Poll(j) \/ Job(j)
  BY <1>1 DEF RecoversBeforeExecuting, Poll, Job, Scan, ClaimNext, ClaimParallel
<1>5. \A j \in Instances : Recover(j) => Requeue(i)
  BY <1>1 DEF Recover, Boot, InterruptRunning, DispatchRecovered, Recovered
<1>6. Heartbeat => UNCHANGED <<status, calls, reclaimed>>
  BY DEF Heartbeat, Renew, Lapse
<1> QED BY <1>1, <1>2, <1>3, <1>4, <1>5, <1>6 DEF Next, Api, Execute

(* With one process no row moves between a read and its write.             *)
LEMMA OneProcessStep ==
  ASSUME CoreInv, WritersInv, OneProcess, CallersAreStill, NothingOvertaken, [Next]_vars
  PROVE  NothingOvertaken'
<1> USE DEF CoreInv
<1>0. \A c \in calls : c.inst \in Instances
  BY DEF TypeOK
<1>1. CASE UNCHANGED <<status, calls, reclaimed>>
  BY <1>1 DEF NothingOvertaken, Resumable
<1>2. CASE Next /\ calls # {}
  <2>1. \A i \in Instances : reclaimed[i] = {}
    BY <1>0, <1>2 DEF OneProcess, WritersInv, RecoversBeforeExecuting
  <2>2. ASSUME NEW c \in calls, CancelWrite(c) \/ ResumeWrite(c) PROVE NothingOvertaken'
    <3>1. calls' = {}
      BY <1>0, <2>2 DEF CancelWrite, ResumeWrite, WritersInv, OneProcess
    <3>2. UNCHANGED reclaimed
      BY <2>2 DEF CancelWrite, ResumeWrite
    <3> QED BY <2>1, <3>1, <3>2 DEF NothingOvertaken
  <2>3. ASSUME NEW i \in Instances, Crash(i) PROVE NothingOvertaken'
    <3>1. calls' = {} /\ reclaimed' = [reclaimed EXCEPT ![i] = {}]
      BY <1>0, <2>3 DEF Crash, OneProcess
    <3> QED BY <2>1, <3>1 DEF NothingOvertaken, TypeOK
  <2>4. ASSUME NEW i \in Instances, Recovered(i) PROVE NothingOvertaken'
    BY <1>1, <2>4 DEF Recovered, rowVars
  <2>5. CASE Heartbeat
    BY <1>1, <2>5 DEF Heartbeat, Renew, Lapse
  <2> QED BY <1>2, <2>2, <2>3, <2>4, <2>5, CallersBlock
<1>3. ASSUME Next, NEW i \in Instances, reclaimed[i] # {} PROVE NothingOvertaken'
  <2>1. phase[i] = "requeue" /\ calls = {} /\ \A j \in Instances : j = i
    BY <1>0, <1>3 DEF OneProcess, WritersInv, RecoversBeforeExecuting
  <2>2. CASE Crash(i)
    <3>1. calls' \subseteq calls /\ reclaimed' = [reclaimed EXCEPT ![i] = {}]
      BY <2>2 DEF Crash
    <3> QED BY <2>1, <3>1 DEF NothingOvertaken, TypeOK
  <2>3. CASE Requeue(i)
    <3>1. PICK c \in reclaimed[i] :
            /\ Write(c.run, "queued", c.as)
            /\ reclaimed' = [reclaimed EXCEPT ![i] = @ \ {c}]
      BY <2>3 DEF Requeue
    <3>2. reclaimed'[i] = reclaimed[i] \ {c} /\ UNCHANGED calls
      BY <2>3, <3>1 DEF Requeue, TypeOK
    <3>3. \A d \in reclaimed'[i] : d.run \in Runs /\ status'[d.run] = status[d.run]
      BY <3>1, <3>2 DEF Write, TypeOK, WritersInv
    <3> QED BY <2>1, <3>2, <3>3 DEF NothingOvertaken
  <2> QED BY <1>1, <1>3, <2>2, <2>3, RecoveryBlocks
<1>4. CASE Next /\ calls = {} /\ \A i \in Instances : reclaimed[i] = {}
  <2>1. ASSUME NEW i \in Instances, InterruptRunning(i) PROVE NothingOvertaken'
    <3>1. /\ calls' = {}
          /\ reclaimed' = [reclaimed EXCEPT ![i] =
               {[run |-> r, as |-> owner[r]] : r \in {q \in Runs : status'[q] = "interrupted"}}]
      BY <1>4, <2>1 DEF InterruptRunning
    <3>2. \A c \in reclaimed'[i] : status'[c.run] = "interrupted"
      BY <3>1 DEF TypeOK
    <3>3. \A j \in Instances : j = i
      BY DEF OneProcess
    <3> QED BY <3>1, <3>2, <3>3 DEF NothingOvertaken
  <2>2. ASSUME NEW i \in Instances, NEW r \in Runs, Cancel(i, r) PROVE NothingOvertaken'
    <3>1. UNCHANGED <<status, reclaimed>>
      BY <2>2 DEF Cancel, rowVars
    <3>2. \A c \in calls' : c.op = "cancel" /\ c.run = r /\ status[r] = "queued"
      BY <1>4, <2>2 DEF Cancel
    <3> QED BY <1>4, <3>1, <3>2 DEF NothingOvertaken
  <2>3. ASSUME NEW i \in Instances, NEW r \in Runs, Resume(i, r) PROVE NothingOvertaken'
    <3>1. UNCHANGED <<status, reclaimed>>
      BY <2>3 DEF Resume, rowVars
    <3>2. \A c \in calls' : c.op = "resume" /\ c.run = r /\ Resumable(r)
      BY <1>4, <2>3 DEF Resume
    <3> QED BY <1>4, <3>1, <3>2 DEF NothingOvertaken, Resumable
  <2>4. ASSUME calls' = {}, \A i \in Instances : reclaimed'[i] = {} PROVE NothingOvertaken'
    BY <2>4 DEF NothingOvertaken
  <2>5. \/ \E i \in Instances : InterruptRunning(i)
        \/ \E i \in Instances, r \in Runs : Cancel(i, r) \/ Resume(i, r)
        \/ calls' = {} /\ \A i \in Instances : reclaimed'[i] = {}
    BY <1>4 DEF Next, Api, Enqueue, CancelWrite, ResumeWrite, Poll, Job, Scan, ClaimNext,
       ClaimParallel, Recover, Boot, Requeue, DispatchRecovered,
       Recovered, Crash, Execute, Load, Begin, Finish, Heartbeat, Renew, Lapse, TypeOK
  <2> QED BY <2>1, <2>2, <2>3, <2>4, <2>5
<1> QED BY <1>1, <1>2, <1>3, <1>4 DEF vars

(* One process overtakes nothing: its calls write before anything else of  *)
(* it moves, and it takes rows back before it serves.  Heartbeats may be   *)
(* late, and it may crash at any time.                                     *)
THEOREM OneProcessOvertakesNothing ==
  ASSUME OneProcess
  PROVE  Spec => []NothingOvertaken
<1>1. Init => CallersAreStill /\ NothingOvertaken
  BY DEF Init, CallersAreStill, NothingOvertaken
<1>2. CoreInv /\ WritersInv /\ CallersAreStill /\ NothingOvertaken /\ [Next]_vars
        => CallersAreStill' /\ NothingOvertaken'
  BY CallersStillStep, OneProcessStep DEF CoreInv
<1> QED BY <1>1, <1>2, CoreAlways, WritersAlways, PTL DEF Spec

(* So a single process, late heartbeats and crashes included, executes a   *)
(* run once at a time, never leaves a final status, and keeps the promise  *)
(* of RunLifecycle.                                                        *)
THEOREM OneProcessKeepsThePromise ==
  ASSUME OneProcess
  PROVE  Spec => []OneExecutionPerRun /\ TerminalIsFinal /\ ImplementsLifecycle
<1>1. DistinctIds
  BY DEF OneProcess, DistinctIds
<1> QED
  BY <1>1, OneProcessOvertakesNothing, RunsExecuteOnce, TerminalStaysFinal,
     LifecycleIsImplemented, PTL

-----------------------------------------------------------------------------
(* Several processes whose runs nobody cancels: a write back is overtaken  *)
(* only by another that hands out the same run.  Returning(i, r): process  *)
(* i has read r as interrupted or paused and has not queued it yet.        *)
Returning(i, r) ==
  \/ \E c \in reclaimed[i] : c.run = r
  \/ \E c \in calls : c.op = "resume" /\ c.inst = i /\ c.run = r

NoRivalReturns ==
  \A i, j \in Instances, r \in Runs : Returning(i, r) /\ Returning(j, r) => i = j

NobodyCancels == \A c \in calls : c.op = "resume"

(* Where no run may be cancelled nobody does.                              *)
LEMMA NobodyCancelsStep ==
  ASSUME Cancellable = {}, NobodyCancels, [Next]_vars
  PROVE  NobodyCancels'
<1>1. ~ \E i \in Instances, r \in Runs : Cancel(i, r)
  BY DEF Cancel
<1>2. ASSUME NEW i \in Instances, NEW r \in Runs, Resume(i, r) PROVE NobodyCancels'
  BY <1>2 DEF Resume, NobodyCancels
<1>3. (\E i \in Instances, r \in Runs : Resume(i, r)) \/ calls' \subseteq calls
  BY <1>1 DEF Next, Api, Enqueue, CancelWrite, ResumeWrite, Poll, Job, Scan,
     ClaimNext, ClaimParallel, Recover, Boot, InterruptRunning, Requeue, DispatchRecovered,
     Recovered, Crash, Execute, Load, Begin, Finish, Heartbeat, Renew, Lapse, vars
<1> QED BY <1>2, <1>3 DEF NobodyCancels

(* A write of a row that nobody is about to hand out.                      *)
LEMMA WriteOvertakesNothing ==
  ASSUME TypeOK, NobodyCancels, NothingOvertaken,
         NEW r \in Runs, NEW s, NEW id, Write(r, s, id),
         calls' \subseteq calls,
         \A i \in Instances : reclaimed'[i] \subseteq reclaimed[i],
         \A c \in calls' : c.run # r,
         \A i \in Instances : \A c \in reclaimed'[i] : c.run # r
  PROVE  NothingOvertaken'
<1>1. \A q \in Runs : q # r => status'[q] = status[q]
  BY DEF Write, TypeOK
<1>2. \A c \in calls' : c.run \in Runs /\ c.op = "resume" /\ Resumable(c.run)
  BY DEF TypeOK, NobodyCancels, NothingOvertaken
<1>3. \A i \in Instances : \A c \in reclaimed'[i] : c.run \in Runs /\ status[c.run] = "interrupted"
  BY DEF TypeOK, NothingOvertaken
<1> QED BY <1>1, <1>2, <1>3 DEF NothingOvertaken, Resumable

(* Without cancels and rival returns no row moves between a read and its write.*)
LEMMA ResumesStep ==
  ASSUME CoreInv, WritersInv, ExecInv, NobodyCancels, NoRivalReturns, NothingOvertaken,
         Cancellable = {}, [Next]_vars
  PROVE  NothingOvertaken'
<1> USE DEF CoreInv
<1>0. /\ \A c \in calls : /\ c.inst \in Instances /\ c.run \in Runs /\ c.op = "resume"
                          /\ status[c.run] \in {"paused", "interrupted"}
                          /\ Returning(c.inst, c.run) /\ reclaimed[c.inst] = {}
      /\ \A i \in Instances : \A c \in reclaimed[i] :
           c.run \in Runs /\ status[c.run] = "interrupted" /\ Returning(i, c.run)
  BY DEF TypeOK, NobodyCancels, NothingOvertaken, Resumable, Returning, WritersInv,
         RecoversBeforeExecuting
<1>1. ASSUME UNCHANGED status, calls' \subseteq calls,
             \A i \in Instances : reclaimed'[i] \subseteq reclaimed[i]
      PROVE  NothingOvertaken'
  BY <1>1 DEF NothingOvertaken, Resumable
<1>2. ASSUME NEW r \in Runs, NEW s, NEW id, Write(r, s, id), UNCHANGED <<calls, reclaimed>>,
             status[r] \notin {"paused", "interrupted"}
      PROVE  NothingOvertaken'
  <2>1. /\ \A c \in calls' : c.run # r
        /\ \A i \in Instances : \A c \in reclaimed'[i] : c.run # r
    BY <1>0, <1>2
  <2> QED BY <1>2, <2>1, WriteOvertakesNothing
<1>3. ASSUME NEW i \in Instances, NEW r \in Runs, Enqueue(i, r) PROVE NothingOvertaken'
  BY <1>2, <1>3 DEF Enqueue
<1>4. ASSUME NEW i \in Instances, NEW r \in Runs, Cancel(i, r) PROVE NothingOvertaken'
  BY <1>4 DEF Cancel
<1>5. ASSUME NEW i \in Instances, NEW r \in Runs, Resume(i, r) PROVE NothingOvertaken'
  <2>1. /\ UNCHANGED <<status, reclaimed>> /\ Resumable(r)
        /\ calls' = calls \cup {[op |-> "resume", inst |-> i, run |-> r, as |-> owner[r]]}
    BY <1>5 DEF Resume, rowVars
  <2>2. \A c \in calls' : c.op = "resume" /\ Resumable(c.run)
    BY <1>0, <2>1 DEF Resumable
  <2> QED BY <2>1, <2>2 DEF NothingOvertaken, Resumable
<1>6. ASSUME NEW c \in calls, CancelWrite(c) PROVE NothingOvertaken'
  BY <1>0, <1>6 DEF CancelWrite
<1>7. ASSUME NEW c \in calls, ResumeWrite(c) PROVE NothingOvertaken'
  <2>1. Write(c.run, "queued", c.as) /\ calls' = calls \ {c} /\ UNCHANGED reclaimed
    BY <1>7 DEF ResumeWrite
  <2>2. \A d \in calls' : d.run # c.run
    BY <1>0, <2>1 DEF NoRivalReturns, WritersInv
  <2>3. \A i \in Instances : \A d \in reclaimed'[i] : d.run # c.run
    BY <1>0, <2>1 DEF NoRivalReturns
  <2> QED BY <1>0, <2>1, <2>2, <2>3, WriteOvertakesNothing
<1>8. ASSUME NEW i \in Instances, NEW r \in Runs, Claimable(r), Take(i, r),
             UNCHANGED <<calls, reclaimed>>
      PROVE  NothingOvertaken'
  BY <1>2, <1>8 DEF Take, Claimable
<1>9. ASSUME NEW i \in Instances, NEW w \in Workflows, Scan(i, w) \/ ClaimNext(i, w)
      PROVE  NothingOvertaken'
  <2>1. ClaimNext(i, w) => picked[i][w] \in Runs
    BY DEF ClaimNext, PickedIsOwn
  <2> QED BY <1>1, <1>8, <1>9, <2>1 DEF Scan, ClaimNext, rowVars
<1>10. ASSUME NEW i \in Instances, NEW r \in Runs, ClaimParallel(i, r) PROVE NothingOvertaken'
  BY <1>1, <1>8, <1>10 DEF ClaimParallel, rowVars
<1>11. ASSUME NEW i \in Instances,
              Poll(i) \/ Boot(i) \/ DispatchRecovered(i) \/ Recovered(i)
       PROVE  NothingOvertaken'
  BY <1>1, <1>11 DEF Poll, Boot, DispatchRecovered, Recovered, rowVars
<1>12. ASSUME NEW i \in Instances, Crash(i) PROVE NothingOvertaken'
  BY <1>1, <1>12 DEF Crash, rowVars, TypeOK
<1>13. ASSUME NEW i \in Instances, InterruptRunning(i) PROVE NothingOvertaken'
  <2>1. /\ UNCHANGED calls
        /\ reclaimed' = [reclaimed EXCEPT ![i] =
             {[run |-> r, as |-> owner[r]] : r \in {q \in Runs : status'[q] = "interrupted"}}]
    BY <1>13 DEF InterruptRunning
  <2>2. \A r \in Runs : status[r] \in {"paused", "interrupted"} => status'[r] = status[r]
    BY <1>13 DEF InterruptRunning, Reclaimable
  <2>3. \A c \in calls' : c.op = "resume" /\ status'[c.run] \in {"paused", "interrupted"}
    BY <1>0, <2>1, <2>2
  <2>4. \A c \in reclaimed'[i] : status'[c.run] = "interrupted"
    BY <2>1 DEF TypeOK
  <2>5. \A j \in Instances : j # i => \A c \in reclaimed'[j] : status'[c.run] = "interrupted"
    BY <1>0, <2>1, <2>2 DEF TypeOK
  <2> QED BY <2>3, <2>4, <2>5 DEF NothingOvertaken, Resumable
<1>14. ASSUME NEW i \in Instances, Requeue(i) PROVE NothingOvertaken'
  <2>1. PICK c \in reclaimed[i] :
          Write(c.run, "queued", c.as) /\ reclaimed' = [reclaimed EXCEPT ![i] = @ \ {c}]
    BY <1>14 DEF Requeue
  <2>2. UNCHANGED calls /\ reclaimed'[i] = reclaimed[i] \ {c}
        /\ \A j \in Instances : j # i => reclaimed'[j] = reclaimed[j]
    BY <1>14, <2>1 DEF Requeue, TypeOK
  <2>3. \A d \in calls' : d.run # c.run
    BY <1>0, <2>2 DEF NoRivalReturns
  <2>4. \A j \in Instances : \A d \in reclaimed'[j] : d.run # c.run
    BY <1>0, <2>2 DEF NoRivalReturns, WritersInv
  <2> QED BY <1>0, <2>1, <2>2, <2>3, <2>4, WriteOvertakesNothing
<1>15. ASSUME NEW e \in exec, Load(e) PROVE NothingOvertaken'
  BY <1>1, <1>15 DEF Load, rowVars
<1>16. ASSUME NEW e \in exec, Begin(e) \/ \E s \in Status : Finish(e, s)
       PROVE  NothingOvertaken'
  <2>1. e.run \in Runs /\ status[e.run] = "running"
    BY ExecTypes DEF ExecInv, RowsAreOwned
  <2> QED BY <1>2, <1>16, <2>1 DEF Begin, Finish
<1>17. CASE Heartbeat \/ UNCHANGED vars
  BY <1>1, <1>17 DEF Heartbeat, Renew, Lapse, vars
<1> QED
  BY <1>3, <1>4, <1>5, <1>6, <1>7, <1>9, <1>10, <1>11, <1>12, <1>13, <1>14, <1>15,
     <1>16, <1>17 DEF Next, Api, Job, Execute, Recover

(* Without cancels, recoveries and resumes of several processes overtake   *)
(* nothing as long as no two of them hand out the same run together: what  *)
(* update() would have to refuse is that race and nothing else.            *)
THEOREM OnlyRivalsOvertake ==
  ASSUME DistinctIds, Punctual, Cancellable = {}
  PROVE  Spec /\ []NoRivalReturns => []NothingOvertaken
<1> DEFINE Inv == ExecInv /\ NobodyCancels /\ NothingOvertaken
<1>1. Init => Inv
  BY DEF Init, ExecInv, OneExecutionPerRun, HeartbeatsMatchExecutions, RowsAreOwned,
         LeasesAreLive, RecordsAreOwn, NobodyCancels, NothingOvertaken
<1>2. CoreInv /\ WritersInv /\ NoRivalReturns /\ Inv /\ [Next]_vars => Inv'
  BY ExecStep, ResumesStep, NobodyCancelsStep DEF CoreInv
<1> QED BY <1>1, <1>2, CoreAlways, WritersAlways, PTL DEF Spec

(* A process hands runs out while it recovers and while it serves a resume. *)
HandsOut(i) == phase[i] = "requeue" \/ \E c \in calls : c.op = "resume" /\ c.inst = i
OneHandsOut == \A i, j \in Instances : HandsOut(i) /\ HandsOut(j) => i = j

(* So processes that start one after another, and are not asked to resume   *)
(* while one of them starts, keep the promise too, over any crashes: what   *)
(* run two_recover needs is two of them in recover() together.              *)
THEOREM OneAtATimeKeepsThePromise ==
  ASSUME DistinctIds, Punctual, Cancellable = {}
  PROVE  Spec /\ []OneHandsOut =>
           /\ []OneExecutionPerRun /\ []SerialAcrossInstances
           /\ TerminalIsFinal /\ ImplementsLifecycle
<1>1. WritersInv /\ OneHandsOut => NoRivalReturns
  <2> SUFFICES ASSUME WritersInv, OneHandsOut, NEW i \in Instances, NEW j \in Instances,
                      NEW r \in Runs, Returning(i, r), Returning(j, r)
               PROVE  i = j
    BY DEF NoRivalReturns
  <2>1. HandsOut(i) /\ HandsOut(j)
    BY DEF WritersInv, Returning, HandsOut
  <2> QED BY <2>1 DEF OneHandsOut
<1> QED
  BY <1>1, WritersAlways, OnlyRivalsOvertake, RunsExecuteOnce, SerialEverywhere,
     TerminalStaysFinal, LifecycleIsImplemented, PTL
=============================================================================
