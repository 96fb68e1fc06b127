---------------------------- MODULE RunScheduler ----------------------------
(***************************************************************************)
(* The run table (SqliteRunStore) and the LocalRunScheduler of every       *)
(* process that shares it: admission, the claim of a queued run, the lease *)
(* and its heartbeat, cancel, resume, crash and recovery.                  *)
(*                                                                         *)
(* A store call is one SQL statement, so it is one step; everything        *)
(* between two awaits of a process is one step; processes interleave.      *)
(* Time is what a lease row says about it: "live" until lease_expires_at   *)
(* passes, "lapsed" after.  What a run computes is left out: an execution  *)
(* ends in any status WorkflowRunner.run can give it.                      *)
(***************************************************************************)
EXTENDS Integers, FiniteSets

CONSTANTS
  Runs,        \* run ids; their order is the order of started_at
  Workflows,
  WorkflowOf,  \* the workflow of each run
  Overlap,     \* onOverlap of each workflow
  Instances,   \* processes that open the database
  Ids,         \* values of FOXFLOW_INSTANCE_ID
  IdOf,        \* the id each process was given
  Role,        \* which entry point it runs: server.ts, worker.ts, scheduler.ts
  Slots,       \* maxConcurrentRuns of each process
  NoOne,       \* no instance id
  Punctual,    \* a heartbeat is never late for its lease
  Cancellable, \* runs the API is asked to cancel
  MaxCrashes,  \* bound: process deaths in a behaviour
  MaxResumes   \* bound: resume calls in a behaviour

ASSUME RunsAssumption == Runs \subseteq Nat
ASSUME WorkflowAssumption ==
  /\ WorkflowOf \in [Runs -> Workflows]
  /\ Overlap \in [Workflows -> {"skip", "queue", "parallel"}]
ASSUME InstanceAssumption ==
  /\ IdOf \in [Instances -> Ids]
  /\ Role \in [Instances -> {"server", "worker", "scheduler"}]
  /\ Slots \in [Instances -> Nat \ {0}]
  /\ NoOne \notin Ids
ASSUME BoundAssumption ==
  /\ Punctual \in BOOLEAN
  /\ Cancellable \subseteq Runs
  /\ MaxCrashes \in Nat
  /\ MaxResumes \in Nat

VARIABLES
  status,     \* workflow_runs.status, "absent" before the insert
  owner,      \* workflow_runs.instance_id
  lease,      \* workflow_runs.lease_expires_at, as "null", "live" or "lapsed"
  phase,      \* how far each process is in its start-up
  reclaimed,  \* recover(): rows read by interruptRunning and not yet requeued
  loop,       \* the startSerial job of each process and workflow
  picked,     \* the run that job read as the oldest queued one
  pending,    \* startRun jobs that have not claimed yet
  exec,       \* executions of WorkflowRunner.run
  held,       \* controls and leases maps: the execution they hold for a run
  timers,     \* heartbeat intervals that are ticking
  calls,      \* cancel and resume calls between their read and their write
  claims,     \* number of successful claims of each run
  crashes,
  resumes

rowVars == <<status, owner, lease>>
jobVars == <<loop, picked, pending, exec, held, timers, claims>>
vars == <<status, owner, lease, phase, reclaimed, loop, picked, pending, exec,
          held, timers, calls, claims, crashes, resumes>>

Status == {"absent", "queued", "running", "paused", "interrupted",
           "succeeded", "failed", "cancelled"}
Terminal == {"succeeded", "failed", "cancelled"}
Active == {"queued", "running"}
Phase == {"down", "interrupt", "requeue", "idle", "serving"}

Serial(r) == Overlap[WorkflowOf[r]] # "parallel"
Queued(w) == {r \in Runs : WorkflowOf[r] = w /\ status[r] = "queued"}
ExecOn(i) == {e \in exec : e.inst = i}
Ticket(e) == [inst |-> e.inst, run |-> e.run, no |-> e.no]

(* UPDATE workflow_runs SET status, finished_at, error, instance_id: every *)
(* write of a record read earlier, whatever the row says by now.           *)
Write(r, s, id) ==
  /\ status' = [status EXCEPT ![r] = s]
  /\ owner' = [owner EXCEPT ![r] = id]

Init ==
  /\ status = [r \in Runs |-> "absent"]
  /\ owner = [r \in Runs |-> NoOne]
  /\ lease = [r \in Runs |-> "null"]
  /\ phase = [i \in Instances |-> "serving"]
  /\ reclaimed = [i \in Instances |-> {}]
  /\ loop = [i \in Instances |-> [w \in Workflows |-> "none"]]
  /\ picked = [i \in Instances |-> [w \in Workflows |-> 0]]
  /\ pending = [i \in Instances |-> {}]
  /\ exec = {}
  /\ held = [i \in Instances |-> [r \in Runs |-> 0]]
  /\ timers = {}
  /\ calls = {}
  /\ claims = [r \in Runs |-> 0]
  /\ crashes = 0
  /\ resumes = 0

(* Node drains a process's continuations before it takes the next request, *)
(* timer or socket event, and a store call has returned when it is awaited: *)
(* such an event finds no job of its own process between two store calls,  *)
(* only jobs that wait for a slot or for a pipe.                           *)
SlotFree(i) == Cardinality(ExecOn(i)) < Slots[i]
Calling(i) == \E c \in calls : c.inst = i

Quiet(i) ==
  /\ phase[i] \in {"idle", "serving"} /\ ~Calling(i)
  /\ \A e \in ExecOn(i) : e.stage = "running"
  /\ SlotFree(i) => pending[i] = {}
  /\ \A w \in Workflows : /\ loop[i][w] # "scan"
                          /\ SlotFree(i) => loop[i][w] # "claim"

-----------------------------------------------------------------------------
(* Mutant of StartAll: startSerial without "if (this.serial.has(id)) return". *)
StartAllAgain(i, S) ==
  /\ pending' = [pending EXCEPT ![i] = @ \cup {r \in S : ~Serial(r)}]
  /\ loop' = [loop EXCEPT ![i] = [w \in Workflows |->
       IF \E r \in S : WorkflowOf[r] = w /\ Serial(r) THEN "scan" ELSE @[w]]]

(* startRun and startSerial.  StartSerial on a running loop is a no-op.    *)
StartAll(i, S) ==
  /\ pending' = [pending EXCEPT ![i] = @ \cup {r \in S : ~Serial(r)}]
  /\ loop' = [loop EXCEPT ![i] = [w \in Workflows |->
       IF @[w] = "none" /\ \E r \in S : WorkflowOf[r] = w /\ Serial(r)
       THEN "scan" ELSE @[w]]]

(* enqueue: the webhook, cron, poll and manual paths of a server or a      *)
(* scheduler, and a sub-workflow or error handler of a run executing here. *)
Enqueue(i, r) ==
  /\ Quiet(i)
  /\ \/ phase[i] = "serving" /\ Role[i] # "worker"
     \/ \E e \in ExecOn(i) : e.stage = "running"
  /\ status[r] = "absent"
  /\ Overlap[WorkflowOf[r]] = "skip" =>
       \A q \in Runs : WorkflowOf[q] = WorkflowOf[r] => status[q] \notin Active
  /\ Write(r, "queued", IdOf[i])
  /\ IF Role[i] = "scheduler"
     THEN UNCHANGED <<pending, loop>>
     ELSE StartAll(i, {r})
  /\ UNCHANGED <<lease, phase, reclaimed, picked, exec, held, timers, calls,
                 claims, crashes, resumes>>

(* dispatchAvailable: the worker's interval, set once recover() returned.  *)
Poll(i) ==
  /\ Role[i] = "worker" /\ phase[i] = "serving" /\ Quiet(i)
  /\ StartAll(i, {r \in Runs : status[r] = "queued"})
  /\ UNCHANGED <<rowVars, phase, reclaimed, picked, exec, held, timers, calls,
                 claims, crashes, resumes>>

-----------------------------------------------------------------------------
(* The serial job reads the oldest queued run; it ends when there is none. *)
Scan(i, w) ==
  /\ loop[i][w] = "scan"
  /\ \/ /\ Queued(w) = {}
        /\ loop' = [loop EXCEPT ![i][w] = "none"]
        /\ UNCHANGED picked
     \/ \E r \in Queued(w) :
          /\ \A q \in Queued(w) : r <= q
          /\ loop' = [loop EXCEPT ![i][w] = "claim"]
          /\ picked' = [picked EXCEPT ![i][w] = r]
  /\ UNCHANGED <<rowVars, phase, reclaimed, pending, exec, held, timers, calls,
                 claims, crashes, resumes>>

(* Mutants of Claimable: no "serial" clause, no status test, and a serial  *)
(* clause that counts queued runs as well.                                 *)
ClaimableBesidePeers(r) == status[r] = "queued"
ClaimableUnchecked(r) ==
  Serial(r) =>
    ~ \E q \in Runs \ {r} : /\ WorkflowOf[q] = WorkflowOf[r]
                            /\ status[q] = "running"
                            /\ lease[q] = "live"
ClaimableWhenAlone(r) ==
  /\ status[r] = "queued"
  /\ Serial(r) =>
       ~ \E q \in Runs \ {r} : WorkflowOf[q] = WorkflowOf[r] /\ status[q] \in Active

(* claimQueuedRun's WHERE clause.                                          *)
Claimable(r) ==
  /\ status[r] = "queued"
  /\ Serial(r) =>
       ~ \E q \in Runs \ {r} : /\ WorkflowOf[q] = WorkflowOf[r]
                               /\ status[q] = "running"
                               /\ lease[q] = "live"

(* Mutant of Take: the claim sets no lease_expires_at.                     *)
TakeWithoutLease(i, r) ==
  /\ Write(r, "running", IdOf[i])
  /\ UNCHANGED lease
  /\ claims' = [claims EXCEPT ![r] = @ + 1]
  /\ exec' = exec \cup {[inst |-> i, run |-> r, no |-> claims[r] + 1,
                         stage |-> "claimed", as |-> NoOne, aborted |-> FALSE]}
  /\ held' = [held EXCEPT ![i][r] = claims[r] + 1]
  /\ timers' = timers \cup {[inst |-> i, run |-> r, no |-> claims[r] + 1]}

(* The claim, and then the controller and the heartbeat of the execution.  *)
Take(i, r) ==
  /\ Write(r, "running", IdOf[i])
  /\ lease' = [lease EXCEPT ![r] = "live"]
  /\ claims' = [claims EXCEPT ![r] = @ + 1]
  /\ exec' = exec \cup {[inst |-> i, run |-> r, no |-> claims[r] + 1,
                         stage |-> "claimed", as |-> NoOne, aborted |-> FALSE]}
  /\ held' = [held EXCEPT ![i][r] = claims[r] + 1]
  /\ timers' = timers \cup {[inst |-> i, run |-> r, no |-> claims[r] + 1]}

ClaimNext(i, w) ==
  /\ loop[i][w] = "claim"
  /\ SlotFree(i)
  /\ IF Claimable(picked[i][w])
     THEN /\ Take(i, picked[i][w])
          /\ loop' = [loop EXCEPT ![i][w] = "run"]
     ELSE /\ loop' = [loop EXCEPT ![i][w] = "none"]
          /\ UNCHANGED <<rowVars, claims, exec, held, timers>>
  /\ picked' = [picked EXCEPT ![i][w] = 0]
  /\ UNCHANGED <<phase, reclaimed, pending, calls, crashes, resumes>>

ClaimParallel(i, r) ==
  /\ r \in pending[i]
  /\ SlotFree(i)
  /\ pending' = [pending EXCEPT ![i] = @ \ {r}]
  /\ IF Claimable(r)
     THEN Take(i, r)
     ELSE UNCHANGED <<rowVars, claims, exec, held, timers>>
  /\ UNCHANGED <<phase, reclaimed, loop, picked, calls, crashes, resumes>>

-----------------------------------------------------------------------------
(* WorkflowRunner.run: the record it reads, and its write of "running".    *)
Load(e) ==
  /\ e \in exec /\ e.stage = "claimed"
  /\ exec' = (exec \ {e}) \cup {[e EXCEPT !.stage = "loaded", !.as = owner[e.run]]}
  /\ UNCHANGED <<rowVars, phase, reclaimed, loop, picked, pending, held, timers,
                 calls, claims, crashes, resumes>>

Begin(e) ==
  /\ e \in exec /\ e.stage = "loaded"
  /\ Write(e.run, "running", e.as)
  /\ exec' = (exec \ {e}) \cup {[e EXCEPT !.stage = "running"]}
  /\ UNCHANGED <<lease, phase, reclaimed, loop, picked, pending, held, timers,
                 calls, claims, crashes, resumes>>

(* What WorkflowRunner.run can end a run in.                               *)
Outcomes(e) ==
  {"succeeded", "failed", "paused"} \cup IF e.aborted THEN {"cancelled"} ELSE {}

(* releaseLease clears the timer the leases map holds under the run's id.  *)
(* Its mutant drops the map entry and leaves the timer ticking.            *)
ReleaseForgetsTimer(e) == timers
ReleaseLease(e) ==
  timers \ {[inst |-> e.inst, run |-> e.run, no |-> held[e.inst][e.run]]}

(* The last write of the run, and runControlled's finally.                 *)
Finish(e, s) ==
  /\ e \in exec /\ e.stage = "running" /\ s \in Outcomes(e)
  /\ ~Calling(e.inst)
  /\ Write(e.run, s, e.as)
  /\ exec' = exec \ {e}
  /\ held' = [held EXCEPT ![e.inst][e.run] = 0]
  /\ timers' = ReleaseLease(e)
  /\ loop' = IF Serial(e.run)
             THEN [loop EXCEPT ![e.inst][WorkflowOf[e.run]] = "scan"]
             ELSE loop
  /\ UNCHANGED <<lease, phase, reclaimed, picked, pending, calls, claims,
                 crashes, resumes>>

-----------------------------------------------------------------------------
(* A heartbeat renews the lease of a running row its process owns.         *)
Beats(t, r) ==
  t.run = r /\ status[r] = "running" /\ owner[r] = IdOf[t.inst]

Renew(t) ==
  /\ t \in timers /\ Beats(t, t.run)
  /\ lease[t.run] = "lapsed"
  /\ lease' = [lease EXCEPT ![t.run] = "live"]
  /\ UNCHANGED <<status, owner, phase, reclaimed, jobVars, calls, crashes, resumes>>

(* lease_expires_at passes.                                                *)
Lapse(r) ==
  /\ lease[r] = "live"
  /\ Punctual => ~ \E t \in timers : Beats(t, r)
  /\ lease' = [lease EXCEPT ![r] = "lapsed"]
  /\ UNCHANGED <<status, owner, phase, reclaimed, jobVars, calls, crashes, resumes>>

-----------------------------------------------------------------------------
(* cancel and resume: the read, then the write of what was read.           *)
Cancel(i, r) ==
  /\ Role[i] = "server" /\ phase[i] = "serving" /\ Quiet(i)
  /\ r \in Cancellable
  /\ \/ /\ status[r] = "queued"
        /\ calls' = calls \cup {[op |-> "cancel", inst |-> i, run |-> r, as |-> owner[r]]}
        /\ UNCHANGED exec
     \/ /\ status[r] \notin {"absent", "queued"} /\ held[i][r] # 0
        /\ exec' = {IF Ticket(e) = [inst |-> i, run |-> r, no |-> held[i][r]]
                    THEN [e EXCEPT !.aborted = TRUE] ELSE e : e \in exec}
        /\ UNCHANGED calls
  /\ UNCHANGED <<rowVars, phase, reclaimed, loop, picked, pending, held, timers,
                 claims, crashes, resumes>>

Resumable(r) == status[r] \in {"paused", "interrupted"}

Resume(i, r) ==
  /\ Role[i] = "server" /\ phase[i] = "serving" /\ Quiet(i)
  /\ resumes < MaxResumes
  /\ Resumable(r)
  /\ calls' = calls \cup {[op |-> "resume", inst |-> i, run |-> r, as |-> owner[r]]}
  /\ resumes' = resumes + 1
  /\ UNCHANGED <<rowVars, phase, reclaimed, jobVars, crashes>>

CancelWrite(c) ==
  /\ c \in calls /\ c.op = "cancel"
  /\ Write(c.run, "cancelled", c.as)
  /\ calls' = calls \ {c}
  /\ UNCHANGED <<lease, phase, reclaimed, jobVars, crashes, resumes>>

ResumeWrite(c) ==
  /\ c \in calls /\ c.op = "resume"
  /\ Write(c.run, "queued", c.as)
  /\ calls' = calls \ {c}
  /\ StartAll(c.inst, {c.run})
  /\ UNCHANGED <<lease, phase, reclaimed, picked, exec, held, timers, claims,
                 crashes, resumes>>

-----------------------------------------------------------------------------
(* A process dies with everything it kept in memory.                       *)
Crash(i) ==
  /\ phase[i] # "down" /\ crashes < MaxCrashes
  /\ crashes' = crashes + 1
  /\ phase' = [phase EXCEPT ![i] = "down"]
  /\ reclaimed' = [reclaimed EXCEPT ![i] = {}]
  /\ loop' = [loop EXCEPT ![i] = [w \in Workflows |-> "none"]]
  /\ picked' = [picked EXCEPT ![i] = [w \in Workflows |-> 0]]
  /\ pending' = [pending EXCEPT ![i] = {}]
  /\ exec' = {e \in exec : e.inst # i}
  /\ held' = [held EXCEPT ![i] = [r \in Runs |-> 0]]
  /\ timers' = {t \in timers : t.inst # i}
  /\ calls' = {c \in calls : c.inst # i}
  /\ UNCHANGED <<rowVars, claims, resumes>>

(* server.ts and worker.ts recover before they serve, scheduler.ts does not. *)
Boot(i) ==
  /\ phase[i] = "down"
  /\ phase' = [phase EXCEPT ![i] =
                 IF Role[i] = "scheduler" THEN "serving" ELSE "interrupt"]
  /\ UNCHANGED <<rowVars, reclaimed, jobVars, calls, crashes, resumes>>

(* Mutants of Reclaimable: every running row, and only lapsed ones.        *)
ReclaimableAny(i, r) == status[r] = "running"
ReclaimableLapsed(i, r) == status[r] = "running" /\ lease[r] # "live"

(* interruptRunning: the UPDATE, then the SELECT of every interrupted row. *)
Reclaimable(i, r) ==
  status[r] = "running" /\ (lease[r] # "live" \/ owner[r] = IdOf[i])

InterruptRunning(i) ==
  /\ phase[i] = "interrupt"
  /\ status' = [r \in Runs |-> IF Reclaimable(i, r) THEN "interrupted" ELSE status[r]]
  /\ reclaimed' = [reclaimed EXCEPT ![i] =
       {[run |-> r, as |-> owner[r]] : r \in {q \in Runs : status'[q] = "interrupted"}}]
  /\ phase' = [phase EXCEPT ![i] = "requeue"]
  /\ UNCHANGED <<owner, lease, jobVars, calls, crashes, resumes>>

(* Mutant of Requeue: each run is started as soon as it is queued again.   *)
RequeueAndStart(i) ==
  /\ phase[i] = "requeue"
  /\ \E c \in reclaimed[i] :
       /\ \A d \in reclaimed[i] : c.run <= d.run
       /\ Write(c.run, "queued", c.as)
       /\ reclaimed' = [reclaimed EXCEPT ![i] = @ \ {c}]
       /\ StartAll(i, {c.run})
  /\ UNCHANGED <<lease, phase, picked, exec, held, timers, calls, claims,
                 crashes, resumes>>

(* recover's loop: oldest first, one update at a time.                     *)
Requeue(i) ==
  /\ phase[i] = "requeue"
  /\ \E c \in reclaimed[i] :
       /\ \A d \in reclaimed[i] : c.run <= d.run
       /\ Write(c.run, "queued", c.as)
       /\ reclaimed' = [reclaimed EXCEPT ![i] = @ \ {c}]
  /\ UNCHANGED <<lease, phase, jobVars, calls, crashes, resumes>>

(* startQueuedRuns, and then idle() until those jobs are done.             *)
DispatchRecovered(i) ==
  /\ phase[i] = "requeue" /\ reclaimed[i] = {}
  /\ StartAll(i, {r \in Runs : status[r] = "queued"})
  /\ phase' = [phase EXCEPT ![i] = "idle"]
  /\ UNCHANGED <<rowVars, reclaimed, picked, exec, held, timers, calls, claims,
                 crashes, resumes>>

Recovered(i) ==
  /\ phase[i] = "idle"
  /\ pending[i] = {} /\ ExecOn(i) = {}
  /\ \A w \in Workflows : loop[i][w] = "none"
  /\ phase' = [phase EXCEPT ![i] = "serving"]
  /\ UNCHANGED <<rowVars, reclaimed, jobVars, calls, crashes, resumes>>

-----------------------------------------------------------------------------
Job(i) ==
  \/ \E w \in Workflows : Scan(i, w) \/ ClaimNext(i, w)
  \/ \E r \in Runs : ClaimParallel(i, r)

Execute ==
  \E e \in exec : Load(e) \/ Begin(e) \/ \E s \in Status : Finish(e, s)

Heartbeat == (\E t \in timers : Renew(t)) \/ (\E r \in Runs : Lapse(r))

Api ==
  \/ \E i \in Instances, r \in Runs : Enqueue(i, r) \/ Cancel(i, r) \/ Resume(i, r)
  \/ \E c \in calls : CancelWrite(c) \/ ResumeWrite(c)

Recover(i) ==
  Boot(i) \/ InterruptRunning(i) \/ Requeue(i) \/ DispatchRecovered(i) \/ Recovered(i)

Next ==
  \/ Api
  \/ \E i \in Instances : Poll(i) \/ Job(i) \/ Recover(i) \/ Crash(i)
  \/ Execute
  \/ Heartbeat

Spec == Init /\ [][Next]_vars

(* The event loop of a live process runs its continuations; executions     *)
(* end; leases lapse unless renewed; a dead process is restarted.  Nobody  *)
(* has to enqueue, cancel, resume or crash.                                *)
Fairness ==
  /\ \A i \in Instances :
       /\ WF_vars(Poll(i))
       /\ WF_vars(Recover(i))
       /\ \A w \in Workflows : WF_vars(Scan(i, w)) /\ WF_vars(ClaimNext(i, w))
       /\ \A r \in Runs : WF_vars(ClaimParallel(i, r))
  /\ \A r \in Runs :
       /\ WF_vars(\E e \in exec : e.run = r /\ (Load(e) \/ Begin(e)))
       /\ WF_vars(\E e \in exec, s \in Status : e.run = r /\ Finish(e, s))
       /\ WF_vars(\E c \in calls : c.run = r /\ (CancelWrite(c) \/ ResumeWrite(c)))
       /\ WF_vars(Lapse(r))

FairSpec == Spec /\ Fairness

-----------------------------------------------------------------------------
Executions ==
  [inst : Instances, run : Runs, no : Nat \ {0},
   stage : {"claimed", "loaded", "running"}, as : Ids \cup {NoOne}, aborted : BOOLEAN]
Tickets == [inst : Instances, run : Runs, no : Nat \ {0}]

(* Every row, map entry and job is one the code can hold.                  *)
TypeOK ==
  /\ status \in [Runs -> Status]
  /\ owner \in [Runs -> Ids \cup {NoOne}]
  /\ lease \in [Runs -> {"null", "live", "lapsed"}]
  /\ phase \in [Instances -> Phase]
  /\ reclaimed \in [Instances -> SUBSET [run : Runs, as : Ids \cup {NoOne}]]
  /\ loop \in [Instances -> [Workflows -> {"none", "scan", "claim", "run"}]]
  /\ picked \in [Instances -> [Workflows -> Runs \cup {0}]]
  /\ pending \in [Instances -> SUBSET Runs]
  /\ exec \subseteq Executions
  /\ held \in [Instances -> [Runs -> Nat]]
  /\ timers \subseteq Tickets
  /\ calls \subseteq [op : {"cancel", "resume"}, inst : Instances, run : Runs,
                      as : Ids \cup {NoOne}]
  /\ claims \in [Runs -> Nat]
  /\ crashes \in 0 .. MaxCrashes
  /\ resumes \in 0 .. MaxResumes

(* A process never executes two runs of a workflow that is not "parallel", *)
(* whatever its peers, its leases and its crashes do.                      *)
OneSerialRunPerInstance ==
  \A d, e \in exec :
    (d.inst = e.inst /\ WorkflowOf[d.run] = WorkflowOf[e.run] /\ Serial(d.run)) => d = e

(* recover() takes back the rows its own process owned because that        *)
(* process "is definitionally not executing anything" (interruptRunning):  *)
(* until it has dispatched, it has no job, no heartbeat and no API call.   *)
RecoversBeforeExecuting ==
  \A i \in Instances : phase[i] \in {"down", "interrupt", "requeue"} =>
    /\ ExecOn(i) = {} /\ pending[i] = {}
    /\ \A w \in Workflows : loop[i][w] = "none"
    /\ \A t \in timers : t.inst # i
    /\ \A c \in calls : c.inst # i

(* update() writes back a record that was read before an await, whatever   *)
(* the row says by now.  Nothing is overtaken while every such write, of a *)
(* cancel, a resume or a recovery, still finds the status it read.         *)
NothingOvertaken ==
  /\ \A c \in calls : IF c.op = "cancel" THEN status[c.run] = "queued" ELSE Resumable(c.run)
  /\ \A i \in Instances : \A c \in reclaimed[i] : status[c.run] = "interrupted"

(* No run is executed twice at the same time, on one process or on two.    *)
OneExecutionPerRun ==
  \A d, e \in exec : d.run = e.run => d = e

(* Two runs of a workflow that is not "parallel" never execute together,   *)
(* on any processes.                                                       *)
SerialAcrossInstances ==
  \A d, e \in exec :
    (WorkflowOf[d.run] = WorkflowOf[e.run] /\ Serial(d.run)) => d = e

(* An execution keeps its heartbeat and its controller until it ends, and  *)
(* no heartbeat outlives the execution it vouches for.                     *)
HeartbeatsMatchExecutions ==
  /\ timers = {Ticket(e) : e \in exec}
  /\ \A e \in exec : held[e.inst][e.run] = e.no

(* What a peer's interruptRunning relies on: an executing run is a running *)
(* row under its process's id with a live lease.                           *)
ExecutingRowIsProtected ==
  \A e \in exec : /\ status[e.run] = "running"
                  /\ owner[e.run] = IdOf[e.inst]
                  /\ lease[e.run] = "live"

(* recover() takes back only rows no process is executing.                 *)
RecoveryTakesOnlyIdleRuns ==
  [][\A r \in Runs : status[r] = "running" /\ status'[r] = "interrupted"
        => ~ \E e \in exec : e.run = r]_vars

(* "States a run never leaves" (common/types.ts:23): succeeded, failed,    *)
(* cancelled.  One process keeps it; with two, a write of a record read    *)
(* earlier does not, as run cancel_race shows.                             *)
TerminalIsFinal ==
  [][\A r \in Runs : status[r] \in Terminal => status'[r] = status[r]]_vars

(* The run table keeps the promise of RunLifecycle: interrupted is still   *)
(* taken, until recover() or resume() hands the run out again.             *)
StageOf(s) ==
  CASE s = "absent" -> "absent"
    [] s = "queued" -> "waiting"
    [] s \in {"running", "interrupted"} -> "taken"
    [] s = "paused" -> "parked"
    [] OTHER -> "done"

Lifecycle == INSTANCE RunLifecycle
  WITH stage <- [r \in Runs |-> StageOf(status[r])],
       working <- [r \in Runs |-> \E e \in exec : e.run = r]

ImplementsLifecycle == Lifecycle!Spec

(* A queued run is eventually claimed or cancelled.                        *)
QueuedRunsStart ==
  \A r \in Runs : status[r] = "queued" ~> status[r] # "queued"

(* A row left "running" by a process that died is eventually taken back.   *)
AbandonedRunsRecover ==
  \A r \in Runs :
    (status[r] = "running" /\ ~ \E e \in exec : e.run = r)
      ~> (status[r] # "running" \/ \E e \in exec : e.run = r)
=============================================================================
