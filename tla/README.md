# Foxschema in TLA+

A verification project for the parts of foxschema in which order matters: who
executes a workflow run, what a run releases next, how far a source may move its
checkpoint, what the clock admits, who may open a connection and who may change a
schema. The modules translate `src/`; the proofs are checked by TLAPS, the runs by TLC.

    tlc -config MCRunScheduler_interrupted.cfg MCRunScheduler.tla
    tlapm RunScheduler_proofs.tla

Paths below are relative to `src/packages/workflow-engine/src/` unless they
begin with another directory of `src/`.

## 1. The system

Foxschema compares and migrates database schemas, has an SQL editor, and runs
*workflows*: graphs of pipelines that move rows between systems.

| part | state it keeps | operations | talks to |
|---|---|---|---|
| run table (`storage/index.ts`) | `workflow_runs`, `pipeline_runs`, `human_inputs`, `checkpoints` in one SQLite file | `create`, `createIfIdle`, `claimQueuedRun`, `update`, `renewLease`, `interruptRunning`, `request`, `answer`, `put`/`get` of checkpoints | every process that opens the file |
| run scheduler (`runtime/workflow.ts`, `LocalRunScheduler`) | `jobs`, `serial`, `controls`, `leases`, `RunSlots` in memory | `enqueue`, `cancel`, `resume`, `dispatchAvailable`, `recover` | run table, runner |
| processes (`apps/workflow-server/src`: `server.ts`, `worker.ts`, `scheduler.ts`) | instance id, timers | boot (recover), serve, poll, die | run scheduler |
| workflow runner (`WorkflowRunner`) | records of one attempt, the `paused` set | `run`, `executePhase`, `executePipeline` | executor, run table |
| pipeline executor (`runtime/executor.ts`) | in-flight window, failure counts | `runSource`, `dispatch`, `withRetry`, `saveCheckpoint` | pipes, checkpoints |
| pipes (`pipes/`) | the reader's place in a file, open batches | `read`, `transform`, `write` | outside systems |
| sub-workflows (`runtime/workflow-service.ts`) | none | `call`: enqueue a child and poll until it is over | run scheduler |
| cron and poll (`runtime/scheduler/`) | `trigger_schedules` rows: `nextFireAt`, `seenKeys` | `tick`, `recover` | run scheduler |
| compiler (`compiler/`) | none | `topoPlan`, cycle checks | definitions |
| workflow server routes (`apps/workflow-server/src/routes`) | none | save, run, cancel, answer, resume | run scheduler, stores |
| circuit breaker, pool cache, connection factory (`packages/db/src/cores`) | circuits; pools and pending creates | `run`; `getOrCreate`, `clear`; `create`, `closeAll` | drivers |
| migration execution (`packages/db/src/modules`) and its routes (`packages/server/src/features`) | one connection's transaction; captured versions, the ledger | atomic and continue-on-error execution; revert, force-migrate | drivers, guards |
| target locks, idempotency (`packages/server/src/platform/guards`) | locks; answers by key | `acquire`/`release`; replay | route handlers |
| worker pool (`packages/server/src/features/import-process`) | active count, queue | `run`, cancel, time out | threads |
| schema diff and SQL (`packages/sql`), features, web, CLI | mostly none | pure functions, requests, user interface | everything above |

How the engine's parts interact: a route, a cron tick, a poll or a running pipe
calls `enqueue`, which inserts a *queued* row. A job of some process claims the
row with one conditional `UPDATE`, holds a lease on it with a timer, and lets the
runner execute it. The runner releases pipelines in waves; each is executed by
the executor, whose sources read batches and push them through transforms to
sinks. Rows of `workflow_runs`, `pipeline_runs` and `checkpoints` are all that
survives a process, and all that two processes share.

What is hard here, and the property each part must have:

* **Run scheduler.** Several processes share rows and nothing else. Every
  `await` is a place where a peer, a cancel or a resume gets in; leases can be
  late; processes die and restart. *A run is executed by one process at a time; a
  serial workflow by one execution at a time; recovery takes only what nobody
  executes; queued runs are executed; a finished run stays finished, which one process
  keeps and two do not.*
* **Workflow runner.** Gates, pauses, aborts and crashes make a run take several
  attempts over the same records. *What runs was released, what was skipped was
  refused, successes are kept, attempts end, a parked run has something to redo.*
* **Executor.** Batches travel concurrently and a retry or a restart resumes
  from the checkpoint. *The checkpoint never covers a row that was not delivered,
  and a source that reports success delivered everything.*
* **Sub-workflows.** A parent occupies a slot while it waits. *No deadlock.*
* **Cron and poll.** At-least-once admission over crashes, overlapping ticks, late
  ticks, refusals and workflows that are saved meanwhile. *No occurrence is skipped,
  only what was offered is remembered, and only a lost poll runs an item twice.*
* **Circuit breaker and pool cache.** Calls settle after the period they were admitted
  in, and pools are created, evicted and cleared across awaits. *One trial at a time,
  no pool leaked or handed out ended, one creation per key, no target locked out.*
* **Migrations.** A handler outlives its lock, a socket closes before the reply, a
  commit's answer is lost. *One writer per target, one execution per key, true
  reports, plans for the schema that is there.*
* **Worker pool.** A freed slot is handed to a task that may be gone. *No slot lost.*

`PROJECT.json` lists every component, modelled or not, and every hazard with its
line.

## 2. Plan

In this order, the most important behaviour first:

1. `RunLifecycle` (abstract) and `RunScheduler` - done, all safety properties and the
   refinement proved
2. `WorkflowRunner` - done, all safety properties proved
3. `SourceWindow` - done, all safety properties proved
4. `CircuitBreaker`, `PoolCache` and their composition `Connections` - done, proved
5. `MigrationRequests`: idempotency guard, target lock, execution, revert and
   force-migrate in one module, because the properties are about all of them - done, proved
6. `TriggerTicks`: cron and poll over `trigger_schedules` - done, all safety
   properties proved
7. `SubWorkflows`: parents, children and `RunSlots`; when a tree of runs can end
8. `WorkerPool`: the hand-over of a freed slot to a queued, possibly cancelled task
9. `TopoPlan`: `compiler/plan.ts` against a reference definition of waves
10. The batched copies of `data-migrate`; workflow saves, where the check for a webhook
    path and the write are two steps (`apps/workflow-server/src/routes/workflows.ts:67`);
    rate limits

Theorems to add: the same with cancels, of running rows only or in the process that owns
the queue, so that the condition of the scheduler's theorems follows from how it is deployed; with every new module, its
safety properties.

Runs are few and each asks its own question: a new module takes the place of a run that
others have made redundant.

## 3. Modules

### RunScheduler, RunLifecycle

`RunScheduler` is `SqliteRunStore` and the `LocalRunScheduler` of every process.

| variable | code |
|---|---|
| `status`, `owner`, `lease` | columns `status`, `instance_id`, `lease_expires_at` |
| `loop`, `picked`, `pending` | the `serial` map and the jobs of `startSerial` / `startRun`: reading, waiting for a slot, running |
| `exec` | calls of `WorkflowRunner.run` in progress, with the record they read |
| `held`, `timers` | `controls` and `leases` maps; the intervals that tick |
| `calls` | `cancel` and `resume` between their read and their write |
| `phase`, `reclaimed` | where `recover()` is, and the rows it has still to write |

| action | code |
|---|---|
| `Enqueue` | `enqueueLocked`, `createIfIdle` for `onOverlap: skip`, `startRun`/`startSerial` |
| `Poll` | `worker.ts`: `dispatchAvailable` |
| `Scan`, `ClaimNext`, `ClaimParallel` | `startSerial`, `runControlled`, `claimQueuedRun`, `holdLease` |
| `Load`, `Begin`, `Finish` | the first read, the write of `running` and the last write of `WorkflowRunner.run`; `runControlled`'s `finally` |
| `Renew`, `Lapse` | `renewLease`; the clock passing `lease_expires_at` |
| `Cancel`, `CancelWrite`, `Resume`, `ResumeWrite` | `cancel`, `resume` |
| `Crash`, `Boot`, `InterruptRunning`, `Requeue`, `DispatchRecovered`, `Recovered` | process death; `server.ts`, `worker.ts`, `scheduler.ts`; `recover()` |

The grain: a store call is one synchronous SQL statement, so it is one step, and
the code between two awaits belongs to it. `interruptRunning`'s `UPDATE` and
`SELECT` are one step, because no `await` is between them and a second process
that slips in between would only see rows already marked. Within a process Node
runs all continuations before the next timer or request (`Quiet`), which is what
keeps two requests of one process from interleaving inside a chain of store calls;
*different* processes interleave everywhere. Time is abstracted to what the code
asks of it: whether a lease has passed. A free slot goes to any waiter, where
`RunSlots` serves them in order of arrival. `Enqueue` omits what only refuses:
idempotency keys, conditions, the engine's enabled/draining/disabled states. A
graceful shutdown is a `Crash` that happens at a convenient moment.

`NothingOvertaken` names a condition on the interleaving, not a property of the code:
`cancel()`, `resume()` and `recover()` read a row, await, and write the whole record back
with an `UPDATE` by id (`storage/index.ts`, `update`), and while it holds every such
write that is still to come finds the status that was read. The code does not ensure it
across processes; section 4 shows a run where it fails and section 5 says what follows
while it holds, and where it always does.

`RunLifecycle` is the abstract specification: a run is waiting, taken, parked or
done, worked on by at most one execution, handed out again only when nobody works
on it. `RunScheduler` states the refinement mapping (`Lifecycle`) and
`ImplementsLifecycle` checks it.

### WorkflowRunner

One run over all its attempts: `deps` (the snapshot's completion edges), `table`
(`pipeline_runs`), `question` (`human_inputs`), `parked` (the runner's in-memory
`paused` set), `aborted` (the `AbortSignal`). `Begin` is the reset of records at the
head of `run`; `Wave` one turn of `executePhase`, which decides all ready pipelines
before any of them runs; `Settle` and `Ask` the ways `executePipeline` ends;
`StopAtBarrier`, `NoProgress`, `PhaseThrows` and `End` the ways an attempt ends;
`Cancel`, `Answer`, `Resume` the API; `Crash` the death of the process, after which
`interruptRunning` has marked the run. A gate expression is its value: open, closed
or broken (it throws). One attempt at a time is an assumption of this module and the
subject of `RunScheduler`.

The workflow is chosen in `Init`: `Shapes` names families of graphs by the pairs of
pipelines that may have an edge, the pipelines that ask a person, and the completions
and gates in use; a behaviour is about one graph of one family.

### SourceWindow

One root of a pipeline: `csv.ts` cuts rows into data and reject batches, and
`runSource` sends them. `pos`, `records`, `rejects` are the reader's locals, `window`
is `inFlight` with the state of every branch of every batch, `cursor` the stored
checkpoint, `landed` and `dropped` what each target wrote or its `onError` skipped,
`strays` the writes nobody awaits any more: the loser of `withDeadline`'s race, and
the siblings of a failed branch in `send`'s `Promise.all`.

`ReadGood`, `ReadBad`, `FlushRejects`, `FlushRecords`, `ReadDone` are `next()`;
`DrainHead`, `HeadFails`, `Succeed` the window; `Rest` with `Retry` and `GiveUp` the
catch block; `Land`, `WriteFails`, `WriteTimesOut` the dispatch and `withRetry`;
`StrayEnds`, `Abort`, `Crash`, `Restart` the environment.

Simplifications: a branch is one target with the transforms on its way; a write that
fails has written nothing (the properties are lower bounds on what landed); the wait
before a retry is part of `Retry`; an abort seen at dispatch is one of the outcomes of
`WriteFails`; whether a failure is transient, and what a connector's `onError`
answers, is a choice; two stray writes of the same rows by one attempt to one target
are one member of `strays`; the unfinished writes of a dead process are dropped.

### CircuitBreaker, PoolCache, Connections

`ConnectionFactory.create` runs a driver adapter's `acquire` under the circuit of its
target; adapters that pool keep a `BoundedPoolCache`. `Connections` composes the two:
its steps are a step of one part, or of both where the code calls through in one go
(`run` calls `acquire`; `acquire`'s end is the end of `fn`).

`CircuitBreaker` is one circuit and every call of `run` under it. `circuit` is the
entry of `circuits`, with `cooling` for "`openUntil` is to come", the one thing the code
asks of time. `mode` says what a call's closure holds: nothing (`call`), the trial slot
of this half-open period (`trial`), of an earlier one of the same circuit object
(`overrun`), or of an object deleted since (`orphan`), whose release frees nothing.
`Refused`, `Admit`, `Finish` are `run`; `Ripen` is `stateOf`, called by `run` and
`snapshot`; `Forget` stands for `reset`, `resetAll` and the eviction from a full map.

`PoolCache` is one cache, `entries` in the order of the `Map`, `pending` the promises in
flight, `caller` where each call of `acquire` is, `open` how many pools of a key were
created and not given to `dispose`. Each action is the code between two awaits: `Begin`,
`Expire`, `Hit`, `Join`, `Create`, `CreateThrows`, `CreateFull`, `EvictMore`, `Made`,
`CreationFails` are `getOrCreate`; `Leave` the connect that follows it; `Clear` is
`clear` from `closeAll`. Time is left out: any of the least recently used entries may be
past its idle TTL. That the cache may hold more than `maxPools` pools for a moment (two
creations pass the check together) is the code's behaviour and the model's; no property
promises otherwise.

### MigrationRequests

The requests that change one target's schema, from arrival to reply.

| variable | code |
|---|---|
| `entry`, `forgotten` | the `entries` map of `idempotency.ts`; keys swept by age or number |
| `answer`, `lapsed` | what a client got; sockets that closed before the reply was complete |
| `lock`, `overdue` | the record of `targetLocks`; handlers that outlived `STALE_AFTER_MS` |
| `result`, `applied` | the last event of each step; the steps that are in the database for good |
| `status` | `finalStatus`, as the stream, the history entry and the ledger have it |
| `captured`, `fresh` | whether the newest captured version is the live schema; plans made from the schema that is still there |

`Arrive`, `ArriveFirst`, `ArriveAgain`, `Settle`, `Disconnect`, `Sweep` are the guard;
`TakeLock`, `Conflict`, `Release`, `DropStale`, `Age` the lock; `Prepare`, `StepRuns`,
`StepFails`, `PlanFails`, `Commit`, `CommitFails`, `CloseFails`, `Complete` the two
execution modes of `migration.module.ts` on an engine whose DDL rolls back or does not,
with an adapter that reports a failed ROLLBACK (MySQL, PostgreSQL) or ignores it (SQL
Server, SQLite, DuckDB, Oracle; `Unheard`);
`EndStream`, `Flush` the end of the stream; `PlanRevert`, `PlanForce`, `Reply` the
history routes. A step is a number, an object its name (`NameOf`), a schema whether it
is the captured one. `input` is what the requests ask for and of which engine.

### TriggerTicks

`CronCoordinator` and `PollCoordinator` for one workflow, in any number of processes and
overlapping ticks. `rows` is `trigger_schedules` (`nextFireAt`, fingerprint, `seenKeys`),
`edition` the fingerprint of the configuration stored now, `tick` what each tick has read
and where it is, `inbox` what the endpoint answers, `runs` the idempotency keys of the rows
in `workflow_runs`: an occurrence, or the *list* of the items, since `pollInvocation` hashes
them in order. `primed`, `offered`, `since` and `lost` are history: what a first poll took
for known, what `enqueue` was called with, the occurrence from which the schedule counts,
and the deliveries that have a run and whose poll threw or died before it wrote its cursor.

`CronSkips`, `CronStarts`, `CronIsDue`, `Reap` are `process` and the reaper; `PollRead`,
`PollGet`, `PollFetch`, `PollRegets` are `tick`, `pollOne` and `reschedule`; `PutRow` is
every write of a row (`WriteNext`, `WriteClean`, `WriteCursor`, `WriteAgain`); `Find`,
`Insert`, `EnqueueThrows` are `enqueue` as both call it; `Toggle` and `Reconfigure` a
workflow that is saved. `Throws` is any other call that throws, a write having been done or
not; `EnqueueThrows` leaves a row or not, because `events.append` and a middleware come
after the insert. Time is counted in occurrences of the cron expression, which is also the
poll interval. A refusal (conditions, a draining engine, an overlap) is `Find` returning
without a run.

### Proof and MC modules

`RunScheduler_proofs`, `WorkflowRunner_proofs`, `SourceWindow_proofs`,
`Connections_proofs`, `MigrationRequests_proofs` and `TriggerTicks_proofs` EXTEND the
module they are about; `RunExclusion_proofs` (across processes) and
`TriggerOnce_proofs` (second runs of an item) build on the first and the last. `MCRunScheduler`, `MCWorkflowRunner`, `MCSourceWindow`,
`MCMigrationRequests` and `MCTriggerTicks` name the functions and sets the
configurations bind. Definitions whose comment begins with "Mutant of" are plausible
bugs of the definition that follows; they are not part of any specification and are
used to confirm that a property can fail.

## 4. What is checked

| run | instance | shows |
|---|---|---|
| `MCRunScheduler_interrupted` | server and worker, a parallel and a serial workflow, three runs, one slot each; one crash or one manual resume, beside cancels of the parallel run; no write of an old record overtaken | one execution per run; no two executions of a serial workflow on any processes; heartbeats match executions; an executing row is `running`, its own, under a live lease; recovery takes only idle rows; `RunLifecycle` is implemented |
| `MCRunScheduler_hostile` | a server, a worker and a scheduler with one id and two run slots each, late heartbeats, a cancel, a resume and a crash | what survives even this: one serial run per process; recovery before anything else; every queued run starts or is cancelled, every abandoned row is taken back |
| `MCWorkflowRunner_attempts` | three pipelines: every acyclic graph with every kind of edge and gate (`Unattended`); the same with a first pipeline that asks (`Attended`); every graph of success edges, cycles and loops too, with two that ask (`Circular`); answers, a resume, a crash, a cancel | waves progress, what ran was released, unattended skips are refusals, upstream work is over, attempts end, finished runs are settled, parked runs have something to redo, successes are kept, no release after an abort |
| `MCSourceWindow_window` | four rows, batches of two, a window of two, two sinks and a dead-letter sink, a retry, deadlines, an abort, a crash | the checkpoint is covered and only advances, success is complete, the window keeps its size, undisturbed attempts keep rejects, the source ends |
| `Connections_connections` | two pooled callers and a direct one, two credentials of one target, a cache of one pool | one trial per period, no pool leaked or handed out ended, one creation per key, callers are admitted again and again |
| `MCMigrationRequests_migrations` | a migration, a second request with its key, a revert or force-migrate; two steps, on engines as MySQL, PostgreSQL, SQL Server and Oracle are, one handler that outlives its lock | one writer, one execution per key, true reports, fresh plans, answered duplicates |
| `MCTriggerTicks_ticks` | two cron ticks or one poll, every `catchUp` and `onFirstPoll`, three items; a save of the workflow, a call that throws and a crash | no occurrence is skipped, only offered items are remembered, an item with two runs has one from a poll that was lost between its insert and its cursor |

Five more runs each show one statement of the repository that the code does not keep:

| run | statement | what happens |
|---|---|---|
| `MCRunScheduler_two_recover` | `storage/index.ts:834` | two processes recover together: both select the interrupted row, one requeues and claims it, the other writes `queued` over the claim, and the run is executed twice |
| `MCRunScheduler_cancel_race` | `common/types.ts:23` | a server reads a queued row to cancel it, a worker claims it, `cancelled` is written over the claim, and the execution writes `running` over that |
| `MCWorkflowRunner_skipped_gate` | `runtime/workflow.ts:141` | the dependents of a pipeline waiting for a person are marked skipped in the same attempt and stay so when the answered pipeline succeeds |
| `MCSourceWindow_dead_letters` | `pipes/utility/delimited.ts:505` | a data batch checkpoints past a rejected row that is still buffered; a retry never emits it |
| `MCTriggerTicks_dropped` | `runtime/scheduler/poll.ts:148` | the engine refuses the run of a poll; its items are recorded as seen all the same and reach no run |

**Bounds.**

* *Scheduler.* Two processes are needed for every race and three give each role; three
  runs of two workflows let one run occupy the slot while two of another workflow wait in
  order. `MaxCrashes` and `MaxResumes` bound the environment only. The constraint
  `OneInterruption` of run `interrupted` keeps to one crash or one resume and to
  `NothingOvertaken`: a resume that meets the recovery of its run, or a cancel that meets
  the claim, writes an old record over a new one as in `two_recover` and `cancel_race`, and
  `ExecutingRowIsProtected` fails with it. The theorems need only `NothingOvertaken`, for
  any number of crashes, cancels and resumes. `hostile` has them all without a constraint.
* *Runner.* Three pipelines give every shape a wave can have: chain, fork, join,
  independent, and cycles of one, two and three.
* *Source.* Four rows with batches of two give a full and a flushed batch of either kind,
  with a reject before the data and between them; a window of two is the smallest that
  can land out of order.
* *Connections.* `MaxPools` is 1, so that every second key evicts; `FailureThreshold` 2
  tells a counter from a flag; `SuccessThreshold` 1 is `dbCircuitBreaker`'s. Three calls
  are a trial, a late call of an earlier period, and one that is refused.
* *Migrations.* Two steps are the fewest of which one can fail after another landed;
  three requests the fewest in which a duplicate and a competitor meet a writer; one
  overdue handler (`MaxStale`) the fewest that can release another's lock.
* *Ticks.* Two cron ticks overlap, and stand for two processes. `DueCap` is 2 for the
  code's 100 and `MaxTime` 3 so that more is due than a tick looks at; `MaxItems` 2 of
  three items leaves one over, `SeenLimit` 3 holds them. One save, one call that throws and
  one crash: a poll can lose a delivery, and a second one the same items again. The two
  cron ticks and the items are interchangeable, which is the symmetry.

`CHECK_DEADLOCK` is off except in `connections`: a finished installation, run, source,
set of requests or clock stops.

**Fairness.** `RunScheduler`: the event loop of a live process runs its continuations
and timers, executions end, a lapsed lease lapses, and a dead process is restarted
(what a service manager does). Nothing makes anybody enqueue, cancel, resume or
crash. `WorkflowRunner`: the loop of a live attempt goes on and its pipelines return;
people, crashes and errors owe nothing. `SourceWindow`: the event loop takes some step
of the source or a deadline passes; no target is ever assumed to answer. `Connections`:
pending callbacks run and connects end by their time-outs, the clock advances, and
somebody keeps asking; `reset` and `closeAll` owe nothing. `MigrationRequests`: some
handler goes on, because databases answer or time out; sockets and clocks owe nothing.
`TriggerTicks` has no fairness and no liveness property: its clock is bounded.

**Where a property is deliberately restricted.** Each restriction is a place where the
code gives no more.

* `OneExecutionPerRun` and the other properties of run `interrupted` hold with punctual
  heartbeats and own ids, while no write is overtaken. An owner whose lease lapsed still
  writes its final status; two workers with the default id `worker` take back each
  other's rows.
* `TerminalIsFinal`, "States a run never leaves" (`common/types.ts:23`), is no property of
  several processes: run `cancel_race` violates it without a crash or a late heartbeat. It
  is proved for one process, and for several of which one at a time recovers or resumes and
  none cancels a queued run.
* `UpstreamIsOver` and `RanMeansReleased` leave out `always` edges from a pipeline that
  asks: they are released while it is paused, before it has an outcome.
* `UnattendedSkipsAreRefused` speaks of workflows in which nobody is asked; with a
  question it is `SkippedMeansRefused`, which fails in run `skipped_gate`.
* `UndisturbedKeepsRejects` speaks of an attempt that neither fails nor is resumed.
* `SecondRunsWereLost` is what is left of "creates a run only for items it has not seen
  before" (`runtime/scheduler/poll.ts:50`). A poll that throws or dies after the insert
  leaves its items unseen, and when one more item arrives the next poll hands them out in
  another list, under another key: a second run. The property says that this is the only
  way, for a poll that works alone and is not saved over, whose limit holds all items.
* `OneTrialPerPeriod` needs `SuccessThreshold = 1`, where every end in half-open ends
  the period. With more, a call of an earlier period that succeeds late gives the slot
  of the running trial free.
* `ReportIsTrue` speaks of the last step of each object: the route keeps one result per
  object name, and a later success hides an earlier failure of the same object. And it lets
  one false report pass: where the adapter ignores a failed ROLLBACK
  (`packages/db/src/providers/sqlServer/sqlserver.adapter.ts:107`) and the answer to COMMIT
  was lost, `migration.module.ts:126` claims a clean undo of a plan that is applied
  (`CommitInDoubt`). It is then the whole plan; a part of it is never left behind such a
  report.
* `OneWriter` leaves out handlers that outlived the stale timeout: for them the lock is
  gone while they still work.

Disagreements met on the way that have no run of their own: the serial job of a process
ends when one claim fails, and without a worker's poll the runs behind it stay queued
(`runtime/workflow.ts:867`, `897`); a retry of a source may overlap the writes of the
attempt before it (`runtime/executor.ts:444`, `531`); a `create()` that throws before it
returns a promise leaves a rejected promise in `pending`, and its key fails until the
process ends (`packages/db/src/cores/pool-cache.ts:106`; action `CreateThrows`).

## 5. What is proved

For every value of the constants (any number of processes, runs, pipelines, rows,
targets, callers, requests, ticks and crashes), from the named assumptions on the
constants:

| module | theorem | statement | argument |
|---|---|---|---|
| `RunScheduler_proofs` | `TypeCorrect` | `[]TypeOK` | with `PickedIsOwn`: a loop about to claim picked a run of its own workflow |
| | `SerialOnEachInstance` | `[]OneSerialRunPerInstance` | inductive with `SerialRunHoldsLoop` (a serial execution keeps its job in "run", so the job cannot read the next one) and `PendingIsParallel` |
| | `RecoveryIsFirst` | `[]RecoversBeforeExecuting` | inductive over `TypeOK`: only `DispatchRecovered` starts jobs, and it leaves the recovery |
| `RunExclusion_proofs` | `RunsExecuteOnce`, `HeartbeatsAreOfExecutions` | `[]OneExecutionPerRun`, `[]HeartbeatsMatchExecutions` | below |
| | `ExecutingRowsAreProtected`, `SerialEverywhere` | `[]ExecutingRowIsProtected`, `[]SerialAcrossInstances` | the claim's lease test sees every execution, because its lease is live |
| | `RecoveryTakesIdleRuns` | `RecoveryTakesOnlyIdleRuns` | `RowMoves`: the moves a row can make in one step |
| | `LifecycleIsImplemented` | `ImplementsLifecycle` | one lemma per kind of step of `RunLifecycle` |
| | `OneProcessOvertakesNothing`, `OneProcessKeepsThePromise` | `[]NothingOvertaken` in a single process, and so the three promises without a condition | `CallersAreStill`: while a call is between read and write no job of its process moves |
| | `OnlyRivalsOvertake` | without cancels `[]NothingOvertaken`, if no two processes hand out one run together | a claim needs `queued`, so only another hand-out moves the row |
| | `OneAtATimeKeepsThePromise` | the promises for several processes, if one at a time is in `recover()` or serves a resume | from `OnlyRivalsOvertake`: what a recovery has to hand out it holds in phase "requeue" only |
| `WorkflowRunner_proofs` | `TypeCorrect`, `FinishedIsSettled`, `ParkedIsWaiting` | `[]TypeOK`, `[]FinishedRunsAreSettled`, `[]ParkedRunHasPausedPipeline` | `IInv` adds: live iff running, records exist while live, a parked attempt has a paused pipeline with a question |
| | `SuccessSurvives`, `AbortStopsRelease` | `SuccessIsKept`, `NothingStartsAfterAbort` | action by action from `IInv` |
| | `RunsAreReleased`, `UpstreamComesFirst`, `SkipsAreFinal` | `[]RanMeansReleased`, `[]UpstreamIsOver`, `[]UnattendedSkipsAreRefused` | a second invariant: what is released has its upstreams behind it, no later step touches a final status, and only pipelines that ask pause |
| | `WavesGoOn` | `[]WavesProgress` | the least pending pipeline of a graph whose edges go upward is ready |
| `SourceWindow_proofs` | `TypeCorrect`, `CheckpointCovers`, `SuccessDelivers`, `CursorAdvances` | `[]TypeOK`, `[]CheckpointIsCovered`, `[]SuccessIsComplete`, `CursorOnlyAdvances` | below |
| | `UndisturbedSourceKeepsRejects` | `[]UndisturbedKeepsRejects` | `RejectInv`: a reject the reader passed is handled, in the window, or in the batch of rejects, as long as nothing failed or died |
| `Connections_proofs` | `HalfOpenAdmitsOneTrial` | `[]OneTrialPerPeriod`, for `SuccessThreshold = 1` | while the period lasts its trial holds the slot, and any call that ends ends the period |
| | `PoolsAreNeverLeaked`, `CreationsAreAlwaysShared` | `[]PoolsAreCached`, `[]CreationsAreShared` | `CacheInv`: entries are distinct, open pools are the cached ones, and `pending` is true of every key (`PromisesAreTrue`) |
| | `DuplicateCreateIsDead` | a creation never finds a winner | from `CacheInv`: nobody stores a pool for a key that somebody creates |
| | `ImplementsParts` | `Spec => BreakerSpec /\ CacheSpec` | each step of the composition is a step or a stutter of each part, so their theorems hold of it |
| `MigrationRequests_proofs` | `TypeCorrect` | `[]TypeOK` | action by action, with lemmas for `Settle`, `Fail` and `Land` |
| | `OneWriterAtATime` | `[]OneWriter` | `WriterHoldsLock`: a handler within its timeout is the one the record names |
| | `PlansStayFresh` | `[]PlansAreFresh` | from `WriterHoldsLock`: whoever lands steps holds the lock, or is overdue |
| | `ReportsAreTrue` | `[]ReportIsTrue` | `Record`: what a step's last event says of the database at each stage |
| | `OneRunPerKey` | `[]KeyRunsOnce` | `EntriesMatch`: the owner of a key's entry is the one request that got past the guard with it |
| `TriggerTicks_proofs` | `NoOccurrenceIsSkipped`, `RememberedWasOffered` | `[]NothingSkipped`, `[]SeenWasOffered` | below |
| `TriggerOnce_proofs` | `PollRunsItemsOnce` | `[]SecondRunsWereLost` | below |

The scheduler's properties across processes hang together, so `ExecInv` proves them
together: a run has one execution; each execution has its heartbeat and no heartbeat is
without one; the row of an execution is `running` and owned by its process (`RowsAreOwned`);
its lease is live (`LeasesAreLive`); the record it will write names its process
(`RecordsAreOwn`). None of them is inductive alone. A second claim is impossible because
the row is `running`; it stays so because only its own process, by its id, or a lapsed
lease lets `recover()` take it; the lease is live because the heartbeat is there; and the
last write of an execution leaves the row right because no one else has one. The
hypotheses are what the code counts on and does not enforce:

* `DistinctIds`: two workers without `FOXFLOW_INSTANCE_ID` are both `worker`, and one
  takes the other's rows back. `Punctual`: a heartbeat later than the lease loses the row
  (a blocked event loop). In a single process (`OneProcess`) neither is needed for
  anything but the leases themselves.
* `[]NothingOvertaken` is an assumption on the behaviour and is violated in run
  `two_recover` and `cancel_race`. `OneProcessOvertakesNothing` shows that a single process, whatever its
  crashes, cancels and resumes, meets it; `OnlyRivalsOvertake` that without cancels of
  queued runs only two processes that recover or resume the same run together violate it,
  so that processes started one after another keep the promise
  (`OneAtATimeKeepsThePromise`).
  An `UPDATE` with `AND status = ?` in these three places would refuse such a write.

The inductive invariant of `SourceWindow` is why the window may be drained only from
its head. While the source is driven, every valid row up to the reader's place is
behind the checkpoint, in a batch of the window, or in the batch being cut
(`ReaderCovers`); every valid row up to the cursor of a batch is behind the checkpoint
or in this or an earlier batch (`BatchesCover`); cursors ascend along the window and
start above the checkpoint (`CursorsAscend`); a branch that says "done" or "skipped"
landed or dropped its rows (`BranchesAreTrue`). Delivering the head then extends what
is covered exactly to the head's cursor. `Stages` says what each way of ending leaves.

The inductive invariant of `TriggerTicks` is about what a tick carries while others
write the row it read (`TicksFit`): what a cron tick still has to fire is an end of what
it set out to fire, whose beginning was offered and which starts where everything before
it was offered; what a poll will write back was offered, will be offered by this tick
first, or was primed. So a late tick may write an old `nextFireAt`, but never one that
skips, and never remembers what nobody sent.

`SecondRunsWereLost` is not about one list of keys but about three copies of it: the row,
what the poll read, and what it is about to write. The invariant of `TriggerOnce_proofs`
(`Kept`) says that for a lone poll they agree: the row it read is the row that is there
(`InStep`: no one edits, so no fingerprint differs, and no tick reaps a row whose trigger is
enabled, `RowStays`); what it fires repeats nothing and is not in the row; a run that is not
lost has its items in the row, or is the one the poll is about to remember (`RunsKnown`);
and two such runs share no item (`RunsApart`). Keys are distinct, so they are never more
than the items, and `boundedSeen` drops none when its limit holds them all
(`DistinctIsKept`, by counting). The history `lost` is exactly what a throw or a death
between the insert and the write takes from this argument.

TLC checked the invariants before they were proved, and the scheduler's theorems on
installations no run keeps: one process with late heartbeats, two crashes and resumes and
cancels of all runs; two servers with two of each under `NoRivalReturns`. Every safety
property and the refinement a run checks is now a theorem. Only model-checked is liveness
(`QueuedRunsStart`, `AbandonedRunsRecover`, `AttemptsEnd`, `SourceEnds`,
`AdmissionsContinue`, `DuplicatesAreAnswered`), which TLAPS cannot prove here. Only proved,
not run: `TypeOK` of `RunScheduler`, `WorkflowRunner` and `MigrationRequests`, and
`DuplicateCreateIsDead`.

## 6. What is not modelled

See `PROJECT.json`, `components`. The schema and SQL packages are pure functions whose
results are texts; drivers, mail, HTTP and the file system are input and output; the
frontend and the command line are user interfaces over the same modules; each is large,
and together they are most of the repository. Sub-workflows, the worker pool, the
compiler's plan and the copies of `data-migrate` are in the plan.

Inside the modelled parts:

* engine: idempotency keys and conditions of admission in `RunScheduler` (they appear as
  refusals in `TriggerTicks`), logs and pipe records, store calls that throw in the
  scheduler, sibling pipelines that outlive an attempt which failed in the store, sources
  other than CSV, checkpoints of partitions other than "0";
* cron and poll: `executionType: http`, whose detached call keeps no state; whether ticks
  go on for ever;
* connections: queries over a connection, adapters without a pool cache, wall-clock time;
* migrations: skipped steps, what a statement is, the pruning of the history, the
  ledger's files, `data-migrate` (it takes no lock), and a server that dies with a
  migration under way, which leaves neither locks nor entries because both are in memory.
