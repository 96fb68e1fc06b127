-------------------------- MODULE MigrationRequests --------------------------
(***************************************************************************)
(* The requests that change one target's schema: POST /migration/execute   *)
(* (atomic or continueOnError, behind the idempotency guard) and the       *)
(* history page's revert and force-migrate.  They share the target's lock  *)
(* and MigrationModule.execute; each handler is cut at its awaits.         *)
(***************************************************************************)
EXTENDS Integers, FiniteSets

CONSTANTS
  Requests,   \* the requests that may arrive
  IdemKeys,   \* Idempotency-Key values
  KeyOf,      \* Requests -> their key, or NoKey
  NoKey,
  NSteps,     \* steps of a plan
  NameOf,     \* 1 .. NSteps -> objectName
  Inputs,     \* what the requests ask for, and of which engine; see Input
  MaxStale    \* bound: requests that outlive the lock's stale timeout

Steps == 1 .. NSteps
NoOne == "nobody"
(* kind: "atomic" and "continue" are /migration/execute; other: requests    *)
(* whose body is not the one their key was first used for; transactional:  *)
(* dialectSupportsTransactionalDdlRollback of the target; silent: its       *)
(* adapter's rollbackTransaction ignores every error (SQL Server, SQLite).  *)
Input ==
  [kind : [Requests -> {"atomic", "continue", "revert", "force"}],
   other : SUBSET Requests, transactional : BOOLEAN, silent : BOOLEAN]

ASSUME RequestAssumption ==
  /\ KeyOf \in [Requests -> IdemKeys \cup {NoKey}] /\ NoKey \notin IdemKeys
  /\ NoOne \notin Requests
ASSUME PlanAssumption == NSteps \in Nat \ {0} /\ DOMAIN NameOf = Steps /\ MaxStale \in Nat
ASSUME InputAssumption ==
  /\ Inputs \subseteq Input
  /\ \A i \in Inputs, r \in Requests : i.kind[r] \in {"revert", "force"} => KeyOf[r] = NoKey

VARIABLES
  input,      \* the member of Inputs this behaviour is about
  stage,      \* Requests -> where the handler is
  answer,     \* Requests -> what the client got
  entry,      \* IdemKeys -> the guard's entry: its kind and whose it is
  lock,       \* held: the request whose record it is, or NoOne
  overdue,    \* requests that held the lock for STALE_AFTER_MS
  result,     \* Requests -> Steps -> status of its last event
  applied,    \* Requests -> steps that are in the database for good
  status,     \* Requests -> finalStatus
  captured,   \* the newest captured version is the live schema
  fresh,      \* requests planned from the schema that is still there
  lapsed,     \* requests whose socket closed before the reply was complete
  forgotten   \* keys whose reply was swept (ttlMs or maxEntries)

guard == <<entry, answer, lapsed, forgotten>>
locks == <<lock, overdue>>
database == <<result, applied, captured, fresh>>
vars == <<input, stage, answer, entry, lock, overdue, result, applied, status, captured,
          fresh, lapsed, forgotten>>

Kind(r) == input.kind[r]
Streamed == {r \in Requests : Kind(r) \in {"atomic", "continue"}}
Transactional == input.transactional

Stage == {"new", "waiting", "resolving", "preparing", "executing", "finishing",
          "flushing", "over"}
Status == {"none", "SUCCESS", "PARTIAL_SUCCESS", "ROLLED_BACK", "FAILED"}
NoEntry == [kind |-> "none", owner |-> NoOne]

TypeOK ==
  /\ input \in Inputs
  /\ stage \in [Requests -> Stage]
  /\ answer \in [Requests -> {"none", "own", "replay", "ended", "mismatch"}]
  /\ entry \in [IdemKeys -> [kind : {"none", "running", "done"},
                             owner : Requests \cup {NoOne}]]
  /\ lock \in Requests \cup {NoOne} /\ overdue \subseteq Requests
  /\ result \in [Requests -> [Steps -> {"todo", "SUCCESS", "FAILED"}]]
  /\ applied \in [Requests -> SUBSET Steps]
  /\ status \in [Requests -> Status]
  /\ captured \in BOOLEAN /\ fresh \subseteq Requests
  /\ lapsed \subseteq Requests /\ forgotten \subseteq IdemKeys

Init ==
  /\ input \in Inputs
  /\ stage = [r \in Requests |-> "new"] /\ answer = [r \in Requests |-> "none"]
  /\ entry = [k \in IdemKeys |-> NoEntry]
  /\ lock = NoOne /\ overdue = {}
  /\ result = [r \in Requests |-> [s \in Steps |-> "todo"]]
  /\ applied = [r \in Requests |-> {}]
  /\ status = [r \in Requests |-> "none"]
  /\ captured = TRUE /\ fresh = {} /\ lapsed = {} /\ forgotten = {}

GoTo(r, s) == stage' = [stage EXCEPT ![r] = s]
Keyed(r) == KeyOf[r] # NoKey
(* The duplicates held back behind r's key.                                *)
Waiters(r) == {d \in Requests : stage[d] = "waiting" /\ KeyOf[d] = KeyOf[r]}

-----------------------------------------------------------------------------
(* idempotency(), when the request arrives.                                *)
Arrive(r) ==
  /\ stage[r] = "new" /\ ~Keyed(r)
  /\ GoTo(r, "resolving")
  /\ UNCHANGED <<input, guard, locks, database, status>>

ArriveFirst(r) ==
  /\ stage[r] = "new" /\ Keyed(r) /\ entry[KeyOf[r]].kind = "none"
  /\ entry' = [entry EXCEPT ![KeyOf[r]] = [kind |-> "running", owner |-> r]]
  /\ GoTo(r, "resolving")
  /\ UNCHANGED <<input, answer, lapsed, forgotten, locks, database, status>>

(* The same body gives the same fingerprint.                               *)
SameBody(r) == (r \in input.other) = (entry[KeyOf[r]].owner \in input.other)

ArriveAgain(r) ==
  /\ stage[r] = "new" /\ Keyed(r) /\ entry[KeyOf[r]].kind # "none"
  /\ IF SameBody(r) /\ entry[KeyOf[r]].kind = "running"
     THEN GoTo(r, "waiting") /\ UNCHANGED answer
     ELSE /\ GoTo(r, "over")
          /\ answer' = [answer EXCEPT ![r] = IF SameBody(r) THEN "replay" ELSE "mismatch"]
  /\ UNCHANGED <<input, entry, lapsed, forgotten, locks, database, status>>

(* Mutant of Settle: the stream's end is not a reply, its close frees the key. *)
SettleNothing(r) ==
  /\ entry' = IF Keyed(r) THEN [entry EXCEPT ![KeyOf[r]] = NoEntry] ELSE entry
  /\ answer' = [d \in Requests |-> IF d = r THEN "own"
                                   ELSE IF d \in Waiters(r) /\ Keyed(r) THEN "ended"
                                   ELSE answer[d]]
  /\ stage' = [d \in Requests |-> IF d = r \/ (Keyed(r) /\ d \in Waiters(r)) THEN "over"
                                  ELSE stage[d]]

(* The reply is complete: it is remembered and the duplicates get it.      *)
Settle(r) ==
  IF Keyed(r) /\ r \notin lapsed
  THEN /\ entry' = [entry EXCEPT ![KeyOf[r]] = [kind |-> "done", owner |-> r]]
       /\ answer' = [d \in Requests |-> IF d = r THEN "own"
                                        ELSE IF d \in Waiters(r) THEN "replay"
                                        ELSE answer[d]]
       /\ stage' = [d \in Requests |-> IF d = r \/ d \in Waiters(r) THEN "over" ELSE stage[d]]
  ELSE /\ answer' = [answer EXCEPT ![r] = IF r \in lapsed THEN "none" ELSE "own"]
       /\ GoTo(r, "over") /\ UNCHANGED entry

(* Mutant of Disconnect: the duplicates are left waiting.                  *)
DisconnectSilently(r) ==
  /\ Keyed(r) /\ r \notin lapsed
  /\ stage[r] \in {"resolving", "preparing", "executing", "finishing", "flushing"}
  /\ lapsed' = lapsed \cup {r}
  /\ entry' = [entry EXCEPT ![KeyOf[r]] = NoEntry]
  /\ stage' = [stage EXCEPT ![r] = IF @ = "flushing" THEN "over" ELSE @]
  /\ UNCHANGED <<input, answer, forgotten, locks, database, status>>

(* 'close' before the reply was complete: the key is free again, duplicates *)
(* are told so, and the handler goes on.                                   *)
Disconnect(r) ==
  /\ Keyed(r) /\ r \notin lapsed
  /\ stage[r] \in {"resolving", "preparing", "executing", "finishing", "flushing"}
  /\ lapsed' = lapsed \cup {r}
  /\ entry' = [entry EXCEPT ![KeyOf[r]] = NoEntry]
  /\ answer' = [d \in Requests |-> IF d \in Waiters(r) THEN "ended" ELSE answer[d]]
  /\ stage' = [d \in Requests |->
       IF d \in Waiters(r) \/ (d = r /\ stage[r] = "flushing") THEN "over" ELSE stage[d]]
  /\ UNCHANGED <<input, forgotten, locks, database, status>>

(* sweep() drops a completed reply.                                        *)
Sweep(k) ==
  /\ entry[k].kind = "done"
  /\ entry' = [entry EXCEPT ![k] = NoEntry] /\ forgotten' = forgotten \cup {k}
  /\ UNCHANGED <<input, stage, answer, lapsed, locks, database, status>>

-----------------------------------------------------------------------------
(* An invalid request, or one that must be committed first.                *)
Refuse(r) ==
  /\ stage[r] = "resolving" /\ Settle(r)
  /\ UNCHANGED <<input, lapsed, forgotten, locks, database, status>>

Free == lock = NoOne \/ lock \in overdue

(* targetLocks.acquire: a stale record is overwritten.                     *)
TakeLock(r) ==
  /\ stage[r] = "resolving" /\ Free
  /\ lock' = r /\ GoTo(r, "preparing")
  /\ UNCHANGED <<input, guard, overdue, database, status>>
Conflict(r) ==
  /\ stage[r] = "resolving" /\ ~Free /\ Settle(r)
  /\ UNCHANGED <<input, lapsed, forgotten, locks, database, status>>

Active(r) == stage[r] \in {"preparing", "executing", "finishing"}

(* Thirty minutes pass; active() then drops the record.                    *)
Age(r) ==
  /\ Active(r) /\ r \notin overdue /\ Cardinality(overdue) < MaxStale
  /\ overdue' = overdue \cup {r}
  /\ UNCHANGED <<input, stage, guard, lock, database, status>>
DropStale ==
  /\ lock \in overdue /\ lock' = NoOne
  /\ UNCHANGED <<input, stage, guard, overdue, database, status>>

(* Mutant of Release: whatever record is there goes.                       *)
ReleaseAny(r) == lock' = NoOne

Release(r) == lock' = IF lock = r THEN NoOne ELSE lock

(* The handler has its outcome: a stream still has to report, the others   *)
(* send their error and are done.                                          *)
Fail(r, outcome) ==
  /\ status' = [status EXCEPT ![r] = outcome]
  /\ IF r \in Streamed THEN GoTo(r, "finishing") /\ UNCHANGED <<guard, locks>>
     ELSE Settle(r) /\ Release(r) /\ UNCHANGED <<overdue, lapsed, forgotten>>

(* history.start, the snapshots, the connection and BEGIN; the baseline    *)
(* capture is best effort.                                                 *)
Prepare(r) ==
  /\ stage[r] = "preparing" /\ r \in Streamed
  /\ captured' \in {captured, TRUE} /\ GoTo(r, "executing")
  /\ UNCHANGED <<input, guard, locks, status, result, applied, fresh>>
PrepareFails(r) ==
  /\ stage[r] = "preparing"
  /\ captured' \in {captured, TRUE} /\ Fail(r, "FAILED")
  /\ UNCHANGED <<input, result, applied, fresh>>

(* Mutant of Drifted: the snapshot is taken and not looked at.             *)
DriftUnseen == FALSE

(* The snapshot before a revert found something nobody had captured.       *)
Drifted == ~captured

(* Revert plans from the newest captured version, which the snapshot it    *)
(* takes first makes the live one; it gives up when there was drift.       *)
PlanRevert(r) ==
  /\ stage[r] = "preparing" /\ Kind(r) = "revert"
  /\ captured' = TRUE
  /\ IF Drifted THEN Fail(r, "none") /\ UNCHANGED fresh
     ELSE /\ GoTo(r, "executing")
          /\ fresh' = IF captured THEN fresh \cup {r} ELSE fresh
          /\ UNCHANGED <<guard, locks, status>>
  /\ UNCHANGED <<input, result, applied>>
(* Force-migrate plans from the tables it has just read.                   *)
PlanForce(r) ==
  /\ stage[r] = "preparing" /\ Kind(r) = "force"
  /\ GoTo(r, "executing") /\ fresh' = fresh \cup {r}
  /\ UNCHANGED <<input, guard, locks, status, result, applied, captured>>

-----------------------------------------------------------------------------
(* Steps of r's plan become part of the schema: plans others made from the *)
(* old one are stale.  A writer that outlived its lock is accounted apart. *)
Land(r, steps) ==
  /\ applied' = [applied EXCEPT ![r] = @ \cup steps]
  /\ captured' = (captured /\ steps = {})
  /\ fresh' = IF r \in overdue \/ steps = {} THEN fresh ELSE fresh \cap {r}

Todo(r) == {s \in Steps : result[r][s] = "todo"}
IsNext(r, s) == stage[r] = "executing" /\ s \in Todo(r) /\ \A t \in Todo(r) : s <= t
Mark(r, s, outcome) == result' = [result EXCEPT ![r][s] = outcome]
ByStep(r) == Kind(r) = "continue"

(* A step succeeds: it is durable at once when it has a transaction of its  *)
(* own (continueOnError) or when the engine commits every DDL statement.   *)
StepRuns(r, s) ==
  /\ IsNext(r, s) /\ Mark(r, s, "SUCCESS")
  /\ Land(r, IF ByStep(r) \/ ~Transactional THEN {s} ELSE {})
  /\ UNCHANGED <<input, stage, guard, locks, status>>

(* continueOnError: the step is rolled back alone, or its commit went      *)
(* through and the answer was lost.                                        *)
StepFails(r, s) ==
  /\ ByStep(r) /\ IsNext(r, s) /\ Mark(r, s, "FAILED")
  /\ \E steps \in {{}, {s}} : Land(r, steps)
  /\ UNCHANGED <<input, stage, guard, locks, status>>

(* Mutant of Undone: a rollback that returned is believed everywhere.      *)
UndoneAlways == {"ROLLED_BACK", "FAILED"}

(* rolledBack is claimed when ROLLBACK returned and undoes DDL; closing the *)
(* connection may fail after that.                                         *)
Undone == IF Transactional THEN {"ROLLED_BACK", "FAILED"} ELSE {"FAILED"}

(* A ROLLBACK that failed returned all the same if the adapter is silent.   *)
Unheard == IF input.silent THEN Undone ELSE {"FAILED"}

PlanFails(r, s) ==
  /\ ~ByStep(r) /\ IsNext(r, s) /\ Mark(r, s, "FAILED")
  /\ \E outcome \in Undone : Fail(r, outcome)
  /\ UNCHANGED <<input, applied, captured, fresh>>

Finished(r) == stage[r] = "executing" /\ Todo(r) = {}

(* COMMIT, and the close of the connection, which may throw after the end  *)
(* of a plan of either kind.                                               *)
Commit(r) ==
  /\ ~ByStep(r) /\ Finished(r) /\ Land(r, Steps)
  /\ status' = [status EXCEPT ![r] = "SUCCESS"] /\ GoTo(r, "finishing")
  /\ UNCHANGED <<input, guard, locks, result>>
CloseFails(r) ==
  /\ Finished(r) /\ Land(r, IF ByStep(r) THEN {} ELSE Steps) /\ Fail(r, "FAILED")
  /\ UNCHANGED <<input, result>>
(* COMMIT is refused and rolled back; or it went through, its answer is     *)
(* lost and the ROLLBACK on the dead connection fails.  An adapter that      *)
(* ignores this reports an undo that never was.                            *)
CommitFails(r) ==
  /\ ~ByStep(r) /\ Finished(r)
  /\ \/ Land(r, {}) /\ \E outcome \in Undone : Fail(r, outcome)
     \/ Land(r, Steps) /\ \E outcome \in Unheard : Fail(r, outcome)
  /\ UNCHANGED <<input, result>>

(* finalStatus of a done event with success: resultMap keeps one status    *)
(* per object name, the latest.                                            *)
Latest(r) ==
  {result[r][s] : s \in {t \in Steps : \A u \in Steps : u > t => NameOf[u] # NameOf[t]}}
Verdict(r) == IF "FAILED" \in Latest(r) THEN "PARTIAL_SUCCESS" ELSE "SUCCESS"

Complete(r) ==
  /\ ByStep(r) /\ Finished(r)
  /\ status' = [status EXCEPT ![r] = Verdict(r)] /\ GoTo(r, "finishing")
  /\ UNCHANGED <<input, guard, locks, database>>

(* The capture after a success is best effort; a close that failed has sent *)
(* a second done event, without success.                                   *)
Recapture(r) ==
  captured' \in IF status[r] \in {"SUCCESS", "PARTIAL_SUCCESS"} THEN {captured, TRUE}
                 ELSE {captured}

(* The history entry is closed, the stream ended and the lock released.    *)
EndStream(r) ==
  /\ stage[r] = "finishing" /\ r \in Streamed
  /\ Recapture(r) /\ Release(r)
  /\ GoTo(r, IF r \in lapsed THEN "over" ELSE "flushing")
  /\ UNCHANGED <<input, guard, overdue, status, result, applied, fresh>>
Reply(r) ==
  /\ stage[r] = "finishing" /\ r \notin Streamed
  /\ Recapture(r) /\ Release(r) /\ Settle(r)
  /\ UNCHANGED <<input, overdue, lapsed, forgotten, status, result, applied, fresh>>

(* 'finish': the last byte of the stream is on its way.                    *)
Flush(r) ==
  /\ stage[r] = "flushing" /\ Settle(r)
  /\ UNCHANGED <<input, lapsed, forgotten, locks, database, status>>

Handle(r) ==
  \/ Refuse(r) \/ TakeLock(r) \/ Conflict(r)
  \/ Prepare(r) \/ PrepareFails(r) \/ PlanRevert(r) \/ PlanForce(r)
  \/ \E s \in Steps : StepRuns(r, s) \/ StepFails(r, s) \/ PlanFails(r, s)
  \/ Commit(r) \/ CloseFails(r) \/ CommitFails(r) \/ Complete(r)
  \/ EndStream(r) \/ Reply(r) \/ Flush(r)

Next ==
  \/ \E r \in Requests : \/ Arrive(r) \/ ArriveFirst(r) \/ ArriveAgain(r)
                          \/ Handle(r) \/ Disconnect(r) \/ Age(r)
  \/ \E k \in IdemKeys : Sweep(k)
  \/ DropStale

(* Handlers' awaits end: databases answer or time out.                     *)
Spec == Init /\ [][Next]_vars
FairSpec == Spec /\ WF_vars(\E r \in Requests : Handle(r))

-----------------------------------------------------------------------------
(* "One writer at a time" (migration.routes.ts:98): of the requests between *)
(* acquire and release, at most one has held the lock for less than the    *)
(* stale timeout.  A writer that was given up on must not free the lock of *)
(* the one that took over.                                                 *)
OneWriter ==
  \A r, s \in Requests :
    (Active(r) /\ Active(s) /\ r \notin overdue /\ s \notin overdue) => r = s

(* A duplicate never runs what its key already ran: a second execution of  *)
(* a key needs a socket that closed before the reply was complete, or a    *)
(* reply that was swept.                                                   *)
Ran(r) == \E s \in Steps : result[r][s] # "todo"
KeyRunsOnce ==
  \A r, d \in Requests :
    (Keyed(r) /\ KeyOf[r] = KeyOf[d] /\ Ran(r) /\ Ran(d) /\ r # d)
      => r \in lapsed \/ d \in lapsed \/ KeyOf[r] \in forgotten

(* What the stream, the history and the applied-migrations ledger say is   *)
(* true: SUCCESS means the last step of every object is in the database,   *)
(* ROLLED_BACK that none is.  One report is not to be believed: ROLLED_BACK *)
(* from an engine whose adapter ignores a failed ROLLBACK, when every step  *)
(* had succeeded and only COMMIT had not.  Then the whole plan, and never a *)
(* part of it, may be there.                                               *)
CommitInDoubt(r) == input.silent /\ Transactional /\ \A s \in Steps : result[r][s] = "SUCCESS"
LastOfObject(s) == \A u \in Steps : u > s => NameOf[u] # NameOf[s]
ReportIsTrue ==
  \A r \in Requests :
    /\ status[r] = "SUCCESS" => \A s \in Steps : LastOfObject(s) => s \in applied[r]
    /\ status[r] = "ROLLED_BACK" =>
         applied[r] = {} \/ (applied[r] = Steps /\ CommitInDoubt(r))

(* Revert and force-migrate execute plans made from the schema they change: *)
(* no other request has changed it since they planned, unless it, or they, *)
(* outlived the lock.                                                      *)
PlansAreFresh ==
  \A r \in Requests \ Streamed :
    (stage[r] = "executing" /\ r \notin overdue) => r \in fresh

(* Duplicates that are held back are answered in the end: with the reply,  *)
(* or with the news that there is none.                                    *)
DuplicatesAreAnswered == <>[](\A r \in Requests : stage[r] # "waiting")
=============================================================================
