------------------------ MODULE MigrationRequests_proofs ------------------------
(***************************************************************************)
(* Theorems about MigrationRequests for any requests, keys, plans, engines *)
(* and any number of stale locks.                                          *)
(***************************************************************************)
EXTENDS MigrationRequests, TLAPS

-----------------------------------------------------------------------------
(* What the operators shared by the handlers do.                           *)

(* A reply ends its request; other requests at most stop waiting.          *)
Others(r) ==
  \A d \in Requests \ {r} :
    stage'[d] = stage[d] \/ (stage[d] = "waiting" /\ stage'[d] = "over")

(* What a complete reply leaves: types, and the other handlers alone.      *)
LEMMA SettleTypes ==
  ASSUME TypeOK, NEW r \in Requests, Settle(r)
  PROVE  /\ stage' \in [Requests -> Stage]
         /\ answer' \in [Requests -> {"none", "own", "replay", "ended", "mismatch"}]
         /\ entry' \in [IdemKeys -> [kind : {"none", "running", "done"},
                                     owner : Requests \cup {NoOne}]]
         /\ stage'[r] = "over" /\ Others(r)
<1> USE RequestAssumption DEF TypeOK, Stage
<1>1. CASE Keyed(r) /\ r \notin lapsed
  <2>1. entry' = [entry EXCEPT ![KeyOf[r]] = [kind |-> "done", owner |-> r]]
    BY <1>1 DEF Settle
  <2>2. KeyOf[r] \in IdemKeys
    BY <1>1 DEF Keyed
  <2>3. [kind |-> "done", owner |-> r] \in
          [kind : {"none", "running", "done"}, owner : Requests \cup {NoOne}]
    OBVIOUS
  <2>4. entry' \in [IdemKeys -> [kind : {"none", "running", "done"},
                                owner : Requests \cup {NoOne}]]
    BY <2>1, <2>2, <2>3
  <2>5. answer' = [d \in Requests |-> IF d = r THEN "own"
                                     ELSE IF d \in Waiters(r) THEN "replay" ELSE answer[d]]
    BY <1>1 DEF Settle
  <2>6. stage' = [d \in Requests |-> IF d = r \/ d \in Waiters(r) THEN "over" ELSE stage[d]]
    BY <1>1 DEF Settle
  <2> QED
    BY <2>4, <2>5, <2>6 DEF Waiters, Others
<1>2. CASE ~(Keyed(r) /\ r \notin lapsed)
  <2>1. /\ answer' = [answer EXCEPT ![r] = IF r \in lapsed THEN "none" ELSE "own"]
        /\ stage' = [stage EXCEPT ![r] = "over"] /\ entry' = entry
    BY <1>2 DEF Settle, GoTo
  <2> QED
    BY <2>1 DEF Others
<1> QED
  BY <1>1, <1>2

(* What an outcome leaves behind.                                          *)
LEMMA FailTypes ==
  ASSUME TypeOK, NEW r \in Requests, NEW o \in Status, Fail(r, o)
  PROVE  /\ stage' \in [Requests -> Stage]
         /\ answer' \in [Requests -> {"none", "own", "replay", "ended", "mismatch"}]
         /\ entry' \in [IdemKeys -> [kind : {"none", "running", "done"},
                                     owner : Requests \cup {NoOne}]]
         /\ lock' \in Requests \cup {NoOne}
         /\ UNCHANGED <<overdue, lapsed, forgotten>>
         /\ status' \in [Requests -> Status] /\ status' = [status EXCEPT ![r] = o]
         /\ Others(r)
         /\ \/ stage'[r] = "finishing" /\ lock' = lock /\ UNCHANGED <<entry, answer>>
               /\ r \in Streamed
            \/ stage'[r] = "over" /\ Release(r) /\ r \notin Streamed
<1>1. CASE r \in Streamed
  BY <1>1 DEF Fail, TypeOK, GoTo, guard, locks, Others, Stage
<1>2. CASE r \notin Streamed
  <2>1. Settle(r) /\ Release(r) /\ UNCHANGED <<overdue, lapsed, forgotten>>
        /\ status' = [status EXCEPT ![r] = o]
    BY <1>2 DEF Fail
  <2> QED
    BY <1>2, <2>1, SettleTypes DEF Release, TypeOK
<1> QED
  BY <1>1, <1>2

(* What steps that become durable leave behind.                            *)
LEMMA LandTypes ==
  ASSUME TypeOK, NEW r \in Requests, NEW S \in SUBSET Steps, Land(r, S)
  PROVE  /\ applied' \in [Requests -> SUBSET Steps]
         /\ captured' \in BOOLEAN /\ fresh' \subseteq Requests
<1>1. applied' \in [Requests -> SUBSET Steps]
  BY DEF Land, TypeOK
<1>2. captured' \in BOOLEAN
  <2>1. captured' = (captured /\ S = {})
    BY DEF Land
  <2> QED
    BY <2>1, Zenon
<1>3. fresh' \subseteq Requests
  BY DEF Land, TypeOK
<1> QED
  BY <1>1, <1>2, <1>3

(* A plan that was undone ends with a status.                              *)
LEMMA UndoneIsStatus == Undone \subseteq Status
BY DEF Undone, Status

(* Every step keeps the types.                                             *)
LEMMA TypeStep ==
  ASSUME TypeOK, [Next]_vars PROVE TypeOK'
<1> USE RequestAssumption, InputAssumption, PlanAssumption DEF TypeOK, Input, Stage, Status, NoEntry, guard, locks, database
<1>1. ASSUME NEW r \in Requests, Arrive(r)
      PROVE  TypeOK'
  BY <1>1 DEF Arrive, GoTo
<1>2. ASSUME NEW r \in Requests, ArriveFirst(r)
      PROVE  TypeOK'
  <2>1. KeyOf[r] \in IdemKeys
    BY <1>2 DEF ArriveFirst, Keyed
  <2>2. [kind |-> "running", owner |-> r] \in
          [kind : {"none", "running", "done"}, owner : Requests \cup {NoOne}]
    OBVIOUS
  <2>3. entry' \in [IdemKeys -> [kind : {"none", "running", "done"},
                                owner : Requests \cup {NoOne}]]
    BY <1>2, <2>1, <2>2 DEF ArriveFirst
  <2> QED
    BY <1>2, <2>3 DEF ArriveFirst, GoTo
<1>3. ASSUME NEW r \in Requests, ArriveAgain(r)
      PROVE  TypeOK'
  BY <1>3 DEF ArriveAgain, GoTo
<1>4. ASSUME NEW r \in Requests, Refuse(r)
      PROVE  TypeOK'
  BY <1>4, SettleTypes DEF Refuse
<1>5. ASSUME NEW r \in Requests, TakeLock(r)
      PROVE  TypeOK'
  BY <1>5 DEF TakeLock, GoTo
<1>6. ASSUME NEW r \in Requests, Conflict(r)
      PROVE  TypeOK'
  BY <1>6, SettleTypes DEF Conflict
<1>7. ASSUME NEW r \in Requests, Prepare(r)
      PROVE  TypeOK'
  BY <1>7 DEF Prepare, GoTo
<1>8. ASSUME NEW r \in Requests, PrepareFails(r)
      PROVE  TypeOK'
  BY <1>8, FailTypes DEF PrepareFails, Status
<1>9. ASSUME NEW r \in Requests, PlanRevert(r)
      PROVE  TypeOK'
  <2>1. CASE Drifted
    BY <1>9, <2>1, FailTypes DEF PlanRevert
  <2>2. CASE ~Drifted
    BY <1>9, <2>2 DEF PlanRevert, GoTo
  <2> QED
    BY <2>1, <2>2
<1>10. ASSUME NEW r \in Requests, PlanForce(r)
      PROVE  TypeOK'
  BY <1>10 DEF PlanForce, GoTo
<1>11. ASSUME NEW r \in Requests, Commit(r)
      PROVE  TypeOK'
  BY <1>11, LandTypes DEF Commit, GoTo
<1>12. ASSUME NEW r \in Requests, CloseFails(r)
      PROVE  TypeOK'
  BY <1>12, LandTypes, FailTypes DEF CloseFails, Status
<1>13. ASSUME NEW r \in Requests, CommitFails(r)
      PROVE  TypeOK'
  <2>1. PICK o \in {"ROLLED_BACK", "FAILED"}, S \in SUBSET Steps :
          Fail(r, o) /\ Land(r, S) /\ UNCHANGED <<input, result>>
    BY <1>13 DEF CommitFails, Undone, Unheard
  <2> QED
    BY <2>1, FailTypes, LandTypes
<1>14. ASSUME NEW r \in Requests, Complete(r)
      PROVE  TypeOK'
  BY <1>14 DEF Complete, Verdict, GoTo
<1>15. ASSUME NEW r \in Requests, EndStream(r)
      PROVE  TypeOK'
  BY <1>15 DEF EndStream, Recapture, Release, GoTo
<1>16. ASSUME NEW r \in Requests, Reply(r)
      PROVE  TypeOK'
  BY <1>16, SettleTypes DEF Reply, Recapture, Release
<1>17. ASSUME NEW r \in Requests, Flush(r)
      PROVE  TypeOK'
  BY <1>17, SettleTypes DEF Flush
<1>18. ASSUME NEW r \in Requests, Disconnect(r)
      PROVE  TypeOK'
  BY <1>18 DEF Disconnect
<1>19. ASSUME NEW r \in Requests, Age(r)
      PROVE  TypeOK'
  BY <1>19 DEF Age
<1>20. ASSUME NEW r \in Requests, NEW s \in Steps, StepRuns(r, s)
      PROVE  TypeOK'
  BY <1>20, LandTypes DEF StepRuns, Mark, IsNext, Todo
<1>21. ASSUME NEW r \in Requests, NEW s \in Steps, StepFails(r, s)
      PROVE  TypeOK'
  BY <1>21, LandTypes DEF StepFails, Mark, IsNext, Todo
<1>22. ASSUME NEW r \in Requests, NEW s \in Steps, PlanFails(r, s)
      PROVE  TypeOK'
  <2>1. PICK o \in {"ROLLED_BACK", "FAILED"} : Fail(r, o)
    BY <1>22 DEF PlanFails, Undone
  <2>2. result' \in [Requests -> [Steps -> {"todo", "SUCCESS", "FAILED"}]]
    BY <1>22 DEF PlanFails, Mark
  <2> QED
    BY <1>22, <2>1, <2>2, FailTypes DEF PlanFails
<1>23. ASSUME NEW k \in IdemKeys, Sweep(k)
      PROVE  TypeOK'
  BY <1>23 DEF Sweep
<1>24. CASE DropStale
  BY <1>24 DEF DropStale
<1>25. CASE UNCHANGED vars
  BY <1>25 DEF vars
<1> QED
  BY <1>1, <1>2, <1>3, <1>4, <1>5, <1>6, <1>7, <1>8, <1>9, <1>10, <1>11,
     <1>12, <1>13, <1>14, <1>15, <1>16, <1>17, <1>18, <1>19, <1>20, <1>21,
     <1>22, <1>23, <1>24, <1>25
  DEF Next, Handle

(* The requests, the guard, the lock and the database keep their types.    *)
THEOREM TypeCorrect == Spec => []TypeOK
<1>1. Init => TypeOK
  BY RequestAssumption, InputAssumption DEF Init, TypeOK, Stage, Status, NoEntry
<1>2. TypeOK /\ [Next]_vars => TypeOK'
  BY TypeStep
<1> QED
  BY <1>1, <1>2, PTL DEF Spec

-----------------------------------------------------------------------------
(* A writer that nobody has given up on holds the lock: this is what makes *)
(* OneWriter inductive.                                                    *)
WriterHoldsLock == \A r \in Requests : (Active(r) /\ r \notin overdue) => lock = r

(* No step gives a handler a lock that another one holds in time.          *)
LEMMA LockStep ==
  ASSUME TypeOK, WriterHoldsLock, [Next]_vars PROVE WriterHoldsLock'
<1> USE RequestAssumption, InputAssumption, PlanAssumption DEF TypeOK, WriterHoldsLock, Active, guard, locks, database
<1>1. ASSUME NEW r \in Requests, Arrive(r)
      PROVE  WriterHoldsLock'
  BY <1>1 DEF Arrive, GoTo
<1>2. ASSUME NEW r \in Requests, ArriveFirst(r)
      PROVE  WriterHoldsLock'
  BY <1>2 DEF ArriveFirst, GoTo, Keyed
<1>3. ASSUME NEW r \in Requests, ArriveAgain(r)
      PROVE  WriterHoldsLock'
  BY <1>3 DEF ArriveAgain, GoTo
<1>4. ASSUME NEW r \in Requests, Refuse(r)
      PROVE  WriterHoldsLock'
  BY <1>4, SettleTypes DEF Refuse, Others
<1>5. ASSUME NEW r \in Requests, TakeLock(r)
      PROVE  WriterHoldsLock'
  BY <1>5 DEF TakeLock, GoTo, Free
<1>6. ASSUME NEW r \in Requests, Conflict(r)
      PROVE  WriterHoldsLock'
  BY <1>6, SettleTypes DEF Conflict, Others
<1>7. ASSUME NEW r \in Requests, Prepare(r)
      PROVE  WriterHoldsLock'
  BY <1>7 DEF Prepare, GoTo
<1>8. ASSUME NEW r \in Requests, PrepareFails(r)
      PROVE  WriterHoldsLock'
  BY <1>8, FailTypes DEF PrepareFails, Others, Release, Status
<1>9. ASSUME NEW r \in Requests, PlanRevert(r)
      PROVE  WriterHoldsLock'
  <2>1. CASE Drifted
    BY <1>9, <2>1, FailTypes DEF PlanRevert, Others, Release, Status
  <2>2. CASE ~Drifted
    BY <1>9, <2>2 DEF PlanRevert, GoTo
  <2> QED
    BY <2>1, <2>2
<1>10. ASSUME NEW r \in Requests, PlanForce(r)
      PROVE  WriterHoldsLock'
  BY <1>10 DEF PlanForce, GoTo
<1>11. ASSUME NEW r \in Requests, Commit(r)
      PROVE  WriterHoldsLock'
  BY <1>11, LandTypes DEF Commit, GoTo, Finished
<1>12. ASSUME NEW r \in Requests, CloseFails(r)
      PROVE  WriterHoldsLock'
  BY <1>12, LandTypes, FailTypes DEF CloseFails, Others, Release, Status, Finished
<1>13. ASSUME NEW r \in Requests, CommitFails(r)
      PROVE  WriterHoldsLock'
  <2>1. PICK o \in {"ROLLED_BACK", "FAILED"} : Fail(r, o)
    BY <1>13 DEF CommitFails, Undone, Unheard
  <2> QED
    BY <1>13, <2>1, FailTypes DEF Others, Release, Status, CommitFails, Finished
<1>14. ASSUME NEW r \in Requests, Complete(r)
      PROVE  WriterHoldsLock'
  BY <1>14 DEF Complete, GoTo, Finished
<1>15. ASSUME NEW r \in Requests, EndStream(r)
      PROVE  WriterHoldsLock'
  BY <1>15 DEF EndStream, Release, GoTo
<1>16. ASSUME NEW r \in Requests, Reply(r)
      PROVE  WriterHoldsLock'
  BY <1>16, SettleTypes DEF Reply, Release, Others
<1>17. ASSUME NEW r \in Requests, Flush(r)
      PROVE  WriterHoldsLock'
  BY <1>17, SettleTypes DEF Flush, Others
<1>18. ASSUME NEW r \in Requests, Disconnect(r)
      PROVE  WriterHoldsLock'
  BY <1>18 DEF Disconnect, Waiters
<1>19. ASSUME NEW r \in Requests, Age(r)
      PROVE  WriterHoldsLock'
  BY <1>19 DEF Age
<1>20. ASSUME NEW r \in Requests, NEW s \in Steps, StepRuns(r, s)
      PROVE  WriterHoldsLock'
  BY <1>20, LandTypes DEF StepRuns, IsNext
<1>21. ASSUME NEW r \in Requests, NEW s \in Steps, StepFails(r, s)
      PROVE  WriterHoldsLock'
  BY <1>21, LandTypes DEF StepFails, IsNext
<1>22. ASSUME NEW r \in Requests, NEW s \in Steps, PlanFails(r, s)
      PROVE  WriterHoldsLock'
  <2>1. PICK o \in {"ROLLED_BACK", "FAILED"} : Fail(r, o)
    BY <1>22 DEF PlanFails, Undone
  <2> QED
    BY <1>22, <2>1, FailTypes DEF Others, Release, Status, PlanFails, IsNext
<1>23. ASSUME NEW k \in IdemKeys, Sweep(k)
      PROVE  WriterHoldsLock'
  BY <1>23 DEF Sweep
<1>24. CASE DropStale
  BY <1>24 DEF DropStale
<1>25. CASE UNCHANGED vars
  BY <1>25 DEF vars
<1> QED
  BY <1>1, <1>2, <1>3, <1>4, <1>5, <1>6, <1>7, <1>8, <1>9, <1>10, <1>11,
     <1>12, <1>13, <1>14, <1>15, <1>16, <1>17, <1>18, <1>19, <1>20, <1>21,
     <1>22, <1>23, <1>24, <1>25
  DEF Next, Handle

(* A writer within its timeout holds the lock, in every state.             *)
LEMMA WriterHolds == Spec => []WriterHoldsLock
<1>1. Init => WriterHoldsLock
  BY DEF Init, WriterHoldsLock, Active
<1>2. TypeOK /\ WriterHoldsLock /\ [Next]_vars => WriterHoldsLock'
  BY LockStep
<1> QED
  BY <1>1, <1>2, TypeCorrect, PTL DEF Spec

(* Two requests are never between acquire and release of the target lock    *)
(* (target-lock.ts) unless one has outlived the stale timeout.             *)
THEOREM OneWriterAtATime == Spec => []OneWriter
<1>1. WriterHoldsLock => OneWriter
  BY DEF WriterHoldsLock, OneWriter
<1> QED
  BY <1>1, WriterHolds, PTL

-----------------------------------------------------------------------------
(* Only a writer that is overdue can make another plan stale.              *)
LEMMA FreshStep ==
  ASSUME TypeOK, WriterHoldsLock, PlansAreFresh, [Next]_vars PROVE PlansAreFresh'
<1> USE RequestAssumption, InputAssumption, PlanAssumption DEF TypeOK, WriterHoldsLock, PlansAreFresh, Active, Streamed, Kind, guard, locks, database
<1>1. ASSUME NEW r \in Requests, Arrive(r)
      PROVE  PlansAreFresh'
  BY <1>1 DEF Arrive, GoTo
<1>2. ASSUME NEW r \in Requests, ArriveFirst(r)
      PROVE  PlansAreFresh'
  BY <1>2 DEF ArriveFirst, GoTo, Keyed
<1>3. ASSUME NEW r \in Requests, ArriveAgain(r)
      PROVE  PlansAreFresh'
  BY <1>3 DEF ArriveAgain, GoTo
<1>4. ASSUME NEW r \in Requests, Refuse(r)
      PROVE  PlansAreFresh'
  BY <1>4, SettleTypes DEF Refuse, Others
<1>5. ASSUME NEW r \in Requests, TakeLock(r)
      PROVE  PlansAreFresh'
  BY <1>5 DEF TakeLock, GoTo
<1>6. ASSUME NEW r \in Requests, Conflict(r)
      PROVE  PlansAreFresh'
  BY <1>6, SettleTypes DEF Conflict, Others
<1>7. ASSUME NEW r \in Requests, Prepare(r)
      PROVE  PlansAreFresh'
  BY <1>7 DEF Prepare, GoTo
<1>8. ASSUME NEW r \in Requests, PrepareFails(r)
      PROVE  PlansAreFresh'
  BY <1>8, FailTypes DEF PrepareFails, Others, Status
<1>9. ASSUME NEW r \in Requests, PlanRevert(r)
      PROVE  PlansAreFresh'
  <2>1. CASE Drifted
    BY <1>9, <2>1, FailTypes DEF PlanRevert, Others, Status
  <2>2. CASE ~Drifted
    BY <1>9, <2>2 DEF PlanRevert, GoTo, Drifted
  <2> QED
    BY <2>1, <2>2
<1>10. ASSUME NEW r \in Requests, PlanForce(r)
      PROVE  PlansAreFresh'
  BY <1>10 DEF PlanForce, GoTo
<1>11. ASSUME NEW r \in Requests, Commit(r)
      PROVE  PlansAreFresh'
  BY <1>11, LandTypes DEF Commit, GoTo, Finished, Land
<1>12. ASSUME NEW r \in Requests, CloseFails(r)
      PROVE  PlansAreFresh'
  <2>1. Fail(r, "FAILED") /\ Land(r, IF ByStep(r) THEN {} ELSE Steps) /\ input' = input
    BY <1>12 DEF CloseFails
  <2> QED
    BY <1>12, <2>1, FailTypes DEF Others, Status, Land, CloseFails, Finished
<1>13. ASSUME NEW r \in Requests, CommitFails(r)
      PROVE  PlansAreFresh'
  <2>1. PICK o \in {"ROLLED_BACK", "FAILED"}, S \in SUBSET Steps : Fail(r, o) /\ Land(r, S)
    BY <1>13 DEF CommitFails, Undone, Unheard
  <2>2. input' = input /\ stage[r] = "executing"
    BY <1>13 DEF CommitFails, Finished
  <2> QED
    BY <2>1, <2>2, FailTypes DEF Others, Status, Land
<1>14. ASSUME NEW r \in Requests, Complete(r)
      PROVE  PlansAreFresh'
  BY <1>14 DEF Complete, GoTo, Finished
<1>15. ASSUME NEW r \in Requests, EndStream(r)
      PROVE  PlansAreFresh'
  BY <1>15 DEF EndStream, GoTo
<1>16. ASSUME NEW r \in Requests, Reply(r)
      PROVE  PlansAreFresh'
  BY <1>16, SettleTypes DEF Reply, Others
<1>17. ASSUME NEW r \in Requests, Flush(r)
      PROVE  PlansAreFresh'
  BY <1>17, SettleTypes DEF Flush, Others
<1>18. ASSUME NEW r \in Requests, Disconnect(r)
      PROVE  PlansAreFresh'
  BY <1>18 DEF Disconnect, Waiters
<1>19. ASSUME NEW r \in Requests, Age(r)
      PROVE  PlansAreFresh'
  BY <1>19 DEF Age
<1>20. ASSUME NEW r \in Requests, NEW s \in Steps, StepRuns(r, s)
      PROVE  PlansAreFresh'
  <2>1. PICK S \in {{}, {s}} : Land(r, S)
    BY <1>20 DEF StepRuns
  <2>2. stage' = stage /\ overdue' = overdue /\ input' = input /\ stage[r] = "executing"
    BY <1>20 DEF StepRuns, IsNext
  <2> QED
    BY <2>1, <2>2 DEF Land
<1>21. ASSUME NEW r \in Requests, NEW s \in Steps, StepFails(r, s)
      PROVE  PlansAreFresh'
  <2>1. PICK S \in {{}, {s}} : Land(r, S)
    BY <1>21 DEF StepFails
  <2>2. stage' = stage /\ overdue' = overdue /\ input' = input /\ stage[r] = "executing"
    BY <1>21 DEF StepFails, IsNext
  <2> QED
    BY <2>1, <2>2 DEF Land
<1>22. ASSUME NEW r \in Requests, NEW s \in Steps, PlanFails(r, s)
      PROVE  PlansAreFresh'
  <2>1. PICK o \in {"ROLLED_BACK", "FAILED"} : Fail(r, o)
    BY <1>22 DEF PlanFails, Undone
  <2> QED
    BY <1>22, <2>1, FailTypes DEF Others, Status, PlanFails, IsNext
<1>23. ASSUME NEW k \in IdemKeys, Sweep(k)
      PROVE  PlansAreFresh'
  BY <1>23 DEF Sweep
<1>24. CASE DropStale
  BY <1>24 DEF DropStale
<1>25. CASE UNCHANGED vars
  BY <1>25 DEF vars
<1> QED
  BY <1>1, <1>2, <1>3, <1>4, <1>5, <1>6, <1>7, <1>8, <1>9, <1>10, <1>11,
     <1>12, <1>13, <1>14, <1>15, <1>16, <1>17, <1>18, <1>19, <1>20, <1>21,
     <1>22, <1>23, <1>24, <1>25
  DEF Next, Handle

(* A plan made by revert or force-migrate is executed against the schema it *)
(* was made from: no other writer came between.                            *)
THEOREM PlansStayFresh == Spec => []PlansAreFresh
<1>1. Init => PlansAreFresh
  BY DEF Init, PlansAreFresh
<1>2. TypeOK /\ WriterHoldsLock /\ PlansAreFresh /\ [Next]_vars => PlansAreFresh'
  BY FreshStep
<1> QED
  BY <1>1, <1>2, TypeCorrect, WriterHolds, PTL DEF Spec

-----------------------------------------------------------------------------
(* What is in the database, against what the events said: nothing before   *)
(* the plan is executed; nothing before COMMIT when one transaction holds   *)
(* the plan, which goes on while no step failed; and every reported step    *)
(* when each has its own.                                                  *)
Idle(r) == stage[r] \in {"new", "waiting", "resolving", "preparing"}
RecordMatches ==
  \A r \in Requests :
    /\ status[r] # "none" => stage[r] \in {"finishing", "flushing", "over"}
    /\ Idle(r) => applied[r] = {} /\ \A s \in Steps : result[r][s] = "todo"
    /\ (stage[r] = "executing" /\ ~ByStep(r) /\ Transactional) => applied[r] = {}
    /\ (stage[r] = "executing" /\ ~ByStep(r)) => \A s \in Steps : result[r][s] # "FAILED"
    /\ (stage[r] = "executing" /\ ByStep(r)) =>
         \A s \in Steps : result[r][s] = "SUCCESS" => s \in applied[r]
Record == RecordMatches /\ ReportIsTrue

(* Every step keeps the record of what was reported true.                  *)
LEMMA RecordStep ==
  ASSUME TypeOK, Record, [Next]_vars PROVE Record'
<1> USE RequestAssumption, InputAssumption, PlanAssumption DEF TypeOK, Record, RecordMatches, ReportIsTrue, CommitInDoubt, Idle, LastOfObject, ByStep, Kind, Transactional, guard, locks, database
<1>1. ASSUME NEW r \in Requests, Arrive(r)
      PROVE  Record'
  BY <1>1 DEF Arrive, GoTo
<1>2. ASSUME NEW r \in Requests, ArriveFirst(r)
      PROVE  Record'
  BY <1>2 DEF ArriveFirst, GoTo, Keyed
<1>3. ASSUME NEW r \in Requests, ArriveAgain(r)
      PROVE  Record'
  BY <1>3 DEF ArriveAgain, GoTo
<1>4. ASSUME NEW r \in Requests, Refuse(r)
      PROVE  Record'
  <2>1. Others(r) /\ stage'[r] = "over" /\ stage[r] = "resolving"
    BY <1>4, SettleTypes DEF Refuse
  <2>2. UNCHANGED <<input, status, result, applied>>
    BY <1>4 DEF Refuse
  <2> QED
    BY <2>1, <2>2 DEF Others
<1>5. ASSUME NEW r \in Requests, TakeLock(r)
      PROVE  Record'
  BY <1>5 DEF TakeLock, GoTo
<1>6. ASSUME NEW r \in Requests, Conflict(r)
      PROVE  Record'
  <2>1. Others(r) /\ stage'[r] = "over" /\ stage[r] = "resolving"
    BY <1>6, SettleTypes DEF Conflict
  <2>2. UNCHANGED <<input, status, result, applied>>
    BY <1>6 DEF Conflict
  <2> QED
    BY <2>1, <2>2 DEF Others
<1>7. ASSUME NEW r \in Requests, Prepare(r)
      PROVE  Record'
  BY <1>7 DEF Prepare, GoTo
<1>8. ASSUME NEW r \in Requests, PrepareFails(r)
      PROVE  Record'
  <2>1. /\ Others(r) /\ stage[r] = "preparing" /\ stage'[r] \in {"finishing", "over"}
        /\ status' = [status EXCEPT ![r] = "FAILED"]
    BY <1>8, FailTypes DEF PrepareFails, Status
  <2>2. UNCHANGED <<input, result, applied>>
    BY <1>8 DEF PrepareFails
  <2> QED
    BY <2>1, <2>2 DEF Others
<1>9. ASSUME NEW r \in Requests, PlanRevert(r)
      PROVE  Record'
  <2>1. UNCHANGED <<input, result, applied>> /\ stage[r] = "preparing"
    BY <1>9 DEF PlanRevert
  <2>2. CASE Drifted
    <3>1. /\ Others(r) /\ stage'[r] \in {"finishing", "over"}
          /\ status' = [status EXCEPT ![r] = "none"]
      BY <1>9, <2>2, FailTypes DEF PlanRevert, Status
    <3> QED
      BY <2>1, <3>1 DEF Others
  <2>3. CASE ~Drifted
    <3>1. stage' = [stage EXCEPT ![r] = "executing"] /\ status' = status
      BY <1>9, <2>3 DEF PlanRevert, GoTo
    <3> QED
      BY <2>1, <3>1
  <2> QED
    BY <2>2, <2>3
<1>10. ASSUME NEW r \in Requests, PlanForce(r)
      PROVE  Record'
  BY <1>10 DEF PlanForce, GoTo
<1>11. ASSUME NEW r \in Requests, Commit(r)
      PROVE  Record'
  BY <1>11, LandTypes DEF Commit, GoTo, Finished, Land
<1>12. ASSUME NEW r \in Requests, CloseFails(r)
      PROVE  Record'
  <2>1. Fail(r, "FAILED") /\ Land(r, IF ByStep(r) THEN {} ELSE Steps) /\ input' = input /\ result' = result
    BY <1>12 DEF CloseFails
  <2> QED
    BY <1>12, <2>1, FailTypes DEF Others, Status, Land, CloseFails, Finished
<1>13. ASSUME NEW r \in Requests, CommitFails(r)
      PROVE  Record'
  <2>1. PICK o \in {"ROLLED_BACK", "FAILED"}, S \in SUBSET Steps :
          /\ Fail(r, o) /\ Land(r, S)
          /\ o = "ROLLED_BACK" => Transactional /\ (S = {} \/ (S = Steps /\ input.silent))
    BY <1>13 DEF CommitFails, Undone, Unheard
  <2>2. UNCHANGED <<input, result>> /\ stage[r] = "executing" /\ ~ByStep(r)
    BY <1>13 DEF CommitFails, Finished
  <2>3. \A s \in Steps : result[r][s] = "SUCCESS"
    BY <1>13 DEF CommitFails, Finished, Todo
  <2> QED
    BY <2>1, <2>2, <2>3, FailTypes DEF Others, Status, Land
<1>14. ASSUME NEW r \in Requests, Complete(r)
      PROVE  Record'
  <2>1. stage[r] = "executing" /\ ByStep(r) /\ \A s \in Steps : result[r][s] # "todo"
    BY <1>14 DEF Complete, Finished, Todo
  <2>2. Verdict(r) # "ROLLED_BACK" /\ Verdict(r) # "none"
    BY DEF Verdict
  <2>3. ASSUME Verdict(r) = "SUCCESS", NEW s \in Steps, LastOfObject(s) PROVE s \in applied[r]
    <3>1. result[r][s] \in Latest(r) /\ "FAILED" \notin Latest(r)
      BY <2>3 DEF Verdict, Latest
    <3> QED
      BY <3>1, <2>1
  <2>4. /\ UNCHANGED <<input, result, applied>>
        /\ stage' = [stage EXCEPT ![r] = "finishing"]
        /\ status' = [status EXCEPT ![r] = Verdict(r)]
    BY <1>14 DEF Complete, GoTo
  <2> QED
    BY <2>1, <2>2, <2>3, <2>4
<1>15. ASSUME NEW r \in Requests, EndStream(r)
      PROVE  Record'
  BY <1>15 DEF EndStream, GoTo
<1>16. ASSUME NEW r \in Requests, Reply(r)
      PROVE  Record'
  BY <1>16, SettleTypes DEF Reply, Others
<1>17. ASSUME NEW r \in Requests, Flush(r)
      PROVE  Record'
  BY <1>17, SettleTypes DEF Flush, Others
<1>18. ASSUME NEW r \in Requests, Disconnect(r)
      PROVE  Record'
  BY <1>18 DEF Disconnect, Waiters
<1>19. ASSUME NEW r \in Requests, Age(r)
      PROVE  Record'
  BY <1>19 DEF Age
<1>20. ASSUME NEW r \in Requests, NEW s \in Steps, StepRuns(r, s)
      PROVE  Record'
  <2>1. Land(r, IF ByStep(r) \/ ~Transactional THEN {s} ELSE {})
    BY <1>20 DEF StepRuns
  <2>2. UNCHANGED <<stage, input, status>> /\ stage[r] = "executing" /\ Mark(r, s, "SUCCESS")
    BY <1>20 DEF StepRuns, IsNext
  <2>3. \A d \in Requests \ {r} : applied'[d] = applied[d] /\ result'[d] = result[d]
    BY <2>1, <2>2 DEF Land, Mark
  <2>4. /\ applied'[r] = applied[r] \cup (IF ByStep(r) \/ ~Transactional THEN {s} ELSE {})
        /\ \A t \in Steps : result'[r][t] = IF t = s THEN "SUCCESS" ELSE result[r][t]
    BY <2>1, <2>2 DEF Land, Mark
  <2>5. RecordMatches'
    BY <2>2, <2>3, <2>4
  <2>6. ReportIsTrue'
    BY <2>2, <2>3
  <2> QED
    BY <2>5, <2>6
<1>21. ASSUME NEW r \in Requests, NEW s \in Steps, StepFails(r, s)
      PROVE  Record'
  <2>1. PICK S \in {{}, {s}} : Land(r, S)
    BY <1>21 DEF StepFails
  <2>2. UNCHANGED <<stage, input, status>> /\ stage[r] = "executing" /\ Mark(r, s, "FAILED")
    BY <1>21 DEF StepFails, IsNext
  <2> QED
    BY <1>21, <2>1, <2>2 DEF Land, Mark, StepFails
<1>22. ASSUME NEW r \in Requests, NEW s \in Steps, PlanFails(r, s)
      PROVE  Record'
  <2>1. PICK o \in {"ROLLED_BACK", "FAILED"} : Fail(r, o) /\ (o = "ROLLED_BACK" => Transactional)
    BY <1>22 DEF PlanFails, Undone
  <2>2. /\ stage[r] = "executing" /\ ~ByStep(r) /\ UNCHANGED <<input, applied>>
        /\ \A d \in Requests \ {r} : result'[d] = result[d]
    BY <1>22 DEF PlanFails, IsNext, Mark
  <2>3. /\ Others(r) /\ stage'[r] \in {"finishing", "over"}
        /\ status' = [status EXCEPT ![r] = o]
    BY <2>1, FailTypes DEF Status
  <2>4. o = "ROLLED_BACK" => applied[r] = {}
    BY <2>1, <2>2
  <2> QED
    BY <2>2, <2>3, <2>4 DEF Others
<1>23. ASSUME NEW k \in IdemKeys, Sweep(k)
      PROVE  Record'
  BY <1>23 DEF Sweep
<1>24. CASE DropStale
  BY <1>24 DEF DropStale
<1>25. CASE UNCHANGED vars
  BY <1>25 DEF vars
<1> QED
  BY <1>1, <1>2, <1>3, <1>4, <1>5, <1>6, <1>7, <1>8, <1>9, <1>10, <1>11,
     <1>12, <1>13, <1>14, <1>15, <1>16, <1>17, <1>18, <1>19, <1>20, <1>21,
     <1>22, <1>23, <1>24, <1>25
  DEF Next, Handle

(* The record is true in every state.                                      *)
LEMMA RecordHolds == Spec => []Record
<1>1. Init => Record
  BY DEF Init, Record, RecordMatches, ReportIsTrue, Idle
<1>2. TypeOK /\ Record /\ [Next]_vars => Record'
  BY RecordStep
<1> QED
  BY <1>1, <1>2, TypeCorrect, PTL DEF Spec

(* SUCCESS means the last step of every object is in the database, and     *)
(* ROLLED_BACK that nothing is, whatever commits, rollbacks, closes and     *)
(* lost answers came before (migration.module.ts, migration.routes.ts);     *)
(* but where rollbackTransaction ignores errors (sqlserver.adapter.ts:107), *)
(* ROLLED_BACK may be said of a plan whose COMMIT went through unheard.     *)
THEOREM ReportsAreTrue == Spec => []ReportIsTrue
<1>1. Record => ReportIsTrue
  BY DEF Record
<1> QED
  BY <1>1, RecordHolds, PTL

-----------------------------------------------------------------------------
(* The guard's entry of a key is the one of the request that runs for it,   *)
(* and stays that of the request that ran until it is swept.               *)
Busy(r) == stage[r] \in {"resolving", "preparing", "executing", "finishing", "flushing"}
EntriesMatch ==
  \A r \in Requests : (Keyed(r) /\ r \notin lapsed) =>
    /\ Busy(r) => entry[KeyOf[r]].kind = "running" /\ entry[KeyOf[r]].owner = r
    /\ (Ran(r) /\ KeyOf[r] \notin forgotten) =>
         entry[KeyOf[r]].kind # "none" /\ entry[KeyOf[r]].owner = r

(* A handler that settles moves its own key's entry from running to done.   *)
LEMMA SettleKeepsEntries ==
  ASSUME TypeOK, EntriesMatch, NEW r \in Requests, Busy(r), Settle(r),
         UNCHANGED <<lapsed, forgotten, result>>
  PROVE  EntriesMatch'
<1> USE RequestAssumption DEF TypeOK, EntriesMatch, Busy, Ran, Keyed
<1>1. Others(r) /\ stage'[r] = "over"
  BY SettleTypes
<1>2. CASE Keyed(r) /\ r \notin lapsed
  <2>1. /\ entry' = [entry EXCEPT ![KeyOf[r]] = [kind |-> "done", owner |-> r]]
        /\ KeyOf[r] \in IdemKeys
    BY <1>2 DEF Settle
  <2>2. entry[KeyOf[r]].owner = r
    BY <1>2
  <2> QED
    BY <1>1, <1>2, <2>1, <2>2 DEF Others
<1>3. CASE ~(Keyed(r) /\ r \notin lapsed)
  <2>1. entry' = entry
    BY <1>3 DEF Settle
  <2> QED
    BY <1>1, <1>3, <2>1 DEF Others
<1> QED
  BY <1>2, <1>3

(* A failure leaves the guard as it matches the handlers.                  *)
LEMMA FailKeepsEntries ==
  ASSUME TypeOK, EntriesMatch, NEW r \in Requests, NEW o \in Status, Busy(r), Fail(r, o),
         result' = result
  PROVE  EntriesMatch'
<1>1. CASE r \in Streamed
  <2>1. Others(r) /\ UNCHANGED <<entry, lapsed, forgotten>>
    BY <1>1, FailTypes DEF Fail, guard
  <2> QED
    BY <2>1 DEF EntriesMatch, Busy, Ran, Others
<1>2. CASE r \notin Streamed
  BY <1>2, SettleKeepsEntries DEF Fail
<1> QED
  BY <1>1, <1>2

(* A step that reports its first result belongs to a request that runs.     *)
LEMMA MarkKeepsEntries ==
  ASSUME TypeOK, EntriesMatch, NEW r \in Requests, NEW s \in Steps, Busy(r),
         \A d \in Requests \ {r} : result'[d] = result[d], UNCHANGED <<lapsed, forgotten>>
  PROVE  /\ UNCHANGED <<stage, entry>> => EntriesMatch'
         /\ \A o \in Status : Fail(r, o) /\ r \in Streamed => EntriesMatch'
<1> USE DEF TypeOK, EntriesMatch, Busy, Ran, Keyed
<1>1. UNCHANGED <<stage, entry>> => EntriesMatch'
  OBVIOUS
<1>2. ASSUME NEW o \in Status, Fail(r, o), r \in Streamed PROVE EntriesMatch'
  BY <1>2, FailTypes DEF Others
<1> QED
  BY <1>1, <1>2

(* Every step keeps the entries matched with the handlers.                 *)
LEMMA KeyStep ==
  ASSUME TypeOK, RecordMatches, EntriesMatch, [Next]_vars PROVE EntriesMatch'
<1> USE RequestAssumption, InputAssumption, PlanAssumption DEF TypeOK, EntriesMatch, Busy, Ran, Keyed, guard, locks, database
<1>1. ASSUME NEW r \in Requests, Arrive(r)
      PROVE  EntriesMatch'
  <2>1. /\ UNCHANGED <<entry, lapsed, forgotten, result>> /\ ~Keyed(r)
        /\ \A d \in Requests \ {r} : stage'[d] = stage[d]
    BY <1>1 DEF Arrive, GoTo
  <2> QED
    BY <2>1
<1>2. ASSUME NEW r \in Requests, ArriveFirst(r)
      PROVE  EntriesMatch'
  <2>1. /\ entry' = [entry EXCEPT ![KeyOf[r]] = [kind |-> "running", owner |-> r]]
        /\ KeyOf[r] \in IdemKeys /\ entry[KeyOf[r]].kind = "none" /\ stage[r] = "new"
        /\ UNCHANGED <<lapsed, forgotten, result>>
        /\ stage' = [stage EXCEPT ![r] = "resolving"]
    BY <1>2 DEF ArriveFirst, GoTo
  <2>2. ~Ran(r)
    BY <2>1 DEF RecordMatches, Idle
  <2>3. ASSUME NEW d \in Requests \ {r}, Keyed(d), d \notin lapsed, KeyOf[d] = KeyOf[r]
        PROVE  ~Busy(d) /\ (Ran(d) => KeyOf[d] \in forgotten)
    BY <2>1, <2>3
  <2> QED
    BY <2>1, <2>2, <2>3
<1>3. ASSUME NEW r \in Requests, ArriveAgain(r)
      PROVE  EntriesMatch'
  <2>1. /\ UNCHANGED <<entry, lapsed, forgotten, result>>
        /\ stage' \in {[stage EXCEPT ![r] = "waiting"], [stage EXCEPT ![r] = "over"]}
    BY <1>3 DEF ArriveAgain, GoTo
  <2> QED
    BY <2>1
<1>4. ASSUME NEW r \in Requests, Refuse(r)
      PROVE  EntriesMatch'
  <2>1. Settle(r) /\ Busy(r) /\ UNCHANGED <<lapsed, forgotten, result>>
    BY <1>4 DEF Refuse
  <2> QED
    BY <2>1, SettleKeepsEntries
<1>5. ASSUME NEW r \in Requests, TakeLock(r)
      PROVE  EntriesMatch'
  <2>1. UNCHANGED <<entry, lapsed, forgotten, result>> /\ Busy(r)
    BY <1>5 DEF TakeLock
  <2>2. \A d \in Requests \ {r} : stage'[d] = stage[d]
    BY <1>5 DEF TakeLock, GoTo
  <2> QED
    BY <2>1, <2>2
<1>6. ASSUME NEW r \in Requests, Conflict(r)
      PROVE  EntriesMatch'
  <2>1. Settle(r) /\ Busy(r) /\ UNCHANGED <<lapsed, forgotten, result>>
    BY <1>6 DEF Conflict
  <2> QED
    BY <2>1, SettleKeepsEntries
<1>7. ASSUME NEW r \in Requests, Prepare(r)
      PROVE  EntriesMatch'
  <2>1. UNCHANGED <<entry, lapsed, forgotten, result>> /\ Busy(r)
    BY <1>7 DEF Prepare
  <2>2. \A d \in Requests \ {r} : stage'[d] = stage[d]
    BY <1>7 DEF Prepare, GoTo
  <2> QED
    BY <2>1, <2>2
<1>8. ASSUME NEW r \in Requests, PrepareFails(r)
      PROVE  EntriesMatch'
  <2>1. Fail(r, "FAILED") /\ Busy(r) /\ result' = result
    BY <1>8 DEF PrepareFails
  <2> QED
    BY <2>1, FailKeepsEntries DEF Status
<1>9. ASSUME NEW r \in Requests, PlanRevert(r)
      PROVE  EntriesMatch'
  <2>1. CASE Drifted
    <3>1. Fail(r, "none") /\ Busy(r) /\ result' = result
      BY <1>9, <2>1 DEF PlanRevert
    <3> QED
      BY <3>1, FailKeepsEntries DEF Status
  <2>2. CASE ~Drifted
    BY <1>9, <2>2 DEF PlanRevert, GoTo
  <2> QED
    BY <2>1, <2>2
<1>10. ASSUME NEW r \in Requests, PlanForce(r)
      PROVE  EntriesMatch'
  <2>1. UNCHANGED <<entry, lapsed, forgotten, result>> /\ Busy(r)
    BY <1>10 DEF PlanForce
  <2>2. \A d \in Requests \ {r} : stage'[d] = stage[d]
    BY <1>10 DEF PlanForce, GoTo
  <2> QED
    BY <2>1, <2>2
<1>11. ASSUME NEW r \in Requests, Commit(r)
      PROVE  EntriesMatch'
  <2>1. UNCHANGED <<entry, lapsed, forgotten, result>> /\ Busy(r)
    BY <1>11 DEF Commit, Finished
  <2>2. \A d \in Requests \ {r} : stage'[d] = stage[d]
    BY <1>11 DEF Commit, Finished, GoTo
  <2> QED
    BY <2>1, <2>2
<1>12. ASSUME NEW r \in Requests, CloseFails(r)
      PROVE  EntriesMatch'
  <2>1. Fail(r, "FAILED") /\ Busy(r) /\ result' = result
    BY <1>12 DEF CloseFails, Finished
  <2> QED
    BY <2>1, FailKeepsEntries DEF Status
<1>13. ASSUME NEW r \in Requests, CommitFails(r)
      PROVE  EntriesMatch'
  <2>1. PICK o \in {"ROLLED_BACK", "FAILED"} : Fail(r, o)
    BY <1>13 DEF CommitFails, Undone, Unheard
  <2>2. Busy(r) /\ result' = result
    BY <1>13 DEF CommitFails, Finished
  <2> QED
    BY <2>1, <2>2, FailKeepsEntries DEF Status
<1>14. ASSUME NEW r \in Requests, Complete(r)
      PROVE  EntriesMatch'
  <2>1. UNCHANGED <<entry, lapsed, forgotten, result>> /\ Busy(r)
    BY <1>14 DEF Complete, Finished
  <2>2. \A d \in Requests \ {r} : stage'[d] = stage[d]
    BY <1>14 DEF Complete, Finished, GoTo
  <2> QED
    BY <2>1, <2>2
<1>15. ASSUME NEW r \in Requests, EndStream(r)
      PROVE  EntriesMatch'
  <2>1. UNCHANGED <<entry, lapsed, forgotten, result>> /\ Busy(r)
    BY <1>15 DEF EndStream
  <2>2. \A d \in Requests \ {r} : stage'[d] = stage[d]
    BY <1>15 DEF EndStream, GoTo
  <2> QED
    BY <2>1, <2>2
<1>16. ASSUME NEW r \in Requests, Reply(r)
      PROVE  EntriesMatch'
  <2>1. Settle(r) /\ Busy(r) /\ UNCHANGED <<lapsed, forgotten, result>>
    BY <1>16 DEF Reply
  <2> QED
    BY <2>1, SettleKeepsEntries
<1>17. ASSUME NEW r \in Requests, Flush(r)
      PROVE  EntriesMatch'
  <2>1. Settle(r) /\ Busy(r) /\ UNCHANGED <<lapsed, forgotten, result>>
    BY <1>17 DEF Flush
  <2> QED
    BY <2>1, SettleKeepsEntries
<1>18. ASSUME NEW r \in Requests, Disconnect(r)
      PROVE  EntriesMatch'
  <2>1. /\ entry' = [entry EXCEPT ![KeyOf[r]] = NoEntry] /\ KeyOf[r] \in IdemKeys
        /\ lapsed' = lapsed \cup {r} /\ UNCHANGED <<forgotten, result>>
        /\ entry[KeyOf[r]].owner = r
    BY <1>18 DEF Disconnect
  <2>2. \A d \in Requests : stage'[d] = stage[d] \/ stage'[d] = "over"
    BY <1>18 DEF Disconnect
  <2>3. ASSUME NEW d \in Requests \ {r}, Keyed(d), d \notin lapsed, KeyOf[d] = KeyOf[r]
        PROVE  ~Busy(d) /\ (Ran(d) => KeyOf[d] \in forgotten)
    BY <2>1, <2>3
  <2> QED
    BY <2>1, <2>2, <2>3
<1>19. ASSUME NEW r \in Requests, Age(r)
      PROVE  EntriesMatch'
  BY <1>19 DEF Age
<1>20. ASSUME NEW r \in Requests, NEW s \in Steps, StepRuns(r, s)
      PROVE  EntriesMatch'
  <2>1. /\ Busy(r) /\ UNCHANGED <<stage, entry, lapsed, forgotten>>
        /\ \A d \in Requests \ {r} : result'[d] = result[d]
    BY <1>20 DEF StepRuns, IsNext, Mark
  <2> QED
    BY <2>1, MarkKeepsEntries
<1>21. ASSUME NEW r \in Requests, NEW s \in Steps, StepFails(r, s)
      PROVE  EntriesMatch'
  <2>1. /\ Busy(r) /\ UNCHANGED <<stage, entry, lapsed, forgotten>>
        /\ \A d \in Requests \ {r} : result'[d] = result[d]
    BY <1>21 DEF StepFails, IsNext, Mark
  <2> QED
    BY <2>1, MarkKeepsEntries
<1>22. ASSUME NEW r \in Requests, NEW s \in Steps, PlanFails(r, s)
      PROVE  EntriesMatch'
  <2>1. PICK o \in {"ROLLED_BACK", "FAILED"} : Fail(r, o)
    BY <1>22 DEF PlanFails, Undone
  <2>2. /\ Busy(r) /\ UNCHANGED <<lapsed, forgotten>>
        /\ \A d \in Requests \ {r} : result'[d] = result[d]
    BY <1>22, <2>1, FailTypes DEF PlanFails, IsNext, Mark, Status
  <2>3. CASE r \in Streamed
    BY <2>1, <2>2, <2>3, MarkKeepsEntries DEF Status
  <2>4. CASE r \notin Streamed
    <3>1. ~Keyed(r)
      BY <2>4 DEF Streamed, Kind, Input
    <3>2. Others(r) /\ entry' = entry
      BY <2>1, <2>4, <3>1, FailTypes DEF Fail, Settle, Status
    <3> QED
      BY <2>2, <3>1, <3>2 DEF Others
  <2> QED
    BY <2>3, <2>4
<1>23. ASSUME NEW k \in IdemKeys, Sweep(k)
      PROVE  EntriesMatch'
  <2>1. /\ entry[k].kind = "done" /\ entry' = [entry EXCEPT ![k] = NoEntry]
        /\ forgotten' = forgotten \cup {k} /\ UNCHANGED <<stage, lapsed, result>>
    BY <1>23 DEF Sweep
  <2> QED
    BY <2>1
<1>24. CASE DropStale
  BY <1>24 DEF DropStale
<1>25. CASE UNCHANGED vars
  BY <1>25 DEF vars
<1> QED
  BY <1>1, <1>2, <1>3, <1>4, <1>5, <1>6, <1>7, <1>8, <1>9, <1>10, <1>11,
     <1>12, <1>13, <1>14, <1>15, <1>16, <1>17, <1>18, <1>19, <1>20, <1>21,
     <1>22, <1>23, <1>24, <1>25
  DEF Next, Handle

(* The entries match the handlers in every state.                          *)
LEMMA EntriesHold == Spec => []EntriesMatch
<1>1. Init => EntriesMatch
  BY DEF Init, EntriesMatch, Busy, Ran
<1>2. TypeOK /\ RecordMatches /\ EntriesMatch /\ [Next]_vars => EntriesMatch'
  BY KeyStep
<1>3. Record => RecordMatches
  BY DEF Record
<1> QED
  BY <1>1, <1>2, <1>3, TypeCorrect, RecordHolds, PTL DEF Spec

(* Two requests with one idempotency key execute a plan each only if a      *)
(* socket closed early or the reply was swept (idempotency.ts).            *)
THEOREM OneRunPerKey == Spec => []KeyRunsOnce
<1>1. EntriesMatch => KeyRunsOnce
  BY DEF EntriesMatch, KeyRunsOnce, Keyed
<1> QED
  BY <1>1, EntriesHold, PTL
================================================================================
