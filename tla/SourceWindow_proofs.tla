------------------------- MODULE SourceWindow_proofs -------------------------
(***************************************************************************)
(* Proofs about SourceWindow for every file, batch size, window and fan-   *)
(* out.  The invariant says where every valid row the reader has passed    *)
(* is: with each sink, in the batch being cut, or in a batch in flight;    *)
(* and that what lies up to a batch's cursor is in that batch or before it.*)
(* While nothing fails or dies, a rejected row is with the reject sink, or  *)
(* in a batch that is on its way there.                                    *)
(***************************************************************************)
EXTENDS SourceWindow, SequenceTheorems, TLAPS

Driving == phase \in {"reading", "draining"}

(* Row r is on its way to sink s in one of the first k batches.            *)
Carries(b, r, s) == r \in b.rows /\ b.at[s] # "none"
InFirst(k, r, s) == \E j \in 1 .. k : Carries(window[j], r, s)

(* A finished branch left its rows with the target; a data batch goes to   *)
(* every sink.                                                             *)
BranchesAreTrue ==
  \A k \in 1 .. Len(window), s \in Targets :
    /\ window[k].at[s] = "done" => window[k].rows \subseteq landed[s]
    /\ window[k].at[s] = "skipped" => window[k].rows \subseteq dropped[s]
    /\ (window[k].cursor # 0 /\ s \in Sinks) => window[k].at[s] # "none"

CursorsAscend ==
  /\ Driving => cursor <= pos
  /\ Driving => \A k \in 1 .. Len(window) :
       window[k].cursor # 0 => cursor <= window[k].cursor /\ window[k].cursor <= pos
  /\ \A j, k \in 1 .. Len(window) :
       (j < k /\ window[j].cursor # 0 /\ window[k].cursor # 0)
         => window[j].cursor <= window[k].cursor

BatchesCover ==
  Driving => \A k \in 1 .. Len(window) : \A r \in Good, s \in Sinks :
    (window[k].cursor # 0 /\ r <= window[k].cursor)
      => (r \in Handled(s) \/ InFirst(k, r, s))

ReaderCovers ==
  Driving => \A r \in Good, s \in Sinks :
    r <= pos => (r \in Handled(s) \/ r \in records \/ InFirst(Len(window), r, s))

Stages ==
  /\ phase = "draining" => pos = N /\ records = {}
  /\ phase = "down" => window = <<>> /\ records = {}

Inv ==
  /\ TypeOK /\ CheckpointIsCovered /\ SuccessIsComplete
  /\ BranchesAreTrue /\ CursorsAscend /\ BatchesCover /\ ReaderCovers /\ Stages

-----------------------------------------------------------------------------
(* Changing one branch of one batch changes that branch and nothing else.  *)
SetBranch(w, k, s, x) == [w EXCEPT ![k].at[s] = x]
CountTry(w, k, s) == [w EXCEPT ![k].tries[s] = @ + 1]

SameBatches(w, v) ==
  /\ v \in Seq(Batch) /\ Len(v) = Len(w)
  /\ \A j \in 1 .. Len(w) : v[j].rows = w[j].rows /\ v[j].cursor = w[j].cursor
OneBranch(w, v, k, s, x) ==
  \A j \in 1 .. Len(w), t \in Targets :
    v[j].at[t] = IF j = k /\ t = s THEN x ELSE w[j].at[t]
NoBranch(w, v) == \A j \in 1 .. Len(w) : v[j].at = w[j].at

(* SetBranch changes one branch of one batch.                              *)
LEMMA BranchSet ==
  ASSUME NEW w \in Seq(Batch), NEW k \in 1 .. Len(w), NEW s \in Targets,
         NEW x \in {"none", "writing", "done", "skipped", "failed"},
         NEW v, v = SetBranch(w, k, s, x)
  PROVE  SameBatches(w, v) /\ OneBranch(w, v, k, s, x)
<1> DEFINE e == [w[k] EXCEPT !.at[s] = x]
<1>1. w[k] \in Batch
  OBVIOUS
<1>2. e \in Batch /\ e.rows = w[k].rows /\ e.cursor = w[k].cursor
      /\ \A t \in Targets : e.at[t] = IF t = s THEN x ELSE w[k].at[t]
  BY <1>1 DEF Batch
<1>3. v = [w EXCEPT ![k] = e]
  BY DEF SetBranch
<1> HIDE DEF e
<1>4. v \in Seq(Batch) /\ Len(v) = Len(w)
      /\ \A j \in 1 .. Len(w) : v[j] = IF j = k THEN e ELSE w[j]
  BY <1>2, <1>3
<1>5. \A j \in 1 .. Len(w) : v[j].rows = w[j].rows /\ v[j].cursor = w[j].cursor
  BY <1>2, <1>4
<1>6. ASSUME NEW j \in 1 .. Len(w), NEW t \in Targets
      PROVE  v[j].at[t] = IF j = k /\ t = s THEN x ELSE w[j].at[t]
  <2>1. CASE j = k
    BY <1>2, <1>4, <2>1
  <2>2. CASE j # k
    BY <1>4, <2>2
  <2> QED BY <2>1, <2>2
<1> QED BY <1>4, <1>5, <1>6 DEF SameBatches, OneBranch

(* CountTry changes no branch.                                             *)
LEMMA TriesSet ==
  ASSUME NEW w \in Seq(Batch), NEW k \in 1 .. Len(w), NEW s \in Targets,
         NEW v, v = CountTry(w, k, s)
  PROVE  SameBatches(w, v) /\ NoBranch(w, v)
<1> DEFINE e == [w[k] EXCEPT !.tries[s] = @ + 1]
<1>1. w[k] \in Batch
  OBVIOUS
<1>2. e \in Batch /\ e.rows = w[k].rows /\ e.cursor = w[k].cursor /\ e.at = w[k].at
  <2>1. [w[k].tries EXCEPT ![s] = @ + 1] \in [Targets -> Nat]
    BY <1>1 DEF Batch
  <2>2. e = [w[k] EXCEPT !.tries = [w[k].tries EXCEPT ![s] = @ + 1]]
    BY <1>1 DEF Batch
  <2> QED BY <1>1, <2>1, <2>2 DEF Batch
<1>3. v = [w EXCEPT ![k] = e]
  BY DEF CountTry
<1> HIDE DEF e
<1>4. v \in Seq(Batch) /\ Len(v) = Len(w)
      /\ \A j \in 1 .. Len(w) : v[j] = IF j = k THEN e ELSE w[j]
  BY <1>2, <1>3
<1> QED BY <1>2, <1>4 DEF SameBatches, NoBranch

(* A new batch goes to the end of the window.                              *)
LEMMA Pushed ==
  ASSUME NEW w \in Seq(Batch), NEW b \in Batch, NEW v, v = Append(w, b)
  PROVE  /\ v \in Seq(Batch) /\ Len(v) = Len(w) + 1 /\ v[Len(w) + 1] = b
         /\ \A j \in 1 .. Len(w) : v[j] = w[j]
OBVIOUS

(* A window without its head.                                              *)
LEMMA Popped ==
  ASSUME NEW w \in Seq(Batch), w # <<>>, NEW v, v = Tail(w)
  PROVE  /\ v \in Seq(Batch) /\ Len(v) = Len(w) - 1 /\ Len(w) \in Nat \ {0}
         /\ Head(w) = w[1] /\ w[1] \in Batch
         /\ \A j \in 1 .. Len(v) : v[j] = w[j + 1]
OBVIOUS

(* A batch of rows is a batch.                                             *)
LEMMA DataBatchType ==
  ASSUME NEW R \in SUBSET Rows, NEW c \in 0 .. N
  PROVE  DataBatch(R, c) \in Batch
BY DEF DataBatch, Batch

(* A batch of rejects is a batch.                                          *)
LEMMA RejectBatchType ==
  ASSUME NEW R \in SUBSET Rows
  PROVE  RejectBatch(R) \in Batch
BY SizeAssumption DEF RejectBatch, Batch

(* What an abandoned batch leaves writing are strays.                      *)
LEMMA LeftTypes ==
  ASSUME NEW b \in Batch, failures \in 0 .. Attempts
  PROVE  Left(b) \subseteq Stray
BY DEF Left, Going, Stray, Batch

(* What an arriving batch leaves well typed.                               *)
LEMMA EmitTypes ==
  ASSUME TypeOK, Reading, NEW b \in Batch, Emit(b)
  PROVE  /\ window' \in Seq(Batch) /\ Len(window') <= Limit
         /\ phase' \in Phase
         /\ UNCHANGED <<outside, failures, strays, aborted, crashes>>
<1>1. window \in Seq(Batch) /\ Len(window) < Limit
  BY SizeAssumption DEF TypeOK, Reading, Full
<1>2. window' \in Seq(Batch) /\ Len(window') <= Limit
  <2>1. CASE window' = window
    BY <1>1, <2>1, SizeAssumption
  <2>2. CASE window' = Append(window, b)
    BY <1>1, <2>2, Pushed, SizeAssumption
  <2> QED BY <2>1, <2>2 DEF Emit
<1> QED BY <1>2 DEF Emit, TypeOK, Phase, Ended

(* Every step keeps the types.                                             *)
LEMMA TypeStep == TypeOK /\ [Next]_vars => TypeOK'
<1> SUFFICES ASSUME TypeOK, [Next]_vars PROVE TypeOK'
  OBVIOUS
<1> USE SizeAssumption, OptionAssumption
<1>t. /\ bad \in SUBSET Rows /\ phase \in Phase /\ failures \in 0 .. Attempts
      /\ pos \in 0 .. N /\ records \in SUBSET Rows /\ rejects \in SUBSET Rows
      /\ window \in Seq(Batch) /\ Len(window) <= Limit /\ cursor \in 0 .. N
      /\ landed \in [Targets -> SUBSET Rows] /\ dropped \in [Targets -> SUBSET Rows]
      /\ strays \in SUBSET Stray /\ aborted \in BOOLEAN /\ crashes \in 0 .. MaxCrashes
  BY DEF TypeOK
<1>1. CASE ReadGood
  <2> DEFINE r == pos + 1
  <2>0. r \in Rows /\ r \in 0 .. N /\ records \cup {r} \in SUBSET Rows /\ pos' = r /\ rejects' = rejects
        /\ Reading
    BY <1>1, <1>t DEF ReadGood, Good, Rows
  <2>1. DataBatch(records \cup {r}, r) \in Batch
    BY <2>0, DataBatchType
  <2>2. CASE Emit(DataBatch(records \cup {r}, r)) /\ records' = {}
    BY <1>t, <2>0, <2>1, <2>2, EmitTypes DEF TypeOK, outside
  <2>3. CASE records' = records \cup {r}
             /\ UNCHANGED <<outside, phase, failures, window, strays, aborted, crashes>>
    BY <1>t, <2>0, <2>3 DEF TypeOK, outside
  <2> QED BY <1>1, <2>2, <2>3 DEF ReadGood
<1>2. CASE ReadBad
  <2> DEFINE r == pos + 1
  <2>0. r \in Rows /\ r \in 0 .. N /\ rejects \cup {r} \in SUBSET Rows /\ pos' = r /\ records' = records
        /\ Reading
    BY <1>2, <1>t DEF ReadBad, Rows
  <2>1. RejectBatch(rejects \cup {r}) \in Batch
    BY <2>0, RejectBatchType
  <2>2. CASE Emit(RejectBatch(rejects \cup {r})) /\ rejects' = {}
    BY <1>t, <2>0, <2>1, <2>2, EmitTypes DEF TypeOK, outside
  <2>3. CASE rejects' = rejects \cup {r}
             /\ UNCHANGED <<outside, phase, failures, window, strays, aborted, crashes>>
    BY <1>t, <2>0, <2>3 DEF TypeOK, outside
  <2> QED BY <1>2, <2>2, <2>3 DEF ReadBad
<1>3. CASE FlushRejects
  <2>1. RejectBatch(rejects) \in Batch
    BY <1>t, RejectBatchType
  <2> QED BY <1>3, <1>t, <2>1, EmitTypes DEF FlushRejects, TypeOK, outside
<1>4. CASE FlushRecords
  <2>1. DataBatch(records, N) \in Batch
    BY <1>t, DataBatchType
  <2> QED BY <1>4, <1>t, <2>1, EmitTypes DEF FlushRecords, TypeOK, outside
<1>5. CASE ReadDone \/ ReadFails \/ Succeed
  BY <1>5, <1>t DEF ReadDone, ReadFails, Succeed, TypeOK, outside, reader, Phase, Ended
<1>6. CASE DrainHead
  <2>0. window' \in Seq(Batch) /\ Len(window') = Len(window) - 1 /\ Len(window) \in Nat
        /\ Head(window) \in Batch
    BY <1>6, <1>t, Popped DEF DrainHead, MustDrain
  <2>1. window' \in Seq(Batch) /\ Len(window') <= Limit /\ Head(window).cursor \in 0 .. N
    BY <1>t, <2>0 DEF Batch
  <2> QED BY <1>6, <1>t, <2>1 DEF DrainHead, TypeOK, reader
<1>7. CASE HeadFails
  <2>1. window' \in Seq(Batch) /\ Len(window') <= Limit /\ Head(window) \in Batch
    BY <1>7, <1>t, Popped DEF HeadFails, MustDrain
  <2>2. strays' \in SUBSET Stray
    BY <1>7, <1>t, <2>1, LeftTypes DEF HeadFails
  <2> QED BY <1>7, <1>t, <2>1, <2>2 DEF HeadFails, TypeOK, outside, reader, Phase, Ended
<1>8. ASSUME NEW p, Rest(p)
      PROVE  /\ window' \in Seq(Batch) /\ Len(window') <= Limit
             /\ strays' \in SUBSET Stray
  <2>1. \A k \in 1 .. Len(window) : Left(window[k]) \subseteq Stray
    BY <1>t, LeftTypes
  <2> QED BY <1>8, <1>t, <2>1 DEF Rest
<1>9. CASE Retry
  BY <1>9, <1>8, <1>t DEF Retry, Rest, TypeOK, outside, Phase, Ended
<1>10. CASE GiveUp
  <2>1. (Rest("failing") \/ Rest("aborting")) /\ phase' \in Phase
    BY <1>10 DEF GiveUp, Phase, Ended
  <2> QED BY <1>10, <1>8, <1>t, <2>1 DEF GiveUp, Rest, TypeOK, outside, reader
<1>11. CASE Restart
  BY <1>11, <1>t DEF Restart, TypeOK, outside, Phase
<1>12. ASSUME NEW k \in 1 .. Limit, NEW s \in Targets, Writing(k, s), Resolve(k, s)
       PROVE  window' \in Seq(Batch) /\ Len(window') <= Limit
              /\ dropped' \in [Targets -> SUBSET Rows]
  <2>1. k \in 1 .. Len(window) /\ window[k] \in Batch
    BY <1>12, <1>t DEF Writing
  <2>2. CASE window' = [window EXCEPT ![k].tries[s] = @ + 1] /\ UNCHANGED dropped
    <3>1. window' = CountTry(window, k, s)
      BY <2>2 DEF CountTry
    <3>2. dropped' = dropped
      BY <2>2
    <3> QED BY <1>t, <2>1, <3>1, <3>2, TriesSet DEF SameBatches
  <2>3. CASE window' = [window EXCEPT ![k].at[s] = "failed"] /\ UNCHANGED dropped
    <3>1. window' = SetBranch(window, k, s, "failed")
      BY <2>3 DEF SetBranch
    <3>2. dropped' = dropped
      BY <2>3
    <3> QED BY <1>t, <2>1, <3>1, <3>2, BranchSet DEF SameBatches
  <2>4. CASE window' = [window EXCEPT ![k].at[s] = "skipped"]
             /\ dropped' = [dropped EXCEPT ![s] = @ \cup window[k].rows]
    <3>1. window' = SetBranch(window, k, s, "skipped")
      BY <2>4 DEF SetBranch
    <3>2. window' \in Seq(Batch) /\ Len(window') = Len(window)
      BY <1>t, <2>1, <3>1, BranchSet DEF SameBatches
    <3> QED BY <1>t, <2>1, <2>4, <3>2 DEF Batch
  <2> QED BY <1>12, <2>2, <2>3, <2>4 DEF Resolve
<1>13. ASSUME NEW k \in 1 .. Limit, NEW s \in Targets, Land(k, s)
       PROVE  TypeOK'
  <2>1. k \in 1 .. Len(window) /\ window[k] \in Batch
    BY <1>13, <1>t DEF Land, Writing
  <2>2. window' \in Seq(Batch) /\ Len(window') = Len(window)
    <3>1. window' = SetBranch(window, k, s, "done")
      BY <1>13 DEF Land, SetBranch
    <3> QED BY <1>t, <2>1, <3>1, BranchSet DEF SameBatches
  <2>3. landed' \in [Targets -> SUBSET Rows]
    BY <1>13, <1>t, <2>1 DEF Land, Batch
  <2> QED BY <1>13, <1>t, <2>2, <2>3 DEF Land, Writing, TypeOK, reader
<1>14. ASSUME NEW k \in 1 .. Limit, NEW s \in Targets, WriteFails(k, s)
       PROVE  TypeOK'
  BY <1>14, <1>12, <1>t DEF WriteFails, Writing, TypeOK, reader
<1>15. ASSUME NEW k \in 1 .. Limit, NEW s \in Targets, WriteTimesOut(k, s)
       PROVE  TypeOK'
  <2>1. window[k] \in Batch
    BY <1>15, <1>t DEF WriteTimesOut, Writing
  <2>2. strays' \in SUBSET Stray
    BY <1>15, <1>t, <2>1 DEF WriteTimesOut, Stray, Batch
  <2> QED BY <1>15, <1>12, <1>t, <2>2 DEF WriteTimesOut, Writing, TypeOK, reader
<1>16. CASE StrayEnds
  <2> PICK x \in strays :
        /\ strays' = strays \ {x}
        /\ landed' \in {landed, [landed EXCEPT ![x.sink] = @ \cup x.rows]}
        /\ UNCHANGED <<bad, phase, failures, reader, window, cursor, dropped, aborted, crashes>>
    BY <1>16 DEF StrayEnds
  <2>1. landed' \in [Targets -> SUBSET Rows]
    BY <1>t DEF Stray
  <2> QED BY <1>t, <2>1 DEF TypeOK, reader
<1>17. CASE Abort
  BY <1>17, <1>t DEF Abort, TypeOK, outside, reader
<1>19. CASE Crash
  <2>1. window' \in Seq(Batch) /\ Len(window') <= Limit /\ crashes' \in 0 .. MaxCrashes
    BY <1>19, <1>t DEF Crash
  <2>2. failures' \in 0 .. Attempts /\ pos' \in 0 .. N
    BY <1>19 DEF Crash
  <2>3. /\ phase' \in Phase /\ aborted' \in BOOLEAN
        /\ records' \subseteq Rows /\ rejects' \subseteq Rows /\ strays' \subseteq Stray
    BY <1>19, Zenon DEF Crash, Phase
  <2> QED BY <1>19, <1>t, <2>1, <2>2, <2>3 DEF Crash, TypeOK, outside
<1>18. CASE UNCHANGED vars
  BY <1>18, <1>t DEF TypeOK, vars
<1> QED
  BY <1>1, <1>2, <1>3, <1>4, <1>5, <1>6, <1>7, <1>9, <1>10, <1>11, <1>13, <1>14, <1>15,
     <1>16, <1>17, <1>18, <1>19 DEF Next, Read, Drive, TimeOut

(* The first state is well typed.                                          *)
LEMMA TypeInit == Init => TypeOK
<1> SUFFICES ASSUME Init PROVE TypeOK
  OBVIOUS
<1>1. window \in Seq(Batch) /\ Len(window) <= Limit
  BY SizeAssumption DEF Init
<1>2. landed \in [Targets -> SUBSET Rows] /\ dropped \in [Targets -> SUBSET Rows]
  BY DEF Init
<1>3. /\ failures \in 0 .. Attempts /\ pos \in 0 .. N /\ cursor \in 0 .. N
      /\ crashes \in 0 .. MaxCrashes
  BY SizeAssumption DEF Init
<1>4. /\ phase \in Phase /\ bad \subseteq Rows /\ records \subseteq Rows
      /\ rejects \subseteq Rows /\ strays \subseteq Stray /\ aborted \in BOOLEAN
  BY LayoutAssumption DEF Init, Phase
<1> QED BY <1>1, <1>2, <1>3, <1>4 DEF TypeOK

(* Every reachable state is well typed, and the window never holds more    *)
(* than Limit batches: runSource reads only while it has room.             *)
THEOREM TypeCorrect == Spec => []TypeOK
<1> QED BY TypeInit, TypeStep, PTL DEF Spec

-----------------------------------------------------------------------------
(* Nothing that landed is taken back; which rows are valid never changes.  *)
Grows ==
  /\ bad' = bad
  /\ \A s \in Targets : landed[s] \subseteq landed'[s] /\ dropped[s] \subseteq dropped'[s]

(* What landed or was dropped stays so.                                    *)
LEMMA StepGrows ==
  ASSUME TypeOK, [Next]_vars
  PROVE  Grows
<1>t. /\ landed \in [Targets -> SUBSET Rows] /\ dropped \in [Targets -> SUBSET Rows]
      /\ window \in Seq(Batch) /\ strays \in SUBSET Stray
  BY DEF TypeOK
<1>1. CASE UNCHANGED outside
  BY <1>1 DEF Grows, outside
<1>2. CASE DrainHead
  BY <1>2 DEF Grows, DrainHead
<1>3. ASSUME NEW k \in 1 .. Limit, NEW s \in Targets, Land(k, s)
      PROVE  Grows
  BY <1>3, <1>t DEF Grows, Land, Writing
<1>4. ASSUME NEW k \in 1 .. Limit, NEW s \in Targets, Writing(k, s), Resolve(k, s),
             UNCHANGED landed
      PROVE  Grows
  <2>1. CASE UNCHANGED dropped
    BY <1>4, <2>1 DEF Grows, Writing
  <2>2. CASE dropped' = [dropped EXCEPT ![s] = @ \cup window[k].rows]
    BY <1>4, <1>t, <2>2 DEF Grows, Writing
  <2> QED BY <1>4, <2>1, <2>2 DEF Resolve
<1>5. CASE StrayEnds
  BY <1>5, <1>t DEF Grows, StrayEnds, Stray
<1>6. CASE UNCHANGED vars
  BY <1>6 DEF Grows, vars
<1>7. ASSUME NEW b, Emit(b) PROVE UNCHANGED outside
  BY <1>7 DEF Emit
<1>8. CASE ReadGood \/ ReadBad \/ FlushRejects \/ FlushRecords
  BY <1>8, <1>1, <1>7 DEF ReadGood, ReadBad, FlushRejects, FlushRecords
<1>9. CASE ReadDone \/ ReadFails \/ HeadFails \/ Succeed \/ Restart \/ Abort \/ Crash
  BY <1>9, <1>1 DEF ReadDone, ReadFails, HeadFails, Succeed, Restart, Abort, Crash
<1>10. CASE Retry \/ GiveUp
  BY <1>10, <1>1 DEF Retry, GiveUp, Rest
<1> QED
  BY <1>2, <1>3, <1>4, <1>5, <1>6, <1>8, <1>9, <1>10
  DEF Next, Read, Drive, TimeOut, WriteFails, WriteTimesOut

(* What is covered stays covered as long as the checkpoint stays.          *)
LEMMA CoverStays ==
  ASSUME Inv, TypeOK', Grows, cursor' = cursor
  PROVE  CheckpointIsCovered'
BY DEF Inv, CheckpointIsCovered, Grows, Handled, Good, Targets

(* An attempt that stops driving leaves only true branches behind.         *)
LEMMA LeaveStep ==
  ASSUME Inv, TypeOK', Grows, cursor' = cursor, ~Driving',
         phase' # "success", phase' # "down",
         BranchesAreTrue', CursorsAscend'
  PROVE  Inv'
BY CoverStays DEF Inv, SuccessIsComplete, BatchesCover, ReaderCovers, Stages, Driving

(* The window itself and the places of the reader stay as they are.        *)
LEMMA StillStep ==
  ASSUME Inv, TypeOK', Grows, UNCHANGED <<cursor, window, pos, records, phase>>
  PROVE  Inv'
<1>1. BranchesAreTrue'
  BY DEF Inv, BranchesAreTrue, Grows
<1>2. CursorsAscend' /\ Stages'
  BY DEF Inv, CursorsAscend, Stages, Driving
<1>3. SuccessIsComplete' /\ BatchesCover' /\ ReaderCovers'
  BY DEF Inv, SuccessIsComplete, BatchesCover, ReaderCovers, Driving, InFirst, Carries,
         Grows, Handled, Good, Targets
<1> QED BY <1>1, <1>2, <1>3, CoverStays DEF Inv

(* A batch that arrives covers what the reader passed with it.             *)
LEMMA PushStep ==
  ASSUME Inv, TypeOK', Grows, NEW b \in Batch, phase = "reading", phase' = "reading",
         window' = Append(window, b), cursor' = cursor, pos' >= pos,
         b.cursor = 0 \/ (b.cursor = pos' /\ records' = {}),
         \A s \in Targets : b.at[s] \in {"none", "writing"},
         \A s \in Sinks : b.cursor # 0 => b.at[s] # "none",
         \A r \in Good, s \in Sinks : r <= pos' =>
           (r \in Handled(s) \/ r \in records' \/ Carries(b, r, s)
              \/ InFirst(Len(window), r, s))
  PROVE  Inv'
<1> DEFINE L == Len(window)
<1>t. /\ window \in Seq(Batch) /\ L \in Nat /\ cursor \in 0 .. N /\ pos \in 0 .. N /\ pos' \in 0 .. N
      /\ \A j \in 1 .. L : window[j].cursor \in 0 .. N
  <2>1. window \in Seq(Batch) /\ cursor \in 0 .. N /\ pos \in 0 .. N /\ pos' \in 0 .. N
    BY DEF Inv, TypeOK
  <2>2. \A j \in 1 .. L : window[j] \in Batch
    BY <2>1
  <2> QED BY <2>1, <2>2 DEF Batch
<1>w. window' \in Seq(Batch) /\ Len(window') = L + 1 /\ window'[L + 1] = b
      /\ \A j \in 1 .. L : window'[j] = window[j]
  BY <1>t, Pushed
<1>j. \A j \in 1 .. Len(window') : j \in 1 .. L \/ j = L + 1
  BY <1>t, <1>w
<1> HIDE DEF L
<1>g. Good' = Good /\ \A s \in Sinks : Handled(s) \subseteq Handled(s)'
  BY DEF Grows, Handled, Good, Targets
<1>1. BranchesAreTrue'
  <2>1. BranchesAreTrue
    BY DEF Inv
  <2> SUFFICES ASSUME NEW j \in 1 .. Len(window'), NEW s \in Targets
               PROVE  /\ window'[j].at[s] = "done" => window'[j].rows \subseteq landed'[s]
                      /\ window'[j].at[s] = "skipped" => window'[j].rows \subseteq dropped'[s]
                      /\ (window'[j].cursor # 0 /\ s \in Sinks) => window'[j].at[s] # "none"
    BY DEF BranchesAreTrue
  <2>2. CASE j = L + 1
    BY <1>w, <2>2
  <2>3. CASE j \in 1 .. L
    BY <1>w, <2>1, <2>3 DEF BranchesAreTrue, Grows, L
  <2> QED BY <1>j, <2>2, <2>3
<1>2. CursorsAscend'
  <2>1. CursorsAscend /\ Driving
    BY DEF Inv, Driving
  <2>2. \A j \in 1 .. Len(window') : window'[j].cursor # 0 =>
          cursor <= window'[j].cursor /\ window'[j].cursor <= pos'
    BY <1>t, <1>w, <1>j, <2>1 DEF CursorsAscend, L
  <2>3. ASSUME NEW i \in 1 .. Len(window'), NEW j \in 1 .. Len(window'), i < j,
               window'[i].cursor # 0, window'[j].cursor # 0
        PROVE  window'[i].cursor <= window'[j].cursor
    <3>1. i \in 1 .. L
      BY <1>t, <1>w, <2>3
    <3>2. CASE j = L + 1
      BY <1>t, <1>w, <2>1, <2>3, <3>1, <3>2 DEF CursorsAscend, L
    <3>3. CASE j \in 1 .. L
      BY <1>w, <2>1, <2>3, <3>1, <3>3 DEF CursorsAscend, L
    <3> QED BY <1>j, <3>2, <3>3
  <2> QED BY <1>t, <2>1, <2>2, <2>3 DEF CursorsAscend
<1>3. \A k \in 0 .. L, r \in Good, s \in Sinks :
        (\E j \in 1 .. k : Carries(window[j], r, s)) => \E j \in 1 .. k : Carries(window'[j], r, s)
  BY <1>t, <1>w
<1>4. \A r \in Good, s \in Sinks :
        ((\E j \in 1 .. L : Carries(window[j], r, s)) \/ Carries(b, r, s))
          => \E j \in 1 .. Len(window') : Carries(window'[j], r, s)
  BY <1>t, <1>w
<1>5. ReaderCovers'
  BY <1>g, <1>4 DEF ReaderCovers, InFirst, L
<1>6. BatchesCover'
  <2> SUFFICES ASSUME NEW k \in 1 .. Len(window'), NEW r \in Good, NEW s \in Sinks,
                      window'[k].cursor # 0, r <= window'[k].cursor
               PROVE  r \in Handled(s)' \/ \E j \in 1 .. k : Carries(window'[j], r, s)
    BY <1>g DEF BatchesCover, InFirst
  <2>1. CASE k = L + 1
    BY <1>w, <1>g, <1>4, <2>1 DEF InFirst, L
  <2>2. CASE k \in 1 .. L
    <3>1. r \in Handled(s) \/ \E j \in 1 .. k : Carries(window[j], r, s)
      BY <1>w, <2>2 DEF Inv, BatchesCover, Driving, InFirst, L
    <3>2. k \in 0 .. L
      BY <1>t, <2>2
    <3>3. (\E j \in 1 .. k : Carries(window[j], r, s)) => \E j \in 1 .. k : Carries(window'[j], r, s)
      BY <1>3, <3>2
    <3> QED BY <1>g, <3>1, <3>3
  <2> QED BY <1>j, <2>1, <2>2
<1> QED
  BY <1>1, <1>2, <1>5, <1>6, CoverStays DEF Inv, SuccessIsComplete, Stages

(* A branch that moves on stays with its batch.                            *)
LEMMA BranchStep ==
  ASSUME Inv, TypeOK', Grows, UNCHANGED <<cursor, pos, records, phase>>,
         SameBatches(window, window'),
         \A j \in 1 .. Len(window), s \in Targets :
           window[j].at[s] # "none" => window'[j].at[s] # "none",
         BranchesAreTrue'
  PROVE  Inv'
<1>s. /\ window' \in Seq(Batch) /\ Len(window') = Len(window)
      /\ \A j \in 1 .. Len(window) :
           window'[j].rows = window[j].rows /\ window'[j].cursor = window[j].cursor
  BY DEF SameBatches
<1>1. CursorsAscend' /\ Stages'
  <2>1. CursorsAscend /\ Stages /\ window \in Seq(Batch)
    BY DEF Inv, TypeOK
  <2>2. window = <<>> => window' = <<>>
    BY <1>s, <2>1
  <2> QED BY <1>s, <2>1, <2>2 DEF CursorsAscend, Stages, Driving
<1>2. \A j \in 1 .. Len(window), r \in Good, s \in Sinks :
        Carries(window[j], r, s) => Carries(window'[j], r, s)
  BY <1>s DEF Carries, Targets
<1>3. Good' = Good /\ \A s \in Sinks : Handled(s) \subseteq Handled(s)'
  BY DEF Grows, Handled, Good, Targets
<1>4. Len(window) \in Nat
  BY DEF Inv, TypeOK
<1>5. ReaderCovers'
  BY <1>s, <1>2, <1>3, <1>4 DEF Inv, ReaderCovers, Driving, InFirst
<1>6. BatchesCover'
  <2> SUFFICES ASSUME Driving, NEW k \in 1 .. Len(window), NEW r \in Good, NEW s \in Sinks,
                      window[k].cursor # 0, r <= window[k].cursor
               PROVE  r \in Handled(s)' \/ \E j \in 1 .. k : Carries(window'[j], r, s)
    BY <1>s, <1>3 DEF BatchesCover, InFirst, Driving
  <2>1. r \in Handled(s) \/ \E j \in 1 .. k : Carries(window[j], r, s)
    BY DEF Inv, BatchesCover, InFirst
  <2>2. \A j \in 1 .. k : j \in 1 .. Len(window)
    BY <1>4
  <2> QED BY <1>2, <1>3, <2>1, <2>2
<1>7. SuccessIsComplete'
  BY <1>3 DEF Inv, SuccessIsComplete
<1> QED BY <1>1, <1>5, <1>6, <1>7, CoverStays DEF Inv

(* A write that lands keeps the invariant.                                 *)
LEMMA LandStep ==
  ASSUME Inv, TypeOK', Grows, NEW k \in 1 .. Limit, NEW s \in Targets, Land(k, s)
  PROVE  Inv'
<1>t. window \in Seq(Batch) /\ k \in 1 .. Len(window)
      /\ landed \in [Targets -> SUBSET Rows] /\ window' = SetBranch(window, k, s, "done")
  BY DEF Inv, TypeOK, Land, Writing, SetBranch
<1>1. SameBatches(window, window') /\ OneBranch(window, window', k, s, "done")
  BY <1>t, BranchSet
<1>2. BranchesAreTrue'
  <2>1. BranchesAreTrue
    BY DEF Inv
  <2>2. window[k].rows \subseteq landed'[s] /\ window[k].at[s] = "writing"
    BY <1>t DEF Land, Writing
  <2> QED BY <1>1, <2>1, <2>2 DEF BranchesAreTrue, Grows, SameBatches, OneBranch
<1>3. UNCHANGED <<cursor, pos, records, phase>>
  BY DEF Land, Writing, reader
<1>4. \A j \in 1 .. Len(window), t \in Targets :
        window[j].at[t] # "none" => window'[j].at[t] # "none"
  BY <1>1 DEF OneBranch
<1> QED BY <1>1, <1>2, <1>3, <1>4, BranchStep

(* A write that is skipped or given up keeps the invariant.                *)
LEMMA ResolveStep ==
  ASSUME Inv, TypeOK', Grows, NEW k \in 1 .. Limit, NEW s \in Targets,
         Writing(k, s), Resolve(k, s)
  PROVE  Inv'
<1>t. window \in Seq(Batch) /\ k \in 1 .. Len(window) /\ window[k].at[s] = "writing"
      /\ dropped \in [Targets -> SUBSET Rows]
  BY DEF Inv, TypeOK, Writing
<1>u. UNCHANGED <<cursor, pos, records, phase>> /\ BranchesAreTrue
  BY DEF Inv, Writing, reader
<1>1. CASE window' = [window EXCEPT ![k].tries[s] = @ + 1]
  <2>0. window' = CountTry(window, k, s)
    BY <1>1 DEF CountTry
  <2>1. SameBatches(window, window') /\ NoBranch(window, window')
    BY <1>t, <2>0, TriesSet
  <2>2. BranchesAreTrue'
    BY <1>u, <2>1 DEF BranchesAreTrue, Grows, SameBatches, NoBranch
  <2>3. \A j \in 1 .. Len(window), t \in Targets :
          window[j].at[t] # "none" => window'[j].at[t] # "none"
    BY <2>1 DEF NoBranch
  <2> QED BY <1>u, <2>1, <2>2, <2>3, BranchStep
<1>2. ASSUME NEW x \in {"failed", "skipped"}, window' = SetBranch(window, k, s, x),
             x = "skipped" => window[k].rows \subseteq dropped'[s]
      PROVE  Inv'
  <2>1. SameBatches(window, window') /\ OneBranch(window, window', k, s, x)
    BY <1>t, <1>2, BranchSet
  <2>2. BranchesAreTrue'
    BY <1>u, <1>2, <2>1 DEF BranchesAreTrue, Grows, SameBatches, OneBranch
  <2>3. \A j \in 1 .. Len(window), t \in Targets :
          window[j].at[t] # "none" => window'[j].at[t] # "none"
    BY <1>2, <2>1 DEF OneBranch
  <2> QED BY <1>u, <2>1, <2>2, <2>3, BranchStep
<1>3. CASE window' = [window EXCEPT ![k].at[s] = "failed"]
  <2>1. window' = SetBranch(window, k, s, "failed")
    BY <1>3 DEF SetBranch
  <2> QED BY <1>2, <2>1
<1>4. CASE /\ window' = [window EXCEPT ![k].at[s] = "skipped"]
           /\ dropped' = [dropped EXCEPT ![s] = @ \cup window[k].rows]
  <2>1. window' = SetBranch(window, k, s, "skipped")
    BY <1>4 DEF SetBranch
  <2>2. window[k].rows \subseteq dropped'[s]
    BY <1>t, <1>4
  <2> QED BY <1>2, <2>1, <2>2
<1> QED BY <1>1, <1>3, <1>4 DEF Resolve

(* Draining the head: every branch of it is done or skipped, so what it    *)
(* covered is with the sinks, and the checkpoint may move.                 *)
LEMMA DrainStep ==
  ASSUME Inv, TypeOK', Grows, DrainHead
  PROVE  Inv' /\ cursor' >= cursor
<1> DEFINE h == window[1]
<1>t. /\ window \in Seq(Batch) /\ window # <<>> /\ cursor \in 0 .. N /\ pos \in 0 .. N
      /\ cursor' \in 0 .. N
  BY DEF Inv, TypeOK, DrainHead, MustDrain
<1>w. /\ window' \in Seq(Batch) /\ Len(window') = Len(window) - 1 /\ Len(window) \in Nat \ {0}
      /\ Head(window) = h /\ h \in Batch /\ \A j \in 1 .. Len(window') : window'[j] = window[j + 1]
  BY <1>t, Popped DEF DrainHead
<1>i. \A j \in 1 .. Len(window') : j + 1 \in 1 .. Len(window)
  BY <1>w
<1>n. \A j \in 1 .. Len(window) : window[j].cursor \in 0 .. N
  <2>1. \A j \in 1 .. Len(window) : window[j] \in Batch
    BY <1>t
  <2> QED BY <2>1 DEF Batch
<1>u. Driving /\ Driving' /\ UNCHANGED <<pos, records, phase, landed, dropped, bad>>
      /\ cursor' = IF h.cursor = 0 THEN cursor ELSE h.cursor
  BY <1>w DEF DrainHead, MustDrain, reader, Driving
<1>h. \A r \in Good, s \in Sinks : Carries(h, r, s) => r \in Handled(s)
  <2> SUFFICES ASSUME NEW r \in Good, NEW s \in Sinks, r \in h.rows, h.at[s] # "none"
               PROVE  r \in Handled(s)
    BY DEF Carries
  <2>1. h.at[s] \in {"none", "writing", "done", "skipped", "failed"}
    BY <1>w DEF Batch, Targets
  <2>2. h.at[s] # "writing" /\ h.at[s] # "failed"
    BY <1>w DEF DrainHead, Delivered, Going, Failed, Targets
  <2>3. (h.at[s] = "done" => h.rows \subseteq landed[s])
        /\ (h.at[s] = "skipped" => h.rows \subseteq dropped[s])
    BY <1>w DEF Inv, BranchesAreTrue, Targets
  <2> QED BY <2>1, <2>2, <2>3 DEF Handled
<1> HIDE DEF h
<1>1. BranchesAreTrue'
  BY <1>w, <1>i, <1>u DEF Inv, BranchesAreTrue
<1>2. cursor' >= cursor /\ cursor' <= pos
  BY <1>t, <1>w, <1>u, <1>n DEF Inv, CursorsAscend, h
<1>3. CursorsAscend'
  <2>0. CursorsAscend
    BY DEF Inv
  <2>1. \A j \in 1 .. Len(window') : window'[j].cursor # 0 =>
          cursor' <= window'[j].cursor /\ window'[j].cursor <= pos'
    <3> SUFFICES ASSUME NEW j \in 1 .. Len(window'), window'[j].cursor # 0
                 PROVE  cursor' <= window'[j].cursor /\ window'[j].cursor <= pos'
      OBVIOUS
    <3>1. window'[j] = window[j + 1] /\ j + 1 \in 1 .. Len(window) /\ 1 \in 1 .. Len(window) /\ 1 < j + 1
      BY <1>w, <1>i
    <3> QED BY <1>u, <2>0, <3>1 DEF CursorsAscend, h
  <2>2. \A i, j \in 1 .. Len(window') :
          (i < j /\ window'[i].cursor # 0 /\ window'[j].cursor # 0)
            => window'[i].cursor <= window'[j].cursor
    <3> SUFFICES ASSUME NEW i \in 1 .. Len(window'), NEW j \in 1 .. Len(window'), i < j,
                        window'[i].cursor # 0, window'[j].cursor # 0
                 PROVE  window'[i].cursor <= window'[j].cursor
      OBVIOUS
    <3>1. /\ window'[i] = window[i + 1] /\ window'[j] = window[j + 1]
          /\ i + 1 \in 1 .. Len(window) /\ j + 1 \in 1 .. Len(window) /\ i + 1 < j + 1
      BY <1>w, <1>i
    <3> QED BY <2>0, <3>1 DEF CursorsAscend
  <2> QED BY <1>2, <1>u, <2>1, <2>2 DEF CursorsAscend
<1>4. CheckpointIsCovered'
  <2>1. CASE h.cursor = 0
    BY <1>u, <2>1, CoverStays
  <2>2. CASE h.cursor # 0
    <3>1. \A r \in Good, s \in Sinks : r <= h.cursor => r \in Handled(s) \/ Carries(h, r, s)
      BY <1>w, <1>u, <2>2 DEF Inv, BatchesCover, InFirst, h
    <3> QED BY <1>u, <1>h, <2>2, <3>1 DEF CheckpointIsCovered, Handled, Good
  <2> QED BY <2>1, <2>2
<1>5. ASSUME NEW k \in Nat, NEW r \in Good, NEW s \in Sinks,
             k <= Len(window'), \E j \in 1 .. k + 1 : Carries(window[j], r, s)
      PROVE  r \in Handled(s) \/ \E j \in 1 .. k : Carries(window'[j], r, s)
  <2> PICK j \in 1 .. k + 1 : Carries(window[j], r, s)
    BY <1>5
  <2>1. CASE j = 1
    BY <1>h, <2>1 DEF h
  <2>2. CASE j # 1
    <3>1. j - 1 \in 1 .. k /\ j - 1 \in 1 .. Len(window') /\ (j - 1) + 1 = j
      BY <1>w, <1>5, <2>2
    <3> QED BY <1>w, <3>1
  <2> QED BY <2>1, <2>2
<1>6. BatchesCover'
  <2> SUFFICES ASSUME NEW k \in 1 .. Len(window'), NEW r \in Good, NEW s \in Sinks,
                      window'[k].cursor # 0, r <= window'[k].cursor
               PROVE  r \in Handled(s) \/ \E j \in 1 .. k : Carries(window'[j], r, s)
    BY <1>u DEF BatchesCover, InFirst, Handled, Good
  <2>1. k + 1 \in 1 .. Len(window) /\ window'[k] = window[k + 1] /\ k \in Nat /\ k <= Len(window')
    BY <1>w, <1>i
  <2>2. r \in Handled(s) \/ \E j \in 1 .. k + 1 : Carries(window[j], r, s)
    BY <1>u, <2>1 DEF Inv, BatchesCover, InFirst
  <2> QED BY <1>5, <2>1, <2>2
<1>7. ReaderCovers'
  <2> SUFFICES ASSUME NEW r \in Good, NEW s \in Sinks, r <= pos
               PROVE  r \in Handled(s) \/ r \in records
                        \/ \E j \in 1 .. Len(window') : Carries(window'[j], r, s)
    BY <1>u DEF ReaderCovers, InFirst, Handled, Good
  <2>1. Len(window') \in Nat /\ Len(window') <= Len(window') /\ Len(window') + 1 = Len(window)
    BY <1>w
  <2>2. r \in Handled(s) \/ r \in records \/ \E j \in 1 .. Len(window') + 1 : Carries(window[j], r, s)
    BY <1>u, <2>1 DEF Inv, ReaderCovers, InFirst
  <2> QED BY <1>5, <2>1, <2>2
<1>8. Stages' /\ SuccessIsComplete'
  BY <1>u DEF Inv, Stages, SuccessIsComplete, Driving
<1> QED BY <1>1, <1>2, <1>3, <1>4, <1>6, <1>7, <1>8 DEF Inv

(* A batch thrown away because the run was aborted, or a failure.          *)
LEMMA StopStep ==
  ASSUME Inv, TypeOK', Grows, UNCHANGED <<cursor, window>>, phase' \in {"failing", "aborting"}
  PROVE  Inv'
<1>1. BranchesAreTrue'
  BY DEF Inv, BranchesAreTrue, Grows
<1>2. CursorsAscend' /\ ~Driving'
  BY DEF Inv, CursorsAscend, Driving
<1> QED BY <1>1, <1>2, LeaveStep

(* One more valid row in the batch being cut, or one more invalid row.     *)
LEMMA CutStep ==
  ASSUME Inv, TypeOK', Grows, UNCHANGED <<cursor, window, phase>>, phase = "reading",
         pos' = pos + 1, records \subseteq records', pos + 1 \in records' \/ pos + 1 \in bad
  PROVE  Inv'
<1>t. /\ cursor \in 0 .. N /\ pos \in 0 .. N /\ pos' \in 0 .. N
      /\ \A j \in 1 .. Len(window) : window[j].cursor \in 0 .. N
  <2>1. \A j \in 1 .. Len(window) : window[j] \in Batch
    BY DEF Inv, TypeOK
  <2> QED BY <2>1 DEF Inv, TypeOK, Batch
<1>g. Good' = Good /\ \A s \in Sinks : Handled(s) \subseteq Handled(s)'
  BY DEF Grows, Handled, Good, Targets
<1>1. BranchesAreTrue' /\ BatchesCover'
  BY <1>g DEF Inv, BranchesAreTrue, BatchesCover, Grows, Driving, InFirst
<1>2. CursorsAscend'
  BY <1>t DEF Inv, CursorsAscend, Driving
<1>3. ReaderCovers'
  <2>1. \A r \in Good : r <= pos + 1 => r <= pos \/ r \in records'
    BY <1>t DEF Good, Rows
  <2> QED BY <1>g, <2>1 DEF Inv, ReaderCovers, Driving, InFirst
<1> QED BY <1>1, <1>2, <1>3, CoverStays DEF Inv, Stages, SuccessIsComplete

(* What a data batch covers: every valid row up to the one it ends with.   *)
LEMMA DataCovers ==
  ASSUME Inv, phase = "reading", NEW R \in SUBSET Rows, records \subseteq R,
         NEW c \in 0 .. N, c = pos \/ (c = pos + 1 /\ c \in R)
  PROVE  /\ \A r \in Good, s \in Sinks : r <= c =>
              (r \in Handled(s) \/ Carries(DataBatch(R, c), r, s) \/ InFirst(Len(window), r, s))
         /\ \A s \in Targets : DataBatch(R, c).at[s] \in {"none", "writing"}
         /\ \A s \in Sinks : DataBatch(R, c).at[s] # "none"
         /\ DataBatch(R, c).cursor = c
<1>1. \A s \in Sinks : DataBatch(R, c).at[s] = "writing"
  BY DEF DataBatch, Targets
<1>2. \A r \in Good, s \in Sinks : r <= pos =>
        (r \in Handled(s) \/ r \in records \/ InFirst(Len(window), r, s))
  BY DEF Inv, ReaderCovers, Driving
<1>3. \A r \in Good : r <= c => r <= pos \/ r \in R
  BY DEF Inv, TypeOK, Good, Rows
<1>4. \A r \in R, s \in Sinks : Carries(DataBatch(R, c), r, s)
  BY <1>1 DEF Carries, DataBatch
<1> QED BY <1>1, <1>2, <1>3, <1>4 DEF DataBatch

(* A batch of rejects moves no checkpoint and has nothing done yet.        *)
LEMMA RejectCovers ==
  ASSUME NEW R \in SUBSET Rows
  PROVE  /\ \A s \in Targets : RejectBatch(R).at[s] \in {"none", "writing"}
         /\ RejectBatch(R).cursor = 0
BY DEF RejectBatch

(* Every step keeps the invariant, and the checkpoint only moves on.       *)
LEMMA InvStep == Inv /\ [Next]_vars => Inv' /\ cursor' >= cursor
<1> SUFFICES ASSUME Inv, [Next]_vars PROVE Inv' /\ cursor' >= cursor
  OBVIOUS
<1>t. /\ bad \in SUBSET Rows /\ pos \in 0 .. N /\ records \in SUBSET Rows
      /\ rejects \in SUBSET Rows /\ cursor \in 0 .. N /\ window \in Seq(Batch)
  BY DEF Inv, TypeOK
<1>g. TypeOK' /\ Grows
  BY TypeStep, StepGrows DEF Inv
<1>n. N \in Nat
  BY SizeAssumption
<1>s. cursor' = cursor => cursor' >= cursor
  BY <1>t
<1>c. \A r \in Good, s \in Sinks : (phase = "reading" /\ r <= pos) =>
        (r \in Handled(s) \/ r \in records \/ InFirst(Len(window), r, s))
  BY DEF Inv, ReaderCovers, Driving
<1>1. CASE ReadGood
  <2> DEFINE r == pos + 1
             b == DataBatch(records \cup {r}, r)
  <2>1. r \in Good /\ r \in Rows /\ r \in 0 .. N /\ phase = "reading" /\ pos' = r
        /\ records \cup {r} \in SUBSET Rows
    BY <1>1, <1>t DEF ReadGood, Reading, Good, Rows
  <2>2. CASE Emit(b) /\ records' = {}
    <3>1. cursor' = cursor
      BY <2>2 DEF Emit, outside
    <3>2. CASE aborted
      BY <1>g, <1>s, <2>2, <3>1, <3>2, StopStep DEF Emit
    <3>3. CASE ~aborted
      <4>1. window' = Append(window, b) /\ phase' = "reading"
        BY <2>1, <2>2, <3>3 DEF Emit
      <4>2. b \in Batch
        BY <2>1, DataBatchType
      <4>3. /\ \A x \in Good, s \in Sinks : x <= pos' =>
                 (x \in Handled(s) \/ Carries(b, x, s) \/ InFirst(Len(window), x, s))
            /\ \A s \in Targets : b.at[s] \in {"none", "writing"}
            /\ \A s \in Sinks : b.at[s] # "none"
            /\ b.cursor = pos'
        BY <2>1, DataCovers
      <4>4. pos' >= pos
        BY <1>t, <2>1
      <4> HIDE DEF b, r
      <4> QED BY <1>g, <1>s, <2>1, <2>2, <3>1, <4>1, <4>2, <4>3, <4>4, PushStep
    <3> QED BY <3>2, <3>3
  <2>3. CASE records' = records \cup {r}
             /\ UNCHANGED <<outside, phase, failures, window, strays, aborted, crashes>>
    BY <1>g, <1>s, <2>1, <2>3, CutStep DEF outside
  <2> QED BY <1>1, <2>2, <2>3 DEF ReadGood
<1>2. CASE ReadBad
  <2> DEFINE r == pos + 1
             b == RejectBatch(rejects \cup {r})
  <2>1. r \in bad /\ phase = "reading" /\ pos' = r /\ records' = records
        /\ rejects \cup {r} \in SUBSET Rows
    BY <1>2, <1>t DEF ReadBad, Reading
  <2>2. CASE Emit(b)
    <3>1. cursor' = cursor
      BY <2>2 DEF Emit, outside
    <3>2. CASE aborted
      BY <1>g, <1>s, <2>2, <3>1, <3>2, StopStep DEF Emit
    <3>3. CASE ~aborted
      <4>1. window' = Append(window, b) /\ phase' = "reading"
        BY <2>1, <2>2, <3>3 DEF Emit
      <4>2. b \in Batch /\ b.cursor = 0 /\ \A s \in Targets : b.at[s] \in {"none", "writing"}
        BY <2>1, RejectBatchType, RejectCovers
      <4>3. \A x \in Good, s \in Sinks : x <= pos' =>
              (x \in Handled(s) \/ x \in records' \/ InFirst(Len(window), x, s))
        <5>1. \A x \in Good : x <= pos' => x <= pos
          BY <1>t, <2>1 DEF Good, Rows
        <5> QED BY <1>c, <2>1, <5>1
      <4>4. pos' >= pos
        BY <1>t, <2>1
      <4> HIDE DEF b, r
      <4> QED BY <1>g, <1>s, <2>1, <3>1, <4>1, <4>2, <4>3, <4>4, PushStep
    <3> QED BY <3>2, <3>3
  <2>3. CASE UNCHANGED <<outside, phase, failures, window, strays, aborted, crashes>>
    BY <1>g, <1>s, <2>1, <2>3, CutStep DEF outside
  <2> QED BY <1>2, <2>2, <2>3 DEF ReadBad
<1>3. CASE FlushRejects
  <2> DEFINE b == RejectBatch(rejects)
  <2>1. Emit(b) /\ phase = "reading" /\ pos' = pos /\ records' = records /\ cursor' = cursor
    BY <1>3 DEF FlushRejects, Reading, Emit, outside
  <2>2. CASE aborted
    BY <1>g, <1>s, <2>1, <2>2, StopStep DEF Emit
  <2>3. CASE ~aborted
    <3>1. window' = Append(window, b) /\ phase' = "reading"
      BY <2>1, <2>3 DEF Emit
    <3>2. b \in Batch /\ b.cursor = 0 /\ \A s \in Targets : b.at[s] \in {"none", "writing"}
      BY <1>t, RejectBatchType, RejectCovers
    <3>3. pos' >= pos /\ \A x \in Good, s \in Sinks : x <= pos' =>
            (x \in Handled(s) \/ x \in records' \/ InFirst(Len(window), x, s))
      BY <1>t, <1>c, <2>1
    <3> HIDE DEF b
    <3> QED BY <1>g, <1>s, <2>1, <3>1, <3>2, <3>3, PushStep
  <2> QED BY <2>2, <2>3
<1>4. CASE FlushRecords
  <2> DEFINE b == DataBatch(records, N)
  <2>1. Emit(b) /\ phase = "reading" /\ pos' = pos /\ pos = N /\ records' = {} /\ cursor' = cursor
    BY <1>4 DEF FlushRecords, Reading, Emit, outside
  <2>2. CASE aborted
    BY <1>g, <1>s, <2>1, <2>2, StopStep DEF Emit
  <2>3. CASE ~aborted
    <3>1. window' = Append(window, b) /\ phase' = "reading"
      BY <2>1, <2>3 DEF Emit
    <3>2. b \in Batch
      BY <1>t, <1>n, DataBatchType
    <3>3. /\ \A x \in Good, s \in Sinks : x <= pos' =>
               (x \in Handled(s) \/ Carries(b, x, s) \/ InFirst(Len(window), x, s))
          /\ \A s \in Targets : b.at[s] \in {"none", "writing"}
          /\ \A s \in Sinks : b.at[s] # "none"
          /\ b.cursor = pos'
      BY <1>t, <1>n, <2>1, DataCovers
    <3>4. pos' >= pos
      BY <1>t, <2>1
    <3> HIDE DEF b
    <3> QED BY <1>g, <1>s, <2>1, <3>1, <3>2, <3>3, <3>4, PushStep
  <2> QED BY <2>2, <2>3
<1>5. CASE ReadDone
  <2>1. /\ phase = "reading" /\ phase' = "draining" /\ UNCHANGED <<cursor, window, pos, records>>
        /\ pos = N /\ records = {}
    BY <1>5 DEF ReadDone, Reading, outside, reader
  <2>2. BranchesAreTrue' /\ CursorsAscend' /\ Stages'
    BY <1>g, <2>1 DEF Inv, BranchesAreTrue, CursorsAscend, Stages, Driving, Grows
  <2>3. SuccessIsComplete' /\ BatchesCover' /\ ReaderCovers'
    BY <1>g, <2>1 DEF Inv, SuccessIsComplete, BatchesCover, ReaderCovers, Driving, InFirst,
       Grows, Handled, Good, Targets
  <2> QED BY <1>g, <1>s, <2>1, <2>2, <2>3, CoverStays DEF Inv
<1>6. CASE ReadFails
  BY <1>6, <1>g, <1>s, StopStep DEF ReadFails, outside
<1>7. CASE DrainHead
  BY <1>7, <1>g, DrainStep
<1>8. CASE HeadFails
  <2>1. /\ window' \in Seq(Batch) /\ Len(window') = Len(window) - 1 /\ Len(window) \in Nat \ {0}
        /\ \A j \in 1 .. Len(window') : window'[j] = window[j + 1]
        /\ phase' = "failing" /\ cursor' = cursor
    BY <1>8, <1>t, Popped DEF HeadFails, MustDrain, outside
  <2>2. \A j \in 1 .. Len(window') : j + 1 \in 1 .. Len(window)
    BY <2>1
  <2>3. BranchesAreTrue'
    BY <1>g, <2>1, <2>2 DEF Inv, BranchesAreTrue, Grows
  <2>4. CursorsAscend' /\ ~Driving'
    <3>1. \A i, j \in 1 .. Len(window') :
            (i < j /\ window'[i].cursor # 0 /\ window'[j].cursor # 0)
              => window'[i].cursor <= window'[j].cursor
      <4> SUFFICES ASSUME NEW i \in 1 .. Len(window'), NEW j \in 1 .. Len(window'), i < j,
                          window'[i].cursor # 0, window'[j].cursor # 0
                   PROVE  window'[i].cursor <= window'[j].cursor
        OBVIOUS
      <4>1. /\ window'[i] = window[i + 1] /\ window'[j] = window[j + 1]
            /\ i + 1 \in 1 .. Len(window) /\ j + 1 \in 1 .. Len(window) /\ i + 1 < j + 1
        BY <2>1, <2>2
      <4> QED BY <4>1 DEF Inv, CursorsAscend
    <3> QED BY <2>1, <3>1 DEF CursorsAscend, Driving
  <2> QED BY <1>g, <1>s, <2>1, <2>3, <2>4, LeaveStep
<1>9. CASE Succeed
  <2>1. /\ phase = "draining" /\ window = <<>> /\ phase' = "success"
        /\ UNCHANGED <<cursor, window, landed, dropped, bad>>
    BY <1>9 DEF Succeed, outside
  <2>2. \A r \in Good, s \in Sinks : r \in Handled(s)
    <3>1. pos = N /\ records = {} /\ Len(window) = 0
      BY <2>1 DEF Inv, Stages
    <3>2. \A r \in Good : r <= pos
      BY <3>1, <1>n DEF Good, Rows
    <3>3. \A r \in Good, s \in Sinks : ~InFirst(Len(window), r, s)
      BY <3>1 DEF InFirst
    <3> QED BY <2>1, <3>1, <3>2, <3>3 DEF Inv, ReaderCovers, Driving
  <2>3. SuccessIsComplete' /\ Stages' /\ BatchesCover' /\ ReaderCovers'
    BY <2>1, <2>2 DEF SuccessIsComplete, Stages, BatchesCover, ReaderCovers, Driving, Handled, Good
  <2>4. BranchesAreTrue' /\ CursorsAscend'
    BY <2>1 DEF Inv, BranchesAreTrue, CursorsAscend, Driving
  <2> QED BY <1>g, <1>s, <2>1, <2>3, <2>4, CoverStays DEF Inv
<1>10. ASSUME cursor' = cursor, window' = <<>>, phase' \notin {"draining", "success"},
              phase' \in {"reading", "down"} => records' = {},
              phase' = "reading" => pos' = cursor
       PROVE  Inv' /\ cursor' >= cursor
  <2>1. Len(window') = 0
    BY <1>10
  <2>2. BranchesAreTrue' /\ BatchesCover'
    BY <2>1 DEF BranchesAreTrue, BatchesCover
  <2>3. CursorsAscend'
    BY <1>10, <1>t, <2>1 DEF CursorsAscend, Driving
  <2>4. CheckpointIsCovered'
    BY <1>10, <1>g, CoverStays
  <2>5. ReaderCovers' /\ Stages' /\ SuccessIsComplete'
    BY <1>10, <2>4 DEF ReaderCovers, Stages, SuccessIsComplete, CheckpointIsCovered, Driving
  <2> QED BY <1>10, <1>g, <1>s, <2>2, <2>3, <2>4, <2>5 DEF Inv
<1>11. CASE Retry
  BY <1>11, <1>10 DEF Retry, Rest, outside
<1>12. CASE GiveUp
  BY <1>12, <1>10 DEF GiveUp, Rest, outside
<1>13. CASE Restart
  BY <1>13, <1>10 DEF Restart, outside, Inv, Stages
<1>14. CASE Crash
  BY <1>14, <1>10 DEF Crash, outside
<1>15. ASSUME NEW k \in 1 .. Limit, NEW s \in Targets, Land(k, s)
       PROVE  Inv' /\ cursor' >= cursor
  BY <1>15, <1>g, <1>s, LandStep DEF Land, Writing
<1>16. ASSUME NEW k \in 1 .. Limit, NEW s \in Targets,
              WriteFails(k, s) \/ WriteTimesOut(k, s)
       PROVE  Inv' /\ cursor' >= cursor
  BY <1>16, <1>g, <1>s, ResolveStep DEF WriteFails, WriteTimesOut, Writing
<1>17. CASE StrayEnds \/ Abort \/ UNCHANGED vars
  <2>1. UNCHANGED <<cursor, window, pos, records, phase>>
    BY <1>17 DEF StrayEnds, Abort, vars, outside, reader
  <2> QED BY <1>g, <1>s, <2>1, StillStep
<1> QED
  BY <1>1, <1>2, <1>3, <1>4, <1>5, <1>6, <1>7, <1>8, <1>9, <1>11, <1>12, <1>13, <1>14,
     <1>15, <1>16, <1>17 DEF Next, Read, Drive, TimeOut

(* The invariant holds at first.                                           *)
LEMMA InvInit == Init => Inv
<1> SUFFICES ASSUME Init PROVE Inv
  OBVIOUS
<1>1. Len(window) = 0 /\ pos = 0 /\ cursor = 0 /\ phase = "reading"
  BY DEF Init
<1>2. \A r \in Good : r > 0
  BY SizeAssumption DEF Good, Rows
<1>3. BranchesAreTrue /\ BatchesCover /\ CursorsAscend /\ Stages
  BY <1>1 DEF BranchesAreTrue, BatchesCover, CursorsAscend, Stages
<1>4. ReaderCovers /\ CheckpointIsCovered /\ SuccessIsComplete
  <2>1. \A r \in Good : ~(r <= 0)
    BY <1>2, SizeAssumption DEF Good, Rows
  <2> QED BY <1>1, <2>1 DEF ReaderCovers, CheckpointIsCovered, SuccessIsComplete
<1> QED BY <1>3, <1>4, TypeInit DEF Inv

(* The invariant holds in every state.                                     *)
LEMMA InvAlways == Spec => []Inv
BY InvInit, InvStep, PTL DEF Spec

-----------------------------------------------------------------------------
(* The stored checkpoint never passes a valid row that some sink has not   *)
(* got: drainHead's "contiguous run of completed batches".                 *)
THEOREM CheckpointCovers == Spec => []CheckpointIsCovered
<1>1. Inv => CheckpointIsCovered
  BY DEF Inv
<1> QED BY <1>1, InvAlways, PTL

(* A source that ends with "success" has delivered every valid row,        *)
(* whatever failed, timed out or crashed before.                           *)
THEOREM SuccessDelivers == Spec => []SuccessIsComplete
<1>1. Inv => SuccessIsComplete
  BY DEF Inv
<1> QED BY <1>1, InvAlways, PTL

(* saveCheckpoint never moves a checkpoint back.                           *)
THEOREM CursorAdvances == Spec => CursorOnlyAdvances
<1>1. Inv /\ [Next]_vars => [cursor' >= cursor]_vars
  BY InvStep
<1> QED BY <1>1, InvAlways, PTL DEF Spec, CursorOnlyAdvances

-----------------------------------------------------------------------------
(* Rejected rows have no cursor of their own.  As long as nothing failed   *)
(* or crashed, each one the reader has passed is with every dead-letter    *)
(* target, in the reject batch being cut, or in a batch in flight.         *)
Undisturbed == failures = 0 /\ crashes = 0
Travels(r, s) == \E j \in 1 .. Len(window) : Carries(window[j], r, s)

RejectsTravel ==
  (Driving /\ Undisturbed) => \A r \in bad, s \in DeadLetters :
    r <= pos => (r \in Handled(s) \/ r \in rejects \/ Travels(r, s))

RejectStages ==
  /\ phase = "draining" => rejects = {}
  /\ phase = "down" => crashes # 0

RejectInv == RejectsTravel /\ RejectStages /\ UndisturbedKeepsRejects

(* A batch that arrives joins those that travel.                           *)
LEMMA PushTravels ==
  ASSUME Inv, NEW b \in Batch, window' = Append(window, b), NEW r, NEW s
  PROVE  Travels(r, s) \/ Carries(b, r, s) => Travels(r, s)'
<1>1. /\ Len(window) \in Nat /\ Len(window') = Len(window) + 1
      /\ window'[Len(window) + 1] = b
      /\ \A j \in 1 .. Len(window) : window'[j] = window[j]
  BY Pushed DEF Inv, TypeOK
<1>2. \A j \in 1 .. Len(window) : j \in 1 .. Len(window')
  BY <1>1
<1>3. Len(window) + 1 \in 1 .. Len(window')
  BY <1>1
<1> QED BY <1>1, <1>2, <1>3 DEF Travels

(* A drained head has given all its rows to the targets of its port.       *)
LEMMA DrainTravels ==
  ASSUME Inv, DrainHead, NEW r, NEW s \in Targets, Travels(r, s)
  PROVE  r \in Handled(s) \/ Travels(r, s)'
<1>1. /\ Len(window) \in Nat \ {0} /\ Len(window') = Len(window) - 1
      /\ Head(window) = window[1] /\ window[1] \in Batch
      /\ \A j \in 1 .. Len(window') : window'[j] = window[j + 1]
  BY Popped DEF Inv, TypeOK, DrainHead, MustDrain
<1>2. PICK j \in 1 .. Len(window) : Carries(window[j], r, s)
  BY DEF Travels
<1>3. CASE j = 1
  <2>1. window[1].at[s] \in {"done", "skipped"}
    BY <1>1, <1>2, <1>3 DEF Carries, Batch, DrainHead, Delivered, Going, Failed
  <2>2. 1 \in 1 .. Len(window)
    BY <1>1
  <2> QED BY <1>2, <1>3, <2>1, <2>2 DEF Inv, BranchesAreTrue, Carries, Handled
<1>4. CASE j # 1
  <2>1. j - 1 \in 1 .. Len(window') /\ (j - 1) + 1 = j
    BY <1>1, <1>4
  <2>2. window'[j - 1] = window[j]
    BY <1>1, <2>1
  <2> QED BY <1>2, <2>1, <2>2 DEF Travels
<1> QED BY <1>3, <1>4

(* A branch that moves on stays with its batch, as in BranchStep.          *)
LEMMA BranchTravels ==
  ASSUME SameBatches(window, window'),
         \A j \in 1 .. Len(window), s \in Targets :
           window[j].at[s] # "none" => window'[j].at[s] # "none",
         NEW r, NEW s \in Targets, Travels(r, s)
  PROVE  Travels(r, s)'
BY DEF SameBatches, Travels, Carries

(* What a write, its failure or its deadline does to the window.           *)
LEMMA BranchesStay ==
  ASSUME Inv, NEW k \in 1 .. Limit, NEW s \in Targets,
         Land(k, s) \/ (Writing(k, s) /\ Resolve(k, s))
  PROVE  /\ SameBatches(window, window')
         /\ \A j \in 1 .. Len(window), t \in Targets :
              window[j].at[t] # "none" => window'[j].at[t] # "none"
<1>1. window \in Seq(Batch) /\ k \in 1 .. Len(window)
  BY DEF Inv, TypeOK, Land, Writing
<1>2. ASSUME NEW x \in {"done", "failed", "skipped"}, window' = SetBranch(window, k, s, x)
      PROVE  /\ SameBatches(window, window')
             /\ \A j \in 1 .. Len(window), t \in Targets :
                  window[j].at[t] # "none" => window'[j].at[t] # "none"
  BY <1>1, <1>2, BranchSet DEF OneBranch
<1>3. ASSUME window' = CountTry(window, k, s)
      PROVE  /\ SameBatches(window, window')
             /\ \A j \in 1 .. Len(window), t \in Targets :
                  window[j].at[t] # "none" => window'[j].at[t] # "none"
  BY <1>1, <1>3, TriesSet DEF NoBranch
<1> QED BY <1>2, <1>3 DEF Land, Resolve, SetBranch, CountTry

-----------------------------------------------------------------------------
(* A step after which the source is not driving, or is disturbed.          *)
LEMMA RejectLeave ==
  ASSUME ~Driving' \/ ~Undisturbed', RejectStages', phase' # "success" \/ ~Undisturbed'
  PROVE  RejectInv'
BY DEF RejectInv, RejectsTravel, UndisturbedKeepsRejects, Undisturbed

(* A step of a driving source that loses sight of no rejected row.         *)
LEMMA RejectGoesOn ==
  ASSUME RejectInv, Grows, Driving, phase' # "success", RejectStages',
         UNCHANGED <<failures, crashes>>,
         \A r \in bad, s \in DeadLetters :
           (r <= pos' /\ (r <= pos => r \in Handled(s) \/ r \in rejects \/ Travels(r, s)))
             => r \in Handled(s) \/ r \in rejects' \/ Travels(r, s)'
  PROVE  RejectInv'
<1>1. bad' = bad /\ \A s \in DeadLetters : Handled(s) \subseteq Handled(s)'
  BY DEF Grows, Handled, Targets
<1> QED BY <1>1 DEF RejectInv, RejectsTravel, UndisturbedKeepsRejects, Undisturbed

(* A step that flushes no rejects and leaves no batch behind.              *)
LEMMA RejectFrame ==
  ASSUME RejectInv, Grows, UNCHANGED <<phase, failures, crashes>>,
         rejects \subseteq rejects', phase = "draining" => rejects' = rejects,
         \A r \in bad : r <= pos' => r <= pos \/ r \in rejects',
         \A r, s : s \in DeadLetters /\ Travels(r, s) => r \in Handled(s) \/ Travels(r, s)'
  PROVE  RejectInv'
<1>1. bad' = bad /\ \A s \in DeadLetters : Handled(s) \subseteq Handled(s)'
  BY DEF Grows, Handled, Targets
<1>2. RejectStages' /\ UndisturbedKeepsRejects'
  BY <1>1 DEF RejectInv, RejectStages, UndisturbedKeepsRejects
<1>3. RejectsTravel'
  BY <1>1 DEF RejectInv, RejectsTravel, Undisturbed, Driving
<1> QED BY <1>2, <1>3 DEF RejectInv

(* A reject batch, which carries what the reader had cut of it.            *)
LEMMA RejectPush ==
  ASSUME Inv, RejectInv, Grows, Reading, NEW R \in SUBSET Rows, rejects \subseteq R,
         Emit(RejectBatch(R)), rejects' = {},
         \A r \in bad : r <= pos' => r <= pos \/ r \in R
  PROVE  RejectInv'
<1>1. UNCHANGED <<failures, crashes>> /\ phase = "reading"
  BY DEF Emit, Reading
<1>2. CASE aborted
  <2>1. phase' = "aborting"
    BY <1>2 DEF Emit
  <2> QED BY <2>1, RejectLeave DEF Driving, RejectStages
<1>3. CASE ~aborted
  <2>1. window' = Append(window, RejectBatch(R)) /\ phase' = "reading"
    BY <1>1, <1>3 DEF Emit
  <2>2. \A r \in R, s \in DeadLetters : Carries(RejectBatch(R), r, s)
    BY DEF Carries, RejectBatch, Targets
  <2>3. \A r, s : Travels(r, s) \/ Carries(RejectBatch(R), r, s) => Travels(r, s)'
    BY <2>1, RejectBatchType, PushTravels
  <2> QED BY <1>1, <2>1, <2>2, <2>3, RejectGoesOn DEF Driving, RejectStages
<1> QED BY <1>2, <1>3

(* Every step keeps the invariant.                                         *)
LEMMA RejectStep ==
  ASSUME Inv, RejectInv, [Next]_vars
  PROVE  RejectInv'
<1>t. /\ bad \in SUBSET Rows /\ pos \in 0 .. N /\ records \in SUBSET Rows
      /\ rejects \in SUBSET Rows /\ failures \in Nat /\ crashes \in Nat
      /\ window \in Seq(Batch)
  BY SizeAssumption DEF Inv, TypeOK
<1>g. Grows
  BY StepGrows DEF Inv
<1>p. phase = "draining" => rejects = {}
  BY DEF RejectInv, RejectStages
<1>1. CASE ReadGood
  <2> DEFINE b == DataBatch(records \cup {pos + 1}, pos + 1)
  <2>1. /\ Reading /\ pos' = pos + 1 /\ rejects' = rejects /\ pos + 1 \notin bad
        /\ pos + 1 \in 0 .. N /\ records \cup {pos + 1} \in SUBSET Rows
    BY <1>1, <1>t DEF ReadGood, Good, Rows
  <2>2. \A r \in bad : r <= pos' => r <= pos \/ r \in rejects'
    BY <1>t, <2>1 DEF Rows
  <2>3. CASE Emit(b)
    <3>1. UNCHANGED <<failures, crashes>> /\ b \in Batch
      BY <2>1, <2>3, DataBatchType DEF Emit
    <3>2. CASE aborted
      <4>1. phase' = "aborting"
        BY <2>3, <3>2 DEF Emit
      <4> QED BY <4>1, RejectLeave DEF Driving, RejectStages
    <3>3. CASE ~aborted
      <4>1. window' = Append(window, b) /\ phase' = phase
        BY <2>3, <3>3 DEF Emit
      <4> HIDE DEF b
      <4>2. \A r, s : Travels(r, s) => Travels(r, s)'
        BY <3>1, <4>1, PushTravels
      <4> QED BY <1>g, <2>1, <2>2, <3>1, <4>1, <4>2, RejectFrame
    <3> QED BY <3>2, <3>3
  <2>4. CASE UNCHANGED <<outside, phase, failures, window, strays, aborted, crashes>>
    <3>1. \A r, s : Travels(r, s) => Travels(r, s)'
      BY <2>4 DEF Travels, Carries
    <3> QED BY <1>g, <2>1, <2>2, <2>4, <3>1, RejectFrame
  <2> QED BY <1>1, <2>3, <2>4 DEF ReadGood
<1>2. CASE ReadBad
  <2>1. /\ Reading /\ pos' = pos + 1 /\ rejects \cup {pos + 1} \in SUBSET Rows
    BY <1>2, <1>t DEF ReadBad
  <2>2. \A r \in bad : r <= pos' => r <= pos \/ r \in rejects \cup {pos + 1}
    BY <1>t, <2>1 DEF Rows
  <2>3. CASE Emit(RejectBatch(rejects \cup {pos + 1})) /\ rejects' = {}
    BY <1>g, <2>1, <2>2, <2>3, RejectPush
  <2>4. CASE /\ rejects' = rejects \cup {pos + 1}
             /\ UNCHANGED <<outside, phase, failures, window, strays, aborted, crashes>>
    <3>1. \A r, s : Travels(r, s) => Travels(r, s)'
      BY <2>4 DEF Travels, Carries
    <3> QED BY <1>g, <2>1, <2>2, <2>4, <3>1, RejectFrame DEF Reading
  <2> QED BY <1>2, <2>3, <2>4 DEF ReadBad
<1>3. CASE FlushRejects
  <2>1. Reading /\ Emit(RejectBatch(rejects)) /\ rejects' = {} /\ pos' = pos
    BY <1>3 DEF FlushRejects
  <2> QED BY <1>g, <1>t, <2>1, RejectPush
<1>4. CASE FlushRecords
  <2> DEFINE b == DataBatch(records, N)
  <2>1. Emit(b) /\ pos' = pos /\ rejects' = rejects /\ UNCHANGED <<failures, crashes>>
    BY <1>4 DEF FlushRecords, Emit
  <2>2. CASE aborted
    <3>1. phase' = "aborting"
      BY <2>1, <2>2 DEF Emit
    <3> QED BY <3>1, RejectLeave DEF Driving, RejectStages
  <2>3. CASE ~aborted
    <3>1. window' = Append(window, b) /\ phase' = phase /\ b \in Batch
      BY <1>t, <2>1, <2>3, SizeAssumption, DataBatchType DEF Emit
    <3> HIDE DEF b
    <3>2. \A r, s : Travels(r, s) => Travels(r, s)'
      BY <3>1, PushTravels
    <3> QED BY <1>g, <2>1, <3>1, <3>2, RejectFrame
  <2> QED BY <2>2, <2>3
<1>5. CASE ReadDone
  <2>1. /\ phase = "reading" /\ phase' = "draining" /\ rejects = {}
        /\ UNCHANGED <<failures, crashes, pos, rejects, window>>
    BY <1>5 DEF ReadDone, Reading, reader
  <2>2. \A r, s : Travels(r, s) => Travels(r, s)'
    BY <2>1 DEF Travels, Carries
  <2> QED BY <1>g, <2>1, <2>2, RejectGoesOn DEF Driving, RejectStages
<1>6. CASE ReadFails \/ HeadFails
  <2>1. phase' = "failing"
    BY <1>6 DEF ReadFails, HeadFails
  <2> QED BY <2>1, RejectLeave DEF Driving, RejectStages
<1>7. CASE DrainHead
  <2>1. UNCHANGED <<phase, failures, crashes, pos, rejects>>
    BY <1>7 DEF DrainHead, reader
  <2>2. \A r, s : s \in DeadLetters /\ Travels(r, s) => r \in Handled(s) \/ Travels(r, s)'
    BY <1>7, DrainTravels DEF Targets
  <2> QED BY <1>g, <2>1, <2>2, RejectFrame
<1>8. CASE Succeed
  <2>1. /\ phase = "draining" /\ window = <<>> /\ phase' = "success"
        /\ UNCHANGED <<failures, crashes, landed, dropped, bad>>
    BY <1>8 DEF Succeed, outside
  <2>2. pos = N /\ rejects = {} /\ \A r, s : ~Travels(r, s)
    BY <1>p, <2>1 DEF Inv, Stages, Travels
  <2>3. \A r \in bad : r <= pos
    BY <1>t, <2>2, SizeAssumption DEF Rows
  <2>4. UndisturbedKeepsRejects'
    BY <2>1, <2>2, <2>3
       DEF RejectInv, RejectsTravel, UndisturbedKeepsRejects, Undisturbed, Driving, Handled
  <2> QED BY <2>1, <2>4 DEF RejectInv, RejectsTravel, RejectStages, Driving
<1>9. CASE Retry \/ Crash \/ Restart
  <2>1. ~Undisturbed'
    BY <1>9, <1>t DEF Retry, Crash, Restart, Undisturbed, RejectInv, RejectStages
  <2>2. RejectStages'
    BY <1>9, <1>t DEF Retry, Crash, Restart, RejectInv, RejectStages
  <2> QED BY <2>1, <2>2, RejectLeave
<1>10. CASE GiveUp
  <2>1. phase' \in {"failed", "skipped", "cancelled"}
    BY <1>10 DEF GiveUp
  <2> QED BY <2>1, RejectLeave DEF Driving, RejectStages
<1>11. ASSUME NEW k \in 1 .. Limit, NEW s \in Targets,
              Land(k, s) \/ WriteFails(k, s) \/ WriteTimesOut(k, s)
       PROVE  RejectInv'
  <2>1. UNCHANGED <<phase, failures, crashes, pos, rejects>>
    BY <1>11 DEF Land, WriteFails, WriteTimesOut, Writing, reader
  <2>2. \A r, t : t \in DeadLetters /\ Travels(r, t) => Travels(r, t)'
    BY <1>11, BranchesStay, BranchTravels DEF WriteFails, WriteTimesOut, Targets
  <2> QED BY <1>g, <2>1, <2>2, RejectFrame
<1>12. CASE StrayEnds \/ Abort \/ UNCHANGED vars
  <2>1. UNCHANGED <<phase, failures, crashes, pos, rejects, window>>
    BY <1>12 DEF StrayEnds, Abort, vars, reader
  <2>2. \A r, s : Travels(r, s) => Travels(r, s)'
    BY <2>1 DEF Travels, Carries
  <2> QED BY <1>g, <2>1, <2>2, RejectFrame
<1> QED
  BY <1>1, <1>2, <1>3, <1>4, <1>5, <1>6, <1>7, <1>8, <1>9, <1>10, <1>11, <1>12
     DEF Next, Read, Drive, TimeOut

(* A source that succeeds at its first attempt has also given every        *)
(* rejected row to every dead-letter target.  (After a retry it need not:  *)
(* the checkpoint passes rejected rows that had not arrived.)              *)
THEOREM UndisturbedSourceKeepsRejects == Spec => []UndisturbedKeepsRejects
<1>1. Init => RejectInv
  <2>1. Init => \A r \in bad : ~(r <= pos)
    BY LayoutAssumption, SizeAssumption DEF Init, Rows
  <2> QED BY <2>1 DEF Init, RejectInv, RejectsTravel, RejectStages, UndisturbedKeepsRejects
<1>2. Inv /\ RejectInv /\ [Next]_vars => RejectInv'
  BY RejectStep
<1>3. RejectInv => UndisturbedKeepsRejects
  BY DEF RejectInv
<1> QED BY <1>1, <1>2, <1>3, InvAlways, PTL DEF Spec
=============================================================================
