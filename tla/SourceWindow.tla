---------------------------- MODULE SourceWindow ----------------------------
(***************************************************************************)
(* One source pipe of a pipeline, as PipelineExecutor.runSource drives it: *)
(* a CSV source is read row by row and cut into batches, up to Limit       *)
(* batches travel to the sinks at once, the window is drained from its     *)
(* head, and only then the checkpoint moves.  A failed attempt is retried  *)
(* from the checkpoint, and so is a run whose process died.                *)
(*                                                                         *)
(* A branch of a batch is one target's whole dispatch (transforms on the   *)
(* way included).  A write that fails has landed nothing; every property   *)
(* below is a lower bound on what landed.                                  *)
(***************************************************************************)
EXTENDS Integers, FiniteSets, Sequences

CONSTANTS
  N,            \* rows of the file
  Layouts,      \* which of them may be invalid
  BatchSize,    \* config.batchSize
  Limit,        \* the largest concurrency of the pipeline's pipes
  Sinks,        \* targets of the source's default port
  DeadLetters,  \* targets of its "rejects" port
  Attempts,     \* retry.attempts of the source
  SinkAttempts, \* retry.attempts of each target
  Deadline,     \* pipes have a timeoutMs
  Skips,        \* connectors whose onError may answer "skip"
  MaxCrashes    \* bound: process deaths

Rows == 1 .. N
Targets == Sinks \cup DeadLetters

ASSUME SizeAssumption ==
  /\ N \in Nat /\ BatchSize \in Nat \ {0} /\ Limit \in Nat \ {0}
  /\ Attempts \in Nat /\ SinkAttempts \in [Targets -> Nat] /\ MaxCrashes \in Nat
ASSUME OptionAssumption == Deadline \in BOOLEAN /\ Skips \subseteq Targets \cup {"source"}
ASSUME LayoutAssumption == Layouts \subseteq SUBSET Rows
ASSUME TargetAssumption == IsFiniteSet(Sinks) /\ Sinks \cap DeadLetters = {}

VARIABLES
  bad,      \* rows that fail the schema; onInvalid is "reject"
  phase,    \* where runSource is, or how it ended
  failures, \* failed attempts of this process
  pos,      \* the reader's row number
  records,  \* rows of the data batch being cut
  rejects,  \* rows of the reject batch being cut
  window,   \* inFlight: batches with the state of their branches, oldest first
  cursor,   \* the stored checkpoint, 0 when there is none
  landed,   \* rows each target has written
  dropped,  \* rows each target's onError skipped
  strays,   \* writes nobody awaits any more that have not ended
  aborted,  \* execution.signal
  crashes

reader == <<pos, records, rejects>>
outside == <<bad, cursor, landed, dropped>>
vars == <<bad, phase, failures, pos, records, rejects, window, cursor, landed,
          dropped, strays, aborted, crashes>>

Ended == {"success", "failed", "skipped", "cancelled"}
Phase == Ended \cup {"reading", "draining", "failing", "aborting", "down"}

Batch ==
  [rows : SUBSET Rows, cursor : 0 .. N,
   at : [Targets -> {"none", "writing", "done", "skipped", "failed"}],
   tries : [Targets -> Nat]]
Stray == [rows : SUBSET Rows, sink : Targets, attempt : 0 .. Attempts]

Good == Rows \ bad

(* A batch as routeOutput sends it: to the targets of its port at once.    *)
DataBatch(rows, c) ==
  [rows |-> rows, cursor |-> c,
   at |-> [s \in Targets |-> IF s \in Sinks THEN "writing" ELSE "none"],
   tries |-> [s \in Targets |-> 0]]
RejectBatch(rows) ==
  [rows |-> rows, cursor |-> 0,
   at |-> [s \in Targets |-> IF s \in DeadLetters THEN "writing" ELSE "none"],
   tries |-> [s \in Targets |-> 0]]

Going(b) == {s \in Targets : b.at[s] = "writing"}
Failed(b) == \E s \in Targets : b.at[s] = "failed"

(* Mutant of Delivered: the first target that is done is enough.           *)
DeliveredSomewhere(b) ==
  ~Failed(b) /\ (Going(b) = {} \/ \E s \in Targets : b.at[s] = "done")

(* Promise.all over the branches: every one is done, or one has failed.    *)
Delivered(b) == ~Failed(b) /\ Going(b) = {}
Settled(b) == Delivered(b) \/ Failed(b)

(* What goes on after a batch's promise rejected on its first failure.     *)
Left(b) == {[rows |-> b.rows, sink |-> s, attempt |-> failures] : s \in Going(b)}

(* Mutant of Full: one batch too many.                                     *)
FullLate == Len(window) > Limit

Full == Len(window) >= Limit

Init ==
  /\ bad \in Layouts
  /\ phase = "reading" /\ failures = 0
  /\ pos = 0 /\ records = {} /\ rejects = {}
  /\ window = <<>> /\ cursor = 0 /\ strays = {}
  /\ landed = [s \in Targets |-> {}] /\ dropped = [s \in Targets |-> {}]
  /\ aborted = FALSE /\ crashes = 0

-----------------------------------------------------------------------------
Reading == phase = "reading" /\ ~Full

(* A batch arrives from next(): an aborted run throws it away.             *)
Emit(b) ==
  /\ IF aborted
     THEN phase' = "aborting" /\ UNCHANGED window
     ELSE window' = Append(window, b) /\ UNCHANGED phase
  /\ UNCHANGED <<outside, failures, strays, aborted, crashes>>

(* next(): the next row, and the batch it completes.                       *)
ReadGood ==
  LET r == pos + 1 IN
  /\ Reading /\ r \in Good
  /\ pos' = r /\ UNCHANGED rejects
  /\ IF Cardinality(records) + 1 = BatchSize
     THEN Emit(DataBatch(records \cup {r}, r)) /\ records' = {}
     ELSE records' = records \cup {r}
          /\ UNCHANGED <<outside, phase, failures, window, strays, aborted, crashes>>

ReadBad ==
  LET r == pos + 1 IN
  /\ Reading /\ r \in bad
  /\ pos' = r /\ UNCHANGED records
  /\ IF Cardinality(rejects) + 1 = BatchSize
     THEN Emit(RejectBatch(rejects \cup {r})) /\ rejects' = {}
     ELSE rejects' = rejects \cup {r}
          /\ UNCHANGED <<outside, phase, failures, window, strays, aborted, crashes>>

(* Mutant of FlushRejects: forgets what the last reject batch holds.       *)
FlushRejectsEmpty ==
  /\ Reading /\ pos = N /\ rejects # {}
  /\ Emit(RejectBatch({})) /\ rejects' = {} /\ UNCHANGED <<pos, records>>

(* At the end of the file: rejects first, then the last data batch.        *)
FlushRejects ==
  /\ Reading /\ pos = N /\ rejects # {}
  /\ Emit(RejectBatch(rejects)) /\ rejects' = {} /\ UNCHANGED <<pos, records>>

FlushRecords ==
  /\ Reading /\ pos = N /\ rejects = {} /\ records # {}
  /\ Emit(DataBatch(records, N)) /\ records' = {} /\ UNCHANGED <<pos, rejects>>

ReadDone ==
  /\ Reading /\ pos = N /\ rejects = {} /\ records = {}
  /\ phase' = "draining"
  /\ UNCHANGED <<outside, failures, reader, window, strays, aborted, crashes>>

(* The read throws, or outlives its deadline.                              *)
ReadFails ==
  /\ Reading /\ phase' = "failing"
  /\ UNCHANGED <<outside, failures, reader, window, strays, aborted, crashes>>

-----------------------------------------------------------------------------
MustDrain == window # <<>> /\ (Full \/ phase = "draining")
             /\ phase \in {"reading", "draining"}

(* Mutant of DrainHead: whichever batch lands first is checkpointed.       *)
DrainAny ==
  /\ MustDrain
  /\ \E k \in 1 .. Len(window) :
       /\ Delivered(window[k])
       /\ window' = SubSeq(window, 1, k - 1) \o SubSeq(window, k + 1, Len(window))
       /\ cursor' = IF window[k].cursor = 0 THEN cursor ELSE window[k].cursor
  /\ UNCHANGED <<bad, phase, failures, reader, landed, dropped, strays, aborted, crashes>>

(* drainHead: await the oldest batch, then save its cursor if it has one.  *)
DrainHead ==
  /\ MustDrain /\ Delivered(Head(window))
  /\ window' = Tail(window)
  /\ cursor' = IF Head(window).cursor = 0 THEN cursor ELSE Head(window).cursor
  /\ UNCHANGED <<bad, phase, failures, reader, landed, dropped, strays, aborted, crashes>>

HeadFails ==
  /\ MustDrain /\ Failed(Head(window))
  /\ window' = Tail(window) /\ strays' = strays \cup Left(Head(window))
  /\ phase' = "failing"
  /\ UNCHANGED <<outside, failures, reader, aborted, crashes>>

Succeed ==
  /\ phase = "draining" /\ window = <<>>
  /\ phase' = "success"
  /\ UNCHANGED <<outside, failures, reader, window, strays, aborted, crashes>>

(* The catch block first awaits every batch that still travels.            *)
Rest(p) ==
  /\ phase = p /\ \A k \in 1 .. Len(window) : Settled(window[k])
  /\ window' = <<>>
  /\ strays' = strays \cup UNION {Left(window[k]) : k \in 1 .. Len(window)}
  /\ UNCHANGED <<outside, aborted, crashes>>

(* Mutants of Retry: the failure is not counted; the reader goes on where  *)
(* it was.                                                                 *)
RetryUncounted ==
  /\ Rest("failing") /\ failures < Attempts
  /\ phase' = "reading" /\ failures' = failures
  /\ pos' = cursor /\ records' = {} /\ rejects' = {}

RetryInPlace ==
  /\ Rest("failing") /\ failures < Attempts
  /\ phase' = "reading" /\ failures' = failures + 1
  /\ UNCHANGED reader

(* "retry": wait, read the checkpoint again, open the source behind it.    *)
Retry ==
  /\ Rest("failing") /\ failures < Attempts
  /\ phase' = "reading" /\ failures' = failures + 1
  /\ pos' = cursor /\ records' = {} /\ rejects' = {}

(* "fail" at any number of failures (not transient), "skip", or an abort.  *)
GiveUp ==
  /\ \/ Rest("failing") /\ phase' \in {"failed"} \cup (IF "source" \in Skips THEN {"skipped"} ELSE {})
     \/ Rest("aborting") /\ phase' = "cancelled"
  /\ UNCHANGED <<failures, reader>>

-----------------------------------------------------------------------------
(* The dispatch of batch k to s.                                           *)
Writing(k, s) ==
  /\ k \in 1 .. Len(window) /\ window[k].at[s] = "writing"
  /\ UNCHANGED <<bad, phase, failures, reader, cursor, aborted, crashes>>

Land(k, s) ==
  /\ Writing(k, s)
  /\ window' = [window EXCEPT ![k].at[s] = "done"]
  /\ landed' = [landed EXCEPT ![s] = @ \cup window[k].rows]
  /\ UNCHANGED <<dropped, strays>>

(* withRetry's catch: "retry" within the target's budget, "fail", "skip".  *)
Resolve(k, s) ==
  \/ /\ window[k].tries[s] < SinkAttempts[s]
     /\ window' = [window EXCEPT ![k].tries[s] = @ + 1]
     /\ UNCHANGED dropped
  \/ window' = [window EXCEPT ![k].at[s] = "failed"] /\ UNCHANGED dropped
  \/ /\ s \in Skips
     /\ window' = [window EXCEPT ![k].at[s] = "skipped"]
     /\ dropped' = [dropped EXCEPT ![s] = @ \cup window[k].rows]

WriteFails(k, s) == Writing(k, s) /\ Resolve(k, s) /\ UNCHANGED <<landed, strays>>

(* withDeadline: the race is lost, the operation itself goes on.           *)
WriteTimesOut(k, s) ==
  /\ Deadline /\ Writing(k, s) /\ Resolve(k, s) /\ UNCHANGED landed
  /\ strays' = strays \cup
       {[rows |-> window[k].rows, sink |-> s, attempt |-> failures]}

StrayEnds ==
  \E w \in strays :
    /\ strays' = strays \ {w}
    /\ landed' \in {landed, [landed EXCEPT ![w.sink] = @ \cup w.rows]}
    /\ UNCHANGED <<bad, phase, failures, reader, window, cursor, dropped, aborted, crashes>>

Abort ==
  /\ ~aborted /\ phase \notin Ended \cup {"down"} /\ aborted' = TRUE
  /\ UNCHANGED <<outside, phase, failures, reader, window, strays, crashes>>

(* The process dies: the table and the targets stay.                       *)
Crash ==
  /\ crashes < MaxCrashes /\ phase \notin Ended \cup {"down"}
  /\ crashes' = crashes + 1 /\ phase' = "down"
  /\ failures' = 0 /\ pos' = 0 /\ records' = {} /\ rejects' = {}
  /\ window' = <<>> /\ strays' = {} /\ aborted' = FALSE
  /\ UNCHANGED outside

(* The recovered run executes the pipeline again.                          *)
Restart ==
  /\ phase = "down" /\ phase' = "reading" /\ pos' = cursor
  /\ UNCHANGED <<outside, failures, records, rejects, window, strays, aborted, crashes>>

Read == ReadGood \/ ReadBad \/ FlushRejects \/ FlushRecords \/ ReadDone \/ ReadFails
Drive == DrainHead \/ HeadFails \/ Succeed \/ Retry \/ GiveUp \/ Restart
TimeOut == \E k \in 1 .. Limit, s \in Targets : WriteTimesOut(k, s)

Next ==
  \/ Read \/ Drive \/ TimeOut \/ StrayEnds \/ Abort \/ Crash
  \/ \E k \in 1 .. Limit, s \in Targets : Land(k, s) \/ WriteFails(k, s)

Spec == Init /\ [][Next]_vars

(* The event loop turns: the source takes some step, or a deadline passes. *)
(* No target is ever assumed to answer.                                    *)
FairSpec == Spec /\ WF_vars(Read \/ Drive \/ TimeOut)
-----------------------------------------------------------------------------
(* Types, and never more batches in flight than the pipeline asks for.     *)
TypeOK ==
  /\ bad \subseteq Rows /\ phase \in Phase /\ failures \in 0 .. Attempts
  /\ pos \in 0 .. N /\ records \subseteq Rows /\ rejects \subseteq Rows
  /\ window \in Seq(Batch) /\ Len(window) <= Limit /\ cursor \in 0 .. N
  /\ landed \in [Targets -> SUBSET Rows] /\ dropped \in [Targets -> SUBSET Rows]
  /\ strays \subseteq Stray /\ aborted \in BOOLEAN /\ crashes \in 0 .. MaxCrashes

Handled(s) == landed[s] \cup dropped[s]

(* "A cursor may only advance across a contiguous run of completed         *)
(* batches": every valid row up to the checkpoint is with every sink, so a *)
(* resume skips nothing that was still in flight.                          *)
CheckpointIsCovered ==
  \A r \in Good, s \in Sinks : r <= cursor => r \in Handled(s)

(* A source that ends "success" delivered every valid row to every sink,   *)
(* over retries, deadlines and crashes.                                    *)
SuccessIsComplete ==
  phase = "success" => \A r \in Good, s \in Sinks : r \in Handled(s)

(* The stored checkpoint never moves back, whatever attempt saves it.      *)
CursorOnlyAdvances == [][cursor' >= cursor]_vars

(* An attempt nothing disturbed also delivered every rejected row.         *)
UndisturbedKeepsRejects ==
  (phase = "success" /\ failures = 0 /\ crashes = 0) =>
    \A r \in bad, s \in DeadLetters : r \in Handled(s)

(* "A source's checkpoint may only advance when every record up to that    *)
(* position has been emitted": rejects survive retries and crashes too.    *)
RejectsAreKept ==
  phase = "success" => \A r \in bad, s \in DeadLetters : r \in Handled(s)

(* With a deadline on every pipe the source ends even if a read hangs or a *)
(* target never answers.                                                   *)
SourceEnds == <>(phase \in Ended)
=============================================================================
