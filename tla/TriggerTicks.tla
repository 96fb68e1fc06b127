----------------------------- MODULE TriggerTicks -----------------------------
(***************************************************************************)
(* The two coordinators that admit runs by the clock: CronCoordinator and  *)
(* PollCoordinator, for one workflow with a cron and a poll trigger.  They *)
(* share trigger_schedules and the admission of WorkflowScheduler; a tick  *)
(* that outlasts the interval, or another process, works beside them.      *)
(* Time is counted in occurrences of the cron expression, which is also    *)
(* the interval of the poll.                                               *)
(***************************************************************************)
EXTENDS Integers, Sequences, FiniteSets, SequencesExt

CONSTANTS
  Ticks,       \* ticks that may be under way together
  KindOf,      \* Ticks -> the coordinator it is of: "cron" or "poll"
  Setups,      \* workflows: their triggers, cron's catchUp, poll's onFirstPoll
  Items,       \* the items the endpoint may answer with, by their dedup keys
  DueCap,      \* occurrences one tick looks at
  MaxItems,    \* maxItems of the poll trigger
  SeenLimit,   \* POLL_SEEN_KEYS_LIMIT
  MaxTime,     \* bound: occurrences of the clock
  MaxEdits,    \* bound: times the workflow is saved
  MaxErrors,   \* bound: calls that throw
  MaxCrashes   \* bound: ticks that die

Triggers == {"cron", "poll"}

ASSUME KindAssumption ==
  /\ KindOf \in [Ticks -> Triggers]
  /\ Setups \subseteq [triggers : SUBSET Triggers, catchUp : {"none", "one", "all"},
                        onFirstPoll : {"prime", "fire"}]
ASSUME CapAssumption ==
  /\ IsFiniteSet(Items) /\ DueCap \in Nat \ {0} /\ MaxItems \in Nat \ {0} /\ SeenLimit \in Nat
ASSUME BoundAssumption ==
  MaxTime \in Nat /\ MaxEdits \in Nat /\ MaxErrors \in Nat /\ MaxCrashes \in Nat

VARIABLES
  setup,     \* the member of Setups this behaviour is about
  now,
  enabled,   \* the triggers that are enabled in the stored workflow
  edition,   \* the fingerprint of each trigger's configuration
  rows,      \* trigger_schedules: nextFireAt, fingerprint and seenKeys
  tick,      \* what each tick has read and where it is
  inbox,     \* what the endpoint answers
  runs,      \* the idempotency keys of the rows in workflow_runs
  offered,   \* invocations enqueue was called with
  lost,      \* deliveries with a run that no poll lived to remember
  primed,    \* items that a first poll took for known
  since,     \* the occurrence the cron schedule last started clean with
  edits, errors, crashes

workflow == <<setup, enabled, edition>>
admission == <<runs, offered>>
history == <<lost, primed, since>>
bounds == <<edits, errors, crashes>>
vars == <<now, workflow, rows, tick, inbox, admission, history, bounds>>

(* nextFireAt is 0 when there is no row; a row without seenKeys has not     *)
(* been polled yet.                                                        *)
NoRow == [next |-> 0, edition |-> 0, polled |-> FALSE, seen |-> <<>>]
Clean(next, e) == [next |-> next, edition |-> e, polled |-> FALSE, seen |-> <<>>]
Present(t) == rows[t].next # 0

(* Invocations by their idempotency keys: an occurrence, a list of items.   *)
(* Another order of the same items is another key.                         *)
Fire(o) == [trigger |-> "cron", what |-> <<o>>]
Deliver(s) == [trigger |-> "poll", what |-> s]
Invocation == [trigger : Triggers, what : Seq(Nat \cup Items)]

(* A tick: at, edition and row are what it read; what cron fires, and still *)
(* has to fire; what a poll sends out, and the keys it carries over; the    *)
(* rows cron will reap.                                                    *)
Rest ==
  [stage |-> "rest", boot |-> FALSE, at |-> 0, edition |-> 0, row |-> NoRow,
   what |-> {}, todo |-> {}, out |-> <<>>, carried |-> <<>>, reap |-> {}]
Stages == {"rest", "get", "clean", "fetch", "fire", "insert", "put", "reget", "reput", "reap"}

Row == [next : Nat, edition : Nat, polled : BOOLEAN, seen : Seq(Items)]
Tick == [stage : Stages, boot : BOOLEAN, at : Nat, edition : Nat, row : Row,
         what : SUBSET Nat, todo : SUBSET Nat, out : Seq(Items),
         carried : Seq(Items), reap : SUBSET Triggers]

TypeOK ==
  /\ setup \in Setups /\ enabled \subseteq setup.triggers
  /\ now \in 0 .. MaxTime
  /\ edition \in [Triggers -> Nat]
  /\ rows \in [Triggers -> Row]
  /\ tick \in [Ticks -> Tick]
  /\ inbox \subseteq Items
  /\ runs \subseteq Invocation /\ offered \subseteq Invocation /\ lost \subseteq Invocation
  /\ primed \subseteq Items /\ since \in Nat
  /\ edits \in 0 .. MaxEdits /\ errors \in 0 .. MaxErrors /\ crashes \in 0 .. MaxCrashes

Init ==
  /\ setup \in Setups /\ enabled = setup.triggers
  /\ now = 0
  /\ edition = [t \in Triggers |-> 0]
  /\ rows = [t \in Triggers |-> NoRow]
  /\ tick = [c \in Ticks |-> [Rest EXCEPT !.boot = KindOf[c] = "cron"]]
  /\ inbox = {}
  /\ runs = {} /\ offered = {}
  /\ lost = {} /\ primed = {} /\ since = 0
  /\ edits = 0 /\ errors = 0 /\ crashes = 0

Becomes(c, r) == tick' = [tick EXCEPT ![c] = r]
At(c, stage) == tick[c].stage = stage
Put(t, row) == rows' = [rows EXCEPT ![t] = row]

-----------------------------------------------------------------------------
(* The clock, the endpoint, and people who save the workflow.               *)
Clock ==
  /\ now < MaxTime /\ now' = now + 1
  /\ UNCHANGED <<workflow, rows, tick, inbox, admission, history, bounds>>
Appear ==
  /\ "poll" \in setup.triggers
  /\ \E i \in Items \ inbox : inbox' = inbox \cup {i}
  /\ UNCHANGED <<now, workflow, rows, tick, admission, history, bounds>>
Toggle(t) ==
  /\ t \in setup.triggers /\ edits < MaxEdits /\ edits' = edits + 1
  /\ enabled' = IF t \in enabled THEN enabled \ {t} ELSE enabled \cup {t}
  /\ UNCHANGED <<now, setup, edition, rows, tick, inbox, admission,
                 history, errors, crashes>>
Reconfigure(t) ==
  /\ t \in setup.triggers /\ edits < MaxEdits /\ edits' = edits + 1
  /\ edition' = [edition EXCEPT ![t] = @ + 1]
  /\ UNCHANGED <<now, setup, enabled, rows, tick, inbox, admission,
                 history, errors, crashes>>

(* A poll ends, by a throw or a death: what it was to remember is lost, if  *)
(* there is a run for it by now.                                           *)
Lose(c, made) ==
  lost' = IF KindOf[c] = "poll" THEN lost \cup ({Deliver(tick[c].out)} \cap made) ELSE lost

Crash(c) ==
  /\ ~At(c, "rest") /\ crashes < MaxCrashes /\ crashes' = crashes + 1
  /\ Becomes(c, [Rest EXCEPT !.boot = KindOf[c] = "cron"]) /\ Lose(c, runs)
  /\ UNCHANGED <<now, workflow, rows, inbox, admission, primed, since, edits, errors>>

-----------------------------------------------------------------------------
(* CronCoordinator.process.                                                *)

(* dueOccurrences, and acceptedOccurrences: recovery without catch-up fires *)
(* nothing, "all" fires what is due, the others the first of it.           *)
Due(next) == {o \in next .. now : o < next + DueCap}
Accepted(next, recovering) ==
  IF recovering /\ setup.catchUp = "none" THEN {}
  ELSE IF setup.catchUp = "all" THEN Due(next) ELSE {next}

(* Mutant of Stale: a tick looks at the triggers of its own kind alone.     *)
StaleOfCron == {t \in Triggers : Present(t) /\ t \notin enabled \cap {"cron"}}

(* Rows whose trigger is gone or disabled.                                 *)
Stale == {t \in Triggers : Present(t) /\ t \notin enabled}

(* After the triggers come the rows to reap, if any.                       *)
ThenReap(reap) == IF reap = {} THEN Rest ELSE [Rest EXCEPT !.stage = "reap", !.reap = reap]

(* One read of the workflows and of the schedules.                         *)
CronSkips(c) ==
  /\ KindOf[c] = "cron" /\ At(c, "rest")
  /\ \/ "cron" \notin enabled
     \/ Present("cron") /\ rows["cron"].edition = edition["cron"] /\ rows["cron"].next > now
  /\ Becomes(c, ThenReap(Stale))
  /\ UNCHANGED <<now, workflow, rows, inbox, admission, history, bounds>>
CronStarts(c) ==
  /\ KindOf[c] = "cron" /\ At(c, "rest")
  /\ "cron" \in enabled /\ ~(Present("cron") /\ rows["cron"].edition = edition["cron"])
  /\ Becomes(c, [Rest EXCEPT !.stage = "clean", !.at = now, !.edition = edition["cron"],
                         !.reap = Stale])
  /\ UNCHANGED <<now, workflow, rows, inbox, admission, history, bounds>>
CronIsDue(c) ==
  /\ KindOf[c] = "cron" /\ At(c, "rest")
  /\ "cron" \in enabled /\ Present("cron") /\ rows["cron"].edition = edition["cron"]
  /\ rows["cron"].next <= now
  /\ LET a == Accepted(rows["cron"].next, tick[c].boot) IN
     Becomes(c, [Rest EXCEPT !.stage = IF a = {} THEN "put" ELSE "fire", !.at = now,
                         !.edition = edition["cron"],
                         !.what = a, !.todo = a, !.reap = Stale])
  /\ UNCHANGED <<now, workflow, rows, inbox, admission, history, bounds>>

(* Mutant of NextFire: the clock decides, whatever the cap left over.       *)
NextFireByClock(c) == tick[c].at + 1

NextFire(c) ==
  IF setup.catchUp = "all" /\ tick[c].what # {}
  THEN (CHOOSE o \in tick[c].what : \A p \in tick[c].what : p <= o) + 1
  ELSE tick[c].at + 1

WriteNext(c) ==
  /\ KindOf[c] = "cron" /\ At(c, "put")
  /\ Put("cron", Clean(NextFire(c), tick[c].edition)) /\ UNCHANGED <<lost, since>>

(* A new row, or one for another configuration: start with what comes.      *)
WriteClean(c) ==
  /\ At(c, "clean")
  /\ Put(KindOf[c], Clean(tick[c].at + 1, tick[c].edition))
  /\ since' = IF KindOf[c] = "cron" /\ since <= tick[c].at THEN tick[c].at + 1 ELSE since
  /\ UNCHANGED lost

Reap(c) ==
  /\ At(c, "reap")
  /\ \E t \in tick[c].reap : Put(t, NoRow) /\ Becomes(c, ThenReap(tick[c].reap \ {t}))
  /\ UNCHANGED <<now, workflow, inbox, admission, history, bounds>>

-----------------------------------------------------------------------------
(* PollCoordinator.tick and pollOne.                                       *)
PollRead(c) ==
  /\ KindOf[c] = "poll" /\ At(c, "rest") /\ "poll" \in enabled
  /\ Becomes(c, [Rest EXCEPT !.stage = "get", !.at = now, !.edition = edition["poll"]])
  /\ UNCHANGED <<now, workflow, rows, inbox, admission, history, bounds>>
PollGet(c) ==
  /\ At(c, "get")
  /\ Becomes(c, IF ~Present("poll") \/ rows["poll"].edition # tick[c].edition
            THEN [tick[c] EXCEPT !.stage = "clean"]
            ELSE IF rows["poll"].next > tick[c].at THEN Rest
            ELSE [tick[c] EXCEPT !.stage = "fetch", !.row = rows["poll"]])
  /\ UNCHANGED <<now, workflow, rows, inbox, admission, history, bounds>>

(* Mutant of Carried: all that is fresh is remembered.                     *)
CarriedAll(fresh, delivered, fires) == fresh

(* A delivery records what goes out, priming the whole answer.             *)
Carried(fresh, delivered, fires) == IF fires THEN delivered ELSE fresh

(* The items of the answer, in any order, that are not in the row that was  *)
(* read; maxItems of them go out unless this poll only primes.             *)
PollFetch(c) ==
  /\ At(c, "fetch")
  /\ \E fresh \in SetToSeqs(inbox \ ToSet(tick[c].row.seen)) :
       LET delivered == SubSeq(fresh, 1, IF Len(fresh) < MaxItems THEN Len(fresh) ELSE MaxItems)
           priming == ~tick[c].row.polled /\ setup.onFirstPoll = "prime"
           fires == fresh # <<>> /\ ~priming
       IN /\ Becomes(c, [tick[c] EXCEPT !.stage = IF fires THEN "fire" ELSE "put",
                       !.out = IF fires THEN delivered ELSE <<>>,
                       !.carried = Carried(fresh, delivered, fires)])
          /\ primed' = IF priming THEN primed \cup ToSet(fresh) ELSE primed
  /\ UNCHANGED <<now, workflow, rows, inbox, admission, lost, since, bounds>>

(* boundedSeen: the oldest keys make room.                                 *)
Bounded(s) == IF Len(s) > SeenLimit THEN SubSeq(s, Len(s) - SeenLimit + 1, Len(s)) ELSE s

WriteCursor(c) ==
  /\ KindOf[c] = "poll" /\ At(c, "put")
  /\ Put("poll", [next |-> tick[c].at + 1, edition |-> tick[c].edition, polled |-> TRUE,
                  seen |-> Bounded(tick[c].row.seen \o tick[c].carried)])
  /\ lost' = lost \ {Deliver(tick[c].out)} /\ UNCHANGED since

(* reschedule: after a poll that threw, the cursor that is there now stays. *)
Reschedule(c) == [tick[c].row EXCEPT !.next = tick[c].at + 1, !.edition = tick[c].edition]

PollRegets(c) ==
  /\ At(c, "reget")
  /\ Becomes(c, [tick[c] EXCEPT !.stage = "reput", !.row = rows["poll"]])
  /\ UNCHANGED <<now, workflow, rows, inbox, admission, history, bounds>>
WriteAgain(c) ==
  /\ At(c, "reput") /\ Put("poll", Reschedule(c)) /\ UNCHANGED <<lost, since>>

-----------------------------------------------------------------------------
(* What both coordinators do with a put, and with a call that throws.       *)
Write(c) == WriteNext(c) \/ WriteClean(c) \/ WriteCursor(c) \/ WriteAgain(c)

PutRow(c) ==
  /\ Write(c) /\ Becomes(c, ThenReap(tick[c].reap))
  /\ UNCHANGED <<now, workflow, inbox, admission, primed, bounds>>

(* A poll is caught and rescheduled; a throw in there, or in cron's tick,   *)
(* ends the tick.  When cron was recovering, the process ends as well.     *)
Caught(c) ==
  IF KindOf[c] = "poll" /\ tick[c].stage \notin {"reget", "reput"}
  THEN {[Rest EXCEPT !.stage = "reget", !.at = tick[c].at, !.edition = tick[c].edition]}
  ELSE {[Rest EXCEPT !.boot = b] : b \in {FALSE, KindOf[c] = "cron"}}

(* A read, a fetch or a write throws; a write may have been done.           *)
Throws(c) ==
  /\ tick[c].stage \in Stages \ {"rest", "fire", "insert"}
  /\ errors < MaxErrors /\ errors' = errors + 1
  /\ \/ Write(c)
     \/ Lose(c, runs) /\ UNCHANGED <<rows, since>>
     \/ \E t \in tick[c].reap : At(c, "reap") /\ Put(t, NoRow) /\ UNCHANGED <<lost, since>>
  /\ \E r \in Caught(c) : Becomes(c, r)
  /\ UNCHANGED <<now, workflow, inbox, admission, primed, edits, crashes>>

-----------------------------------------------------------------------------
(* WorkflowScheduler.enqueue, as the coordinators call it.                  *)
First(c) == CHOOSE o \in tick[c].todo : \A p \in tick[c].todo : o <= p
Asked(c) == IF KindOf[c] = "cron" THEN Fire(First(c)) ELSE Deliver(tick[c].out)

(* enqueue returned, whatever it said: cron goes on with the next           *)
(* occurrence, poll writes its cursor.                                     *)
Returned(c) ==
  LET rest == IF KindOf[c] = "cron" THEN tick[c].todo \ {First(c)} ELSE {} IN
  [tick[c] EXCEPT !.stage = IF rest = {} THEN "put" ELSE "fire", !.todo = rest]

(* The key is looked up first.  Then the engine's state, the trigger's      *)
(* conditions or a running run may refuse.                                 *)
Find(c) ==
  /\ At(c, "fire")
  /\ offered' = offered \cup {Asked(c)}
  /\ \/ Asked(c) \notin runs /\ Becomes(c, [tick[c] EXCEPT !.stage = "insert"])
     \/ Becomes(c, Returned(c))
  /\ UNCHANGED <<now, workflow, rows, inbox, runs, history, bounds>>

(* The unique index on workflow, trigger and key decides between two that   *)
(* both found nothing.                                                     *)
Insert(c) ==
  /\ At(c, "insert")
  /\ runs' = runs \cup {Asked(c)} /\ Becomes(c, Returned(c))
  /\ UNCHANGED <<now, workflow, rows, inbox, offered, history, bounds>>

(* enqueue throws, before its row is there or after (the event, a            *)
(* middleware): cron reports it and goes on, poll is caught.                *)
EnqueueThrows(c) ==
  /\ At(c, "fire") \/ At(c, "insert")
  /\ errors < MaxErrors /\ errors' = errors + 1
  /\ offered' = offered \cup {Asked(c)}
  /\ runs' \in {runs} \cup (IF At(c, "insert") THEN {runs \cup {Asked(c)}} ELSE {})
  /\ Lose(c, runs')
  /\ \E r \in IF KindOf[c] = "cron" THEN {Returned(c)} ELSE Caught(c) : Becomes(c, r)
  /\ UNCHANGED <<now, workflow, rows, inbox, primed, since, edits, crashes>>

Step(c) ==
  \/ CronSkips(c) \/ CronStarts(c) \/ CronIsDue(c) \/ Reap(c)
  \/ PollRead(c) \/ PollGet(c) \/ PollFetch(c) \/ PollRegets(c)
  \/ PutRow(c) \/ Find(c) \/ Insert(c)

Next ==
  \/ Clock \/ Appear
  \/ \E t \in Triggers : Toggle(t) \/ Reconfigure(t)
  \/ \E c \in Ticks : Step(c) \/ Crash(c) \/ Throws(c) \/ EnqueueThrows(c)

Spec == Init /\ [][Next]_vars

-----------------------------------------------------------------------------
(* With catchUp "all", what nextFireAt has passed was handed to enqueue:    *)
(* over late and overlapping ticks that write old values back, ticks that   *)
(* die between firing and writing, and the cap of 100, no occurrence since  *)
(* the schedule last started clean is left out.                            *)
NothingSkipped ==
  (setup.catchUp = "all" /\ Present("cron")) =>
    \A o \in since .. rows["cron"].next - 1 : Fire(o) \in offered

(* "keys past maxItems must stay new, or those items are dropped" (poll.ts: *)
(* 149): an item is remembered only if a poll offered it, or if a first     *)
(* poll took it for known.                                                 *)
Delivers(v, i) == v.trigger = "poll" /\ i \in ToSet(v.what)
Sent(i) == \E v \in offered : Delivers(v, i)
SeenWasOffered == \A i \in ToSet(rows["poll"].seen) : Sent(i) \/ i \in primed

(* A poll "creates a run only for items it has not seen before" (poll.ts:   *)
(* 50), as far as that goes: when an item has two runs, the poll that made  *)
(* one of them threw or died between the insert and the write of its        *)
(* cursor.  A failed fetch, a refused run, a throw before the insert, a     *)
(* cron tick or a reaper gives no item a second run.  This is of a poll    *)
(* that works alone and is not saved over, with room for every key.        *)
Runs(i) == {v \in runs : Delivers(v, i)}
Lone(p) == KindOf[p] = "poll" /\ \A c \in Ticks : KindOf[c] = "poll" => c = p
Alone == \E p \in Ticks : Lone(p)
SecondRunsWereLost ==
  (Alone /\ edits = 0 /\ Cardinality(Items) <= SeenLimit) =>
    \A i \in Items : \A v, w \in Runs(i) : v = w \/ v \in lost \/ w \in lost

(* "dropped without ever reaching a run" (poll.ts:150) is what recording    *)
(* only delivered keys is to rule out.                                     *)
SeenReachedARun ==
  \A i \in ToSet(rows["poll"].seen) : i \in primed \/ Runs(i) # {}
=============================================================================
