-------------------------- MODULE TriggerOnce_proofs --------------------------
(***************************************************************************)
(* When a poll that works alone gives an item two runs (poll.ts, pollOne    *)
(* and tick), for any number of items, errors and deaths: the cursor it     *)
(* read is the cursor it writes over, a run that is not lost has its items  *)
(* in the cursor or is about to, and a limit that holds every item never    *)
(* makes room.                                                             *)
(***************************************************************************)
EXTENDS TriggerTicks_proofs

-----------------------------------------------------------------------------
(* The invariant, for the one poll tick p, while nobody saves the workflow.  *)
Unedited == enabled = setup.triggers /\ \A t \in Triggers : edition[t] = 0

(* The row stays once it is there: no tick is going to reap it.            *)
RowStays ==
  /\ Present("poll") => "poll" \in setup.triggers /\ rows["poll"].edition = 0
  /\ ~Present("poll") => rows["poll"].seen = <<>>
  /\ IsInjective(rows["poll"].seen)
  /\ \A c \in Ticks : "poll" \notin tick[c].reap

(* What a poll read is what there is, what it sends and will remember is    *)
(* not in there, and it reaps nothing.                                     *)
Sending == {"fire", "insert", "put"}
InStep(r) ==
  /\ r.stage # "reap" /\ r.reap = {}
  /\ r.stage \in Sending \cup {"get", "clean", "fetch", "reget", "reput"} =>
       "poll" \in setup.triggers /\ r.edition = 0
  /\ r.stage = "clean" => ~Present("poll")
  /\ r.stage \in Sending \cup {"fetch", "reput"} => r.row = rows["poll"]
  /\ r.stage \in Sending =>
       /\ IsInjective(r.carried) /\ \A i \in ToSet(r.carried) : i \notin ToSet(r.row.seen)
       /\ ToSet(r.out) \subseteq ToSet(r.carried)

(* The items of a run that is not lost are remembered, or are about to be,   *)
(* and are in no other one.                                                *)
Live(v) == v \in runs /\ v \notin lost /\ v.trigger = "poll"
Remembered(v) == ToSet(v.what) \subseteq ToSet(rows["poll"].seen)
RunsKnown(p) ==
  \A v : Live(v) => Remembered(v) \/ (tick[p].stage = "put" /\ v = Deliver(tick[p].out))
RunsApart == \A v, w : (Live(v) /\ Live(w) /\ v # w) => ToSet(v.what) \cap ToSet(w.what) = {}

Kept(p) == Unedited /\ RowStays /\ InStep(tick[p]) /\ RunsKnown(p) /\ RunsApart
OnceInv ==
  \A p \in Ticks : (Lone(p) /\ edits = 0 /\ Cardinality(Items) <= SeenLimit) => Kept(p)

-----------------------------------------------------------------------------
(* Lists without repetition.                                               *)

(* The front of a list without repetition has none.                        *)
LEMMA FrontIsDistinct ==
  ASSUME NEW s \in Seq(Items), IsInjective(s), NEW n \in 0 .. Len(s)
  PROVE  IsInjective(SubSeq(s, 1, n))
<1>1. /\ DOMAIN SubSeq(s, 1, n) = 1 .. n
      /\ \A i \in 1 .. n : SubSeq(s, 1, n)[i] = s[i] /\ i \in DOMAIN s
  OBVIOUS
<1> QED
  BY <1>1 DEF IsInjective

(* Two lists without repetition and without a common item, together.        *)
LEMMA JoinedIsDistinct ==
  ASSUME NEW s \in Seq(Items), NEW t \in Seq(Items), IsInjective(s), IsInjective(t),
         \A i \in ToSet(t) : i \notin ToSet(s)
  PROVE  /\ s \o t \in Seq(Items) /\ IsInjective(s \o t)
         /\ ToSet(s) \cup ToSet(t) \subseteq ToSet(s \o t)
<1>1. s \o t \in Seq(Items) /\ Len(s \o t) = Len(s) + Len(t)
  OBVIOUS
<1>2. /\ \A i \in 1 .. Len(s) : i \in DOMAIN (s \o t) /\ (s \o t)[i] = s[i]
      /\ \A i \in 1 .. Len(t) :
           Len(s) + i \in DOMAIN (s \o t) /\ (s \o t)[Len(s) + i] = t[i]
  BY <1>1
<1>3. ToSet(s) \cup ToSet(t) \subseteq ToSet(s \o t)
  <2>1. ASSUME NEW i \in DOMAIN s
        PROVE  s[i] \in ToSet(s \o t)
    BY <1>2 DEF ToSet
  <2>2. ASSUME NEW i \in DOMAIN t
        PROVE  t[i] \in ToSet(s \o t)
    <3>1. i \in 1 .. Len(t)
      OBVIOUS
    <3> QED
      BY <1>2, <3>1 DEF ToSet
  <2> QED
    BY <2>1, <2>2 DEF ToSet
<1>4. ASSUME NEW i \in DOMAIN (s \o t)
      PROVE  \/ i \in DOMAIN s /\ (s \o t)[i] = s[i]
             \/ /\ i - Len(s) \in DOMAIN t /\ (s \o t)[i] = t[i - Len(s)]
                /\ i = Len(s) + (i - Len(s))
  <2>1. CASE i <= Len(s)
    BY <1>1, <2>1
  <2>2. CASE i > Len(s)
    BY <1>1, <2>2
  <2> QED
    BY <1>1, <2>1, <2>2
<1>5. ASSUME NEW a \in DOMAIN (s \o t), NEW b \in DOMAIN (s \o t), (s \o t)[a] = (s \o t)[b]
      PROVE  a = b
  <2>1. CASE a \in DOMAIN s /\ (s \o t)[a] = s[a]
    <3>1. (s \o t)[a] \in ToSet(s)
      BY <2>1 DEF ToSet
    <3>2. ~(b - Len(s) \in DOMAIN t /\ (s \o t)[b] = t[b - Len(s)])
      BY <1>5, <3>1 DEF ToSet
    <3>3. b \in DOMAIN s /\ (s \o t)[b] = s[b]
      BY <1>4, <3>2
    <3> QED
      BY <1>5, <2>1, <3>3 DEF IsInjective
  <2>2. CASE /\ a - Len(s) \in DOMAIN t /\ (s \o t)[a] = t[a - Len(s)]
             /\ a = Len(s) + (a - Len(s))
    <3>1. (s \o t)[a] \in ToSet(t)
      BY <2>2 DEF ToSet
    <3>2. ~(b \in DOMAIN s /\ (s \o t)[b] = s[b])
      BY <1>5, <3>1 DEF ToSet
    <3>3. /\ b - Len(s) \in DOMAIN t /\ (s \o t)[b] = t[b - Len(s)]
          /\ b = Len(s) + (b - Len(s))
      BY <1>4, <3>2
    <3>4. a - Len(s) = b - Len(s)
      BY <1>5, <2>2, <3>3 DEF IsInjective
    <3> QED
      BY <2>2, <3>3, <3>4
  <2> QED
    BY <1>4, <2>1, <2>2
<1> QED
  BY <1>1, <1>3, <1>5 DEF IsInjective

(* A list of items without repetition is no longer than there are items, so *)
(* a limit that holds them all never makes room.                           *)
LEMMA DistinctIsKept ==
  ASSUME NEW s \in Seq(Items), IsInjective(s), Cardinality(Items) <= SeenLimit
  PROVE  Bounded(s) = s
<1>1. /\ SeenLimit \in Nat /\ Len(s) \in Nat /\ DOMAIN s = 1 .. Len(s)
      /\ IsFiniteSet(Items) /\ Cardinality(Items) \in Nat
  BY CapAssumption, FS_CardinalityType
<1>2. PICK n \in Nat : n = Len(s)
  BY <1>1
<1>3. Cardinality(1 .. Len(s)) = Len(s)
  <2>1. 1 \in Int /\ n \in Int
    OBVIOUS
  <2>2. Cardinality(1 .. n) = IF 1 > n THEN 0 ELSE n - 1 + 1
    BY <2>1, FS_Interval
  <2> QED
    BY <1>2, <2>2
<1>4. s \in Injection(1 .. Len(s), Items)
  BY <1>1 DEF Injection, IsInjective
<1>5. Cardinality(1 .. Len(s)) <= Cardinality(Items)
  BY <1>1, <1>4, FS_Injection, Zenon
<1> QED
  BY <1>1, <1>3, <1>5 DEF Bounded

-----------------------------------------------------------------------------
(* Steps of the others.                                                    *)

(* The tick that takes a step, and the ones that do not.                    *)
LEMMA OneBecomes ==
  ASSUME TypeOK, NEW c \in Ticks, NEW r, Becomes(c, r)
  PROVE  tick'[c] = r /\ \A d \in Ticks : d # c => tick'[d] = tick[d]
BY DEF TypeOK, Becomes

(* With nobody editing, the row of the poll is not one to reap.             *)
LEMMA PollIsNotStale ==
  ASSUME Unedited, RowStays PROVE "poll" \notin Stale
BY DEF Unedited, RowStays, Stale

(* A tick that goes on to reap reaps no more than that.                    *)
LEMMA ReapsNoMore ==
  ASSUME NEW R PROVE ThenReap(R).reap = R \/ ThenReap(R).reap = {}
BY DEF ThenReap, Rest

(* A step that leaves the poll, its row and its runs alone.                 *)
LEMMA OthersStep ==
  ASSUME NEW p \in Ticks, Kept(p), rows'["poll"] = rows["poll"], tick'[p] = tick[p],
         UNCHANGED workflow, \A c \in Ticks : "poll" \notin tick'[c].reap,
         \A v : Live(v)' => Live(v)
  PROVE  Kept(p)'
<1>1. Unedited' /\ RowStays' /\ InStep(tick[p])'
  BY DEF Kept, Unedited, RowStays, InStep, Present, workflow
<1>2. \A v : Remembered(v)' = Remembered(v)
  BY DEF Remembered
<1>3. RunsKnown(p)' /\ RunsApart'
  BY <1>2 DEF Kept, RunsKnown, RunsApart, Deliver
<1> QED
  BY <1>1, <1>3 DEF Kept

(* A step of a cron tick that makes no delivery run.                        *)
LEMMA CronStep ==
  ASSUME TypeOK, NEW p \in Ticks, Kept(p), NEW c \in Ticks, c # p, NEW r, Becomes(c, r),
         "poll" \notin r.reap, rows'["poll"] = rows["poll"], UNCHANGED workflow,
         lost' = lost, \A v \in runs' : v \in runs \/ v.trigger # "poll"
  PROVE  Kept(p)'
<1>1. /\ tick'[p] = tick[p]
      /\ \A d \in Ticks : "poll" \notin tick'[d].reap
  BY OneBecomes DEF Kept, RowStays
<1>2. \A v : Live(v)' => Live(v)
  BY DEF Live
<1> QED
  BY <1>1, <1>2, OthersStep

(* A cron tick writes the row of cron.                                     *)
LEMMA CronWrites ==
  ASSUME IInv, NEW c \in Ticks, KindOf[c] = "cron", Write(c)
  PROVE  rows'["poll"] = rows["poll"] /\ lost' = lost
<1>0. rows \in [Triggers -> Row] /\ "poll" \in Triggers /\ "cron" \in Triggers
  BY DEF IInv, TypeOK, Triggers
<1>1. ~WriteCursor(c) /\ ~WriteAgain(c)
  BY PollStage DEF WriteCursor, WriteAgain, At
<1> QED
  BY <1>0, <1>1 DEF Write, WriteNext, WriteClean, Put

(* A cron tick leaves the poll alone.                                      *)
LEMMA CronLeavesPoll ==
  ASSUME IInv, NEW p \in Ticks, Kept(p), NEW c \in Ticks, c # p, KindOf[c] = "cron",
         Step(c) \/ Crash(c) \/ Throws(c) \/ EnqueueThrows(c)
  PROVE  Kept(p)'
<1>0. /\ TypeOK /\ tick[c] \in Tick /\ "poll" \notin tick[c].reap /\ "poll" \notin Stale
      /\ tick[c].stage \notin {"get", "fetch", "reget", "reput"}
      /\ "poll" \in Triggers /\ "cron" \in Triggers /\ rows \in [Triggers -> Row]
  BY Typed, PollIsNotStale, PollStage DEF IInv, Kept, RowStays, Triggers, TypeOK
<1>1. CASE CronSkips(c)
  BY <1>0, <1>1, ReapsNoMore, CronStep DEF CronSkips, admission, history
<1>2. CASE CronStarts(c)
  <2>1. [Rest EXCEPT !.stage = "clean", !.at = now, !.edition = edition["cron"],
                     !.reap = Stale].reap = Stale
    BY DEF Rest
  <2> QED
    BY <1>0, <1>2, <2>1, CronStep DEF CronStarts, admission, history
<1>3. CASE CronIsDue(c)
  <2>1. PICK a, s : Becomes(c, [Rest EXCEPT !.stage = s, !.at = now,
                                 !.edition = edition["cron"],
                                 !.what = a, !.todo = a, !.reap = Stale])
    BY <1>3 DEF CronIsDue
  <2>2. [Rest EXCEPT !.stage = s, !.at = now, !.edition = edition["cron"],
                     !.what = a, !.todo = a, !.reap = Stale].reap = Stale
    BY DEF Rest
  <2> QED
    BY <1>0, <1>3, <2>1, <2>2, CronStep DEF CronIsDue, admission, history
<1>4. CASE PutRow(c)
  <2>1. rows'["poll"] = rows["poll"] /\ lost' = lost
    BY <1>4, CronWrites DEF PutRow
  <2> QED
    BY <1>0, <1>4, <2>1, ReapsNoMore, CronStep DEF PutRow, admission
<1>5. CASE Reap(c)
  <2>1. PICK t \in tick[c].reap : Put(t, NoRow) /\ Becomes(c, ThenReap(tick[c].reap \ {t}))
    BY <1>5 DEF Reap
  <2>2. rows'["poll"] = rows["poll"]
    BY <1>0, <2>1 DEF Put
  <2> QED
    BY <1>0, <1>5, <2>1, <2>2, ReapsNoMore, CronStep DEF Reap, admission, history
<1>6. CASE Throws(c)
  <2>1. PICK r \in Caught(c) : Becomes(c, r)
    BY <1>6 DEF Throws
  <2>2. r.reap = {}
    BY <2>1 DEF Caught, Rest
  <2>3. rows'["poll"] = rows["poll"] /\ lost' = lost
    <3>1. CASE Write(c)
      BY <3>1, CronWrites
    <3>2. CASE Lose(c, runs) /\ UNCHANGED <<rows, since>>
      BY <3>2 DEF Lose
    <3>3. CASE \E t \in tick[c].reap : At(c, "reap") /\ Put(t, NoRow) /\ UNCHANGED <<lost, since>>
      BY <1>0, <3>3 DEF Put
    <3> QED
      BY <1>6, <3>1, <3>2, <3>3 DEF Throws
  <2> QED
    BY <1>0, <1>6, <2>1, <2>2, <2>3, CronStep DEF Throws, admission
<1>7. CASE Find(c)
  <2>1. PICK r \in {[tick[c] EXCEPT !.stage = "insert"], Returned(c)} : Becomes(c, r)
    BY <1>7 DEF Find
  <2>2. r.reap = tick[c].reap
    BY <1>0, <2>1 DEF Returned, Tick
  <2> QED
    BY <1>0, <1>7, <2>1, <2>2, CronStep DEF Find, history
<1>8. CASE Insert(c) \/ EnqueueThrows(c)
  <2>1. Becomes(c, Returned(c)) /\ Returned(c).reap = tick[c].reap
    BY <1>0, <1>8 DEF Insert, EnqueueThrows, Returned, Tick
  <2>2. Asked(c).trigger = "cron"
    BY DEF Asked, Fire
  <2>3. \A v \in runs' : v \in runs \/ v.trigger # "poll"
    BY <1>8, <2>2 DEF Insert, EnqueueThrows
  <2>4. lost' = lost /\ UNCHANGED <<rows, workflow>>
    BY <1>8 DEF Insert, EnqueueThrows, Lose, history
  <2> QED
    BY <1>0, <2>1, <2>3, <2>4, CronStep
<1>9. CASE Crash(c)
  <2>1. [Rest EXCEPT !.boot = KindOf[c] = "cron"].reap = {}
    BY DEF Rest
  <2>2. lost' = lost
    BY <1>9 DEF Crash, Lose
  <2> QED
    BY <1>0, <1>9, <2>1, <2>2, CronStep DEF Crash, admission
<1> QED
  BY <1>0, <1>1, <1>2, <1>3, <1>4, <1>5, <1>6, <1>7, <1>8, <1>9
  DEF Step, PollRead, PollGet, PollFetch, PollRegets, At

-----------------------------------------------------------------------------
(* Steps of the poll itself.                                               *)

(* One that writes no row, and makes no run that is not lost.               *)
LEMMA PollStep ==
  ASSUME TypeOK, NEW p \in Ticks, Kept(p), NEW r, Becomes(p, r), "poll" \notin r.reap,
         InStep(r), rows'["poll"] = rows["poll"], UNCHANGED workflow,
         \A v : Live(v)' => Live(v) /\ Remembered(v)
  PROVE  Kept(p)'
<1>1. tick'[p] = r /\ \A d \in Ticks : d # p => tick'[d] = tick[d]
  BY OneBecomes
<1>2. Unedited' /\ RowStays' /\ InStep(tick[p])'
  BY <1>1 DEF Kept, Unedited, RowStays, InStep, Present, workflow
<1>3. \A v : Remembered(v)' = Remembered(v)
  BY DEF Remembered
<1>4. RunsKnown(p)' /\ RunsApart'
  BY <1>3 DEF Kept, RunsKnown, RunsApart
<1> QED
  BY <1>2, <1>4 DEF Kept

(* One that leaves the runs as they are, with nothing to remember.          *)
LEMMA PollMoves ==
  ASSUME TypeOK, NEW p \in Ticks, Kept(p), NEW r, Becomes(p, r), "poll" \notin r.reap,
         InStep(r), tick[p].stage # "put",
         rows'["poll"] = rows["poll"], UNCHANGED <<workflow, runs, lost>>
  PROVE  Kept(p)'
<1>1. \A v : Live(v)' => Live(v) /\ Remembered(v)
  BY DEF Live, Kept, RunsKnown
<1> QED
  BY <1>1, PollStep

(* One that ends the poll by a throw or a death: what it made is lost.      *)
LEMMA PollLoses ==
  ASSUME TypeOK, NEW p \in Ticks, Kept(p), KindOf[p] = "poll", NEW r, Becomes(p, r),
         "poll" \notin r.reap, InStep(r), Lose(p, runs'),
         \A v \in runs' : v \in runs \/ v = Deliver(tick[p].out),
         rows'["poll"] = rows["poll"], UNCHANGED workflow
  PROVE  Kept(p)'
<1>1. \A v : Live(v)' => Live(v) /\ v # Deliver(tick[p].out)
  BY DEF Live, Lose
<1>2. \A v : Live(v)' => Live(v) /\ Remembered(v)
  BY <1>1 DEF Kept, RunsKnown
<1> QED
  BY <1>2, PollStep

(* One that writes the row: what was known is remembered.                   *)
LEMMA PollWrites ==
  ASSUME TypeOK, NEW p \in Ticks, Kept(p), NEW r, Becomes(p, r), r.reap = {},
         r.stage \in {"rest", "reget"}, r.stage = "reget" => r.edition = 0,
         "poll" \in setup.triggers,
         NEW w, Put("poll", w), w.next # 0, w.edition = 0, IsInjective(w.seen),
         \A v : Live(v)' => ToSet(v.what) \subseteq ToSet(w.seen), RunsApart',
         UNCHANGED workflow
  PROVE  Kept(p)'
<1>1. tick'[p] = r /\ \A d \in Ticks : d # p => tick'[d] = tick[d]
  BY OneBecomes
<1>2. rows'["poll"] = w
  BY DEF Put, TypeOK, Triggers
<1>3. Unedited' /\ RowStays'
  BY <1>1, <1>2 DEF Kept, Unedited, RowStays, Present, workflow
<1>4. InStep(tick[p])'
  BY <1>1 DEF InStep, Sending, workflow
<1>5. RunsKnown(p)'
  BY <1>2 DEF RunsKnown, Remembered
<1> QED
  BY <1>3, <1>4, <1>5 DEF Kept

(* What a step of the poll looks at.                                       *)
LEMMA PollTyped ==
  ASSUME IInv, NEW p \in Ticks, Kept(p)
  PROVE  /\ TypeOK /\ tick[p] \in Tick /\ "poll" \notin tick[p].reap
         /\ rows["poll"] \in Row /\ now \in Nat /\ InStep(tick[p])
         /\ Unedited /\ RowStays
BY Typed DEF IInv, Kept, RowStays

(* PollRead: the edition it reads is the only one there ever was.           *)
LEMMA ReadIsInStep ==
  ASSUME IInv, NEW p \in Ticks, Kept(p), PollRead(p)
  PROVE  Kept(p)'
<1>1. PICK r : r = [Rest EXCEPT !.stage = "get", !.at = now, !.edition = edition["poll"]]
  OBVIOUS
<1>2. r.stage = "get" /\ r.edition = edition["poll"] /\ r.reap = {}
  BY <1>1 DEF Rest
<1>3. InStep(r)
  BY <1>2, PollTyped DEF PollRead, InStep, Sending, Unedited, Triggers
<1> QED
  BY <1>1, <1>2, <1>3, PollTyped, PollMoves DEF PollRead, At, admission, history

(* PollGet starts clean only if there is no row.                            *)
LEMMA GetIsInStep ==
  ASSUME IInv, NEW p \in Ticks, Kept(p), PollGet(p)
  PROVE  Kept(p)'
<1>0. tick[p].stage = "get"
  BY DEF PollGet, At
<1>1. CASE ~Present("poll") \/ rows["poll"].edition # tick[p].edition
  <2>1. PICK r : r = [tick[p] EXCEPT !.stage = "clean"] /\ Becomes(p, r)
    BY <1>1 DEF PollGet
  <2>2. r.stage = "clean" /\ r.edition = tick[p].edition /\ r.reap = tick[p].reap
    BY <2>1, PollTyped DEF Tick
  <2>3. InStep(r)
    BY <1>0, <1>1, <2>2, PollTyped DEF InStep, Sending, RowStays
  <2> QED
    BY <1>0, <2>1, <2>2, <2>3, PollTyped, PollMoves DEF PollGet, admission, history
<1>2. CASE Present("poll") /\ rows["poll"].edition = tick[p].edition
           /\ rows["poll"].next > tick[p].at
  <2>1. Rest.stage = "rest" /\ Rest.reap = {} /\ Becomes(p, Rest)
    BY <1>2 DEF PollGet, Rest
  <2>2. InStep(Rest)
    BY <2>1 DEF InStep, Sending
  <2> QED
    BY <1>0, <2>1, <2>2, PollTyped, PollMoves DEF PollGet, admission, history
<1>3. CASE Present("poll") /\ rows["poll"].edition = tick[p].edition
           /\ ~(rows["poll"].next > tick[p].at)
  <2>1. PICK r : /\ r = [tick[p] EXCEPT !.stage = "fetch", !.row = rows["poll"]]
                 /\ Becomes(p, r)
    BY <1>3 DEF PollGet
  <2>2. /\ r.stage = "fetch" /\ r.edition = tick[p].edition /\ r.reap = tick[p].reap
        /\ r.row = rows["poll"]
    BY <2>1, PollTyped DEF Tick
  <2>3. InStep(r)
    BY <1>0, <1>3, <2>2, PollTyped DEF InStep, Sending, RowStays
  <2> QED
    BY <1>0, <2>1, <2>2, <2>3, PollTyped, PollMoves DEF PollGet, admission, history
<1> QED
  BY <1>1, <1>2, <1>3

(* PollFetch: what it sends, and will remember, is new and repeats nothing. *)
LEMMA FetchIsInStep ==
  ASSUME IInv, NEW p \in Ticks, Kept(p), PollFetch(p)
  PROVE  Kept(p)'
<1>0. tick[p].stage = "fetch"
  BY DEF PollFetch, At
<1>1. PICK fresh \in SetToSeqs(inbox \ ToSet(tick[p].row.seen)) :
        LET delivered == SubSeq(fresh, 1, IF Len(fresh) < MaxItems THEN Len(fresh) ELSE MaxItems)
            priming == ~tick[p].row.polled /\ setup.onFirstPoll = "prime"
            fires == fresh # <<>> /\ ~priming
        IN Becomes(p, [tick[p] EXCEPT !.stage = IF fires THEN "fire" ELSE "put",
                         !.out = IF fires THEN delivered ELSE <<>>,
                         !.carried = Carried(fresh, delivered, fires)])
  BY DEF PollFetch
<1>2. PICK delivered : delivered = SubSeq(fresh, 1, IF Len(fresh) < MaxItems THEN Len(fresh)
                                                                           ELSE MaxItems)
  OBVIOUS
<1>3. PICK fires \in BOOLEAN :
        fires = (fresh # <<>> /\ ~(~tick[p].row.polled /\ setup.onFirstPoll = "prime"))
  OBVIOUS
<1>5. PICK r : r = [tick[p] EXCEPT !.stage = IF fires THEN "fire" ELSE "put",
                      !.out = IF fires THEN delivered ELSE <<>>,
                      !.carried = Carried(fresh, delivered, fires)]
  OBVIOUS
<1>6. Becomes(p, r)
  BY <1>1, <1>2, <1>3, <1>5
<1>7. /\ r.stage = IF fires THEN "fire" ELSE "put"
      /\ r.row = tick[p].row /\ r.edition = tick[p].edition /\ r.reap = tick[p].reap
      /\ r.out = IF fires THEN delivered ELSE <<>>
      /\ r.carried = IF fires THEN delivered ELSE fresh
  BY <1>5, PollTyped DEF Carried, Tick
<1>8. inbox \ ToSet(tick[p].row.seen) \in SUBSET Items
  BY DEF IInv, TypeOK
<1>9. /\ fresh \in Seq(Items) /\ ToSet(fresh) \subseteq inbox \ ToSet(tick[p].row.seen)
      /\ IsInjective(fresh)
  BY <1>8, AnswerIsSeq
<1>10. PICK n \in 0 .. Len(fresh) : delivered = SubSeq(fresh, 1, n)
  BY <1>2, <1>9, CapAssumption
<1>11. ToSet(delivered) \subseteq ToSet(fresh) /\ IsInjective(delivered)
  BY <1>9, <1>10, FrontPart, FrontIsDistinct
<1>12. IsInjective(r.carried) /\ \A i \in ToSet(r.carried) : i \notin ToSet(r.row.seen)
  BY <1>7, <1>9, <1>11
<1>13. ToSet(r.out) \subseteq ToSet(r.carried)
  BY <1>7 DEF ToSet
<1>14. InStep(r)
  BY <1>0, <1>7, <1>12, <1>13, PollTyped DEF InStep, Sending
<1> QED
  BY <1>0, <1>6, <1>7, <1>14, PollTyped, PollMoves DEF PollFetch, admission

(* The catch reads the row again.                                          *)
LEMMA RegetIsInStep ==
  ASSUME IInv, NEW p \in Ticks, Kept(p), PollRegets(p)
  PROVE  Kept(p)'
<1>0. tick[p].stage = "reget"
  BY DEF PollRegets, At
<1>1. PICK r : r = [tick[p] EXCEPT !.stage = "reput", !.row = rows["poll"]]
  OBVIOUS
<1>2. /\ r.stage = "reput" /\ r.reap = tick[p].reap
      /\ r.edition = tick[p].edition /\ r.row = rows["poll"]
  BY <1>1, PollTyped DEF Tick
<1>3. InStep(r)
  BY <1>0, <1>2, PollTyped DEF InStep, Sending
<1> QED
  BY <1>0, <1>1, <1>2, <1>3, PollTyped, PollMoves DEF PollRegets, admission, history

(* A poll that was caught has its edition, and nothing to reap.             *)
LEMMA CaughtIsInStep ==
  ASSUME IInv, NEW p \in Ticks, Kept(p), KindOf[p] = "poll", NEW r \in Caught(p),
         tick[p].stage \notin {"rest", "reap"}
  PROVE  /\ r.stage \in {"rest", "reget"} /\ r.reap = {} /\ InStep(r)
         /\ r.stage = "reget" => r.edition = 0
         /\ "poll" \in setup.triggers
<1>1. "poll" \in setup.triggers /\ tick[p].edition = 0
  BY PollTyped DEF InStep, Sending, Tick, Stages
<1>2. CASE r = [Rest EXCEPT !.stage = "reget", !.at = tick[p].at, !.edition = tick[p].edition]
  <2>1. r.stage = "reget" /\ r.edition = 0 /\ r.reap = {}
    BY <1>1, <1>2 DEF Rest
  <2> QED
    BY <1>1, <2>1 DEF InStep, Sending
<1>3. CASE \E b \in BOOLEAN : r = [Rest EXCEPT !.boot = b]
  <2>1. r.stage = "rest" /\ r.reap = {}
    BY <1>3 DEF Rest
  <2> QED
    BY <1>1, <2>1 DEF InStep, Sending
<1> QED
  BY <1>2, <1>3 DEF Caught

(* Find goes on to insert, or to the put if the invocation is known or       *)
(* refused.                                                                *)
LEMMA FindIsInStep ==
  ASSUME IInv, NEW p \in Ticks, Kept(p), KindOf[p] = "poll", Find(p)
  PROVE  Kept(p)'
<1>0. tick[p].stage = "fire"
  BY DEF Find, At
<1>1. PICK r \in {[tick[p] EXCEPT !.stage = "insert"], Returned(p)} : Becomes(p, r)
  BY DEF Find
<1>2. /\ r.stage \in {"insert", "put"} /\ r.reap = tick[p].reap /\ r.row = tick[p].row
      /\ r.edition = tick[p].edition /\ r.carried = tick[p].carried
      /\ r.out = tick[p].out
  BY <1>1, PollTyped DEF Tick, Returned
<1>3. InStep(r)
  BY <1>0, <1>2, PollTyped DEF InStep, Sending
<1> QED
  BY <1>0, <1>1, <1>2, <1>3, PollTyped, PollMoves DEF Find, history

(* Insert: the items of the new run are of no other run that is not lost,    *)
(* because none is remembered; and the put that follows is to remember      *)
(* them.                                                                   *)
LEMMA InsertIsInStep ==
  ASSUME IInv, NEW p \in Ticks, Kept(p), KindOf[p] = "poll", Insert(p)
  PROVE  Kept(p)'
<1>0. tick[p].stage = "insert" /\ Becomes(p, Returned(p))
  BY DEF Insert, At
<1>1. PICK r : r = Returned(p)
  OBVIOUS
<1>2. /\ r.stage = "put" /\ r.reap = tick[p].reap /\ r.row = tick[p].row
      /\ r.edition = tick[p].edition /\ r.carried = tick[p].carried /\ r.out = tick[p].out
  BY <1>1, PollTyped DEF Tick, Returned
<1>3. PICK d : d = Deliver(tick[p].out)
  OBVIOUS
<1>4. /\ \A i \in ToSet(d.what) : i \notin ToSet(rows["poll"].seen)
      /\ runs' = runs \cup {d} /\ lost' = lost
  BY <1>0, <1>3, PollTyped DEF Insert, Asked, Deliver, InStep, Sending, history
<1>5. tick'[p] = r /\ \A c \in Ticks : c # p => tick'[c] = tick[c]
  BY <1>0, <1>1, OneBecomes, PollTyped
<1>6. rows' = rows /\ UNCHANGED workflow
  BY DEF Insert
<1>7. InStep(r)
  BY <1>0, <1>2, PollTyped DEF InStep, Sending
<1>8. Unedited' /\ RowStays' /\ InStep(tick[p])'
  BY <1>2, <1>5, <1>6, <1>7, PollTyped DEF Unedited, RowStays, InStep, Present, workflow
<1>9. \A v : Live(v)' => (Live(v) /\ Remembered(v)) \/ v = d
  BY <1>0, <1>4 DEF Live, Kept, RunsKnown
<1>10. RunsKnown(p)'
  BY <1>2, <1>3, <1>5, <1>6, <1>9 DEF RunsKnown, Remembered, Deliver
<1>11. RunsApart'
  BY <1>4, <1>9 DEF RunsApart, Kept, Remembered
<1> QED
  BY <1>8, <1>10, <1>11 DEF Kept

-----------------------------------------------------------------------------
(* The puts of the poll, after which it is done or, if they throw, caught.   *)
AfterPut(r) ==
  /\ r.reap = {} /\ r.stage \in {"rest", "reget"}
  /\ r.stage = "reget" => r.edition = 0

(* The cursor is written over the row that was read, and no key has to      *)
(* make room.                                                              *)
LEMMA CursorKeepsItems ==
  ASSUME IInv, NEW p \in Ticks, Kept(p), Cardinality(Items) <= SeenLimit, WriteCursor(p),
         NEW r, Becomes(p, r), AfterPut(r), UNCHANGED <<workflow, runs>>
  PROVE  Kept(p)'
<1>0. /\ tick[p].stage = "put" /\ tick[p].row = rows["poll"] /\ tick[p].edition = 0
      /\ "poll" \in setup.triggers
      /\ IsInjective(tick[p].carried)
      /\ \A i \in ToSet(tick[p].carried) : i \notin ToSet(rows["poll"].seen)
      /\ ToSet(tick[p].out) \subseteq ToSet(tick[p].carried)
  BY PollTyped DEF WriteCursor, At, InStep, Sending
<1>1. rows["poll"].seen \in Seq(Items) /\ tick[p].carried \in Seq(Items)
  BY PollTyped DEF Row, Tick
<1>2. PICK s : s = rows["poll"].seen \o tick[p].carried
  OBVIOUS
<1>3. /\ s \in Seq(Items) /\ IsInjective(s)
      /\ ToSet(rows["poll"].seen) \cup ToSet(tick[p].carried) \subseteq ToSet(s)
  BY <1>0, <1>1, <1>2, JoinedIsDistinct, PollTyped DEF RowStays
<1>4. Bounded(s) = s
  BY <1>3, DistinctIsKept
<1>5. PICK w : w = [next |-> tick[p].at + 1, edition |-> tick[p].edition, polled |-> TRUE,
                    seen |-> Bounded(tick[p].row.seen \o tick[p].carried)]
  OBVIOUS
<1>6. w.next # 0 /\ w.edition = 0 /\ w.seen = s
  <2>1. tick[p].at \in Nat
    BY PollTyped DEF Tick
  <2>2. w.next = tick[p].at + 1 /\ w.edition = tick[p].edition
    BY <1>5
  <2>3. w.seen = Bounded(s)
    BY <1>0, <1>2, <1>5
  <2> QED
    BY <1>0, <1>4, <2>1, <2>2, <2>3
<1>7. PICK d : d = Deliver(tick[p].out)
  OBVIOUS
<1>8. d.what = tick[p].out /\ lost' = lost \ {d}
  BY <1>7 DEF Deliver, WriteCursor
<1>9. \A v : Live(v)' => v = d \/ (Live(v) /\ Remembered(v))
  BY <1>7, <1>8 DEF Live, Kept, RunsKnown
<1>10. \A v : Live(v)' => ToSet(v.what) \subseteq ToSet(w.seen)
  BY <1>0, <1>3, <1>6, <1>8, <1>9 DEF Remembered
<1>11. RunsApart'
  BY <1>0, <1>8, <1>9 DEF RunsApart, Kept, Remembered
<1>12. Put("poll", w)
  BY <1>5 DEF WriteCursor
<1> QED
  BY <1>0, <1>3, <1>6, <1>10, <1>11, <1>12, PollTyped, PollWrites DEF AfterPut

(* The other puts of a poll keep the keys that are there.                   *)
LEMMA SameKeysAreKept ==
  ASSUME IInv, NEW p \in Ticks, Kept(p), tick[p].stage # "put",
         NEW w, Put("poll", w), w.next # 0, w.edition = 0, w.seen = rows["poll"].seen,
         "poll" \in setup.triggers, NEW r, Becomes(p, r), AfterPut(r),
         UNCHANGED <<workflow, runs, lost>>
  PROVE  Kept(p)'
<1>1. \A v : Live(v)' => Live(v) /\ Remembered(v)
  BY DEF Live, Kept, RunsKnown
<1>2. \A v : Live(v)' => ToSet(v.what) \subseteq ToSet(w.seen)
  BY <1>1 DEF Remembered
<1>3. RunsApart'
  BY <1>1 DEF RunsApart, Kept
<1> QED
  BY <1>2, <1>3, PollTyped, PollWrites DEF AfterPut, RowStays

(* Whatever a poll puts.                                                   *)
LEMMA PutKeepsItems ==
  ASSUME IInv, NEW p \in Ticks, Kept(p), KindOf[p] = "poll",
         Cardinality(Items) <= SeenLimit, Write(p),
         NEW r, Becomes(p, r), AfterPut(r), UNCHANGED <<workflow, runs>>
  PROVE  Kept(p)'
<1>1. CASE WriteCursor(p)
  BY <1>1, CursorKeepsItems
<1>2. CASE WriteAgain(p)
  <2>0. /\ tick[p].stage = "reput" /\ tick[p].row = rows["poll"] /\ tick[p].edition = 0
        /\ "poll" \in setup.triggers
    BY <1>2, PollTyped DEF WriteAgain, At, InStep, Sending
  <2>1. PICK w : w = Reschedule(p)
    OBVIOUS
  <2>2. w.next # 0 /\ w.edition = 0 /\ w.seen = rows["poll"].seen
    <3>1. tick[p].at \in Nat
      BY PollTyped DEF Tick
    <3> QED
      BY <2>0, <2>1, <3>1, PollTyped DEF Reschedule, Row
  <2>3. Put("poll", w) /\ UNCHANGED lost
    BY <1>2, <2>1 DEF WriteAgain
  <2> QED
    BY <2>0, <2>2, <2>3, SameKeysAreKept
<1>3. CASE WriteClean(p)
  <2>0. /\ tick[p].stage = "clean" /\ tick[p].edition = 0 /\ "poll" \in setup.triggers
        /\ rows["poll"].seen = <<>>
    BY <1>3, PollTyped DEF WriteClean, At, InStep, RowStays
  <2>1. PICK w : w = Clean(tick[p].at + 1, tick[p].edition)
    OBVIOUS
  <2>2. w.next # 0 /\ w.edition = 0 /\ w.seen = rows["poll"].seen
    <3>1. tick[p].at \in Nat
      BY PollTyped DEF Tick
    <3> QED
      BY <2>0, <2>1, <3>1 DEF Clean
  <2>3. Put("poll", w) /\ UNCHANGED lost
    BY <1>3, <2>1 DEF WriteClean
  <2> QED
    BY <2>0, <2>2, <2>3, SameKeysAreKept
<1> QED
  BY <1>1, <1>2, <1>3 DEF Write, WriteNext

(* A throw of the poll: its put was done, or nothing was.                   *)
LEMMA ThrowsKeepsItems ==
  ASSUME IInv, NEW p \in Ticks, Kept(p), KindOf[p] = "poll",
         Cardinality(Items) <= SeenLimit, Throws(p)
  PROVE  Kept(p)'
<1>0. /\ tick[p].stage # "rest" /\ UNCHANGED <<workflow, runs>>
      /\ "poll" \notin tick[p].reap
  BY PollTyped DEF Throws, admission
<1>1. PICK r \in Caught(p) : Becomes(p, r)
  BY DEF Throws
<1>2. tick[p].stage # "reap"
  BY PollTyped DEF InStep
<1>3. /\ r.reap = {} /\ r.stage \in {"rest", "reget"} /\ InStep(r)
      /\ r.stage = "reget" => r.edition = 0
  BY <1>0, <1>1, <1>2, CaughtIsInStep
<1>4. CASE Write(p)
  BY <1>0, <1>1, <1>3, <1>4, PutKeepsItems DEF AfterPut
<1>5. CASE Lose(p, runs) /\ UNCHANGED <<rows, since>>
  BY <1>0, <1>1, <1>3, <1>5, PollTyped, PollLoses
<1> QED
  BY <1>2, <1>4, <1>5 DEF Throws, At

(* A poll that dies, or whose enqueue throws, loses the run it made.         *)
LEMMA EndKeepsItems ==
  ASSUME IInv, NEW p \in Ticks, Kept(p), KindOf[p] = "poll", Crash(p) \/ EnqueueThrows(p)
  PROVE  Kept(p)'
<1>1. CASE Crash(p)
  <2>1. PICK r : r = [Rest EXCEPT !.boot = KindOf[p] = "cron"]
    OBVIOUS
  <2>2. r.stage = "rest" /\ r.reap = {}
    BY <2>1 DEF Rest
  <2>3. InStep(r)
    BY <2>2 DEF InStep, Sending
  <2>4. Becomes(p, r) /\ Lose(p, runs') /\ UNCHANGED <<rows, workflow, runs>>
    BY <1>1, <2>1 DEF Crash, admission, Lose
  <2> QED
    BY <2>2, <2>3, <2>4, PollTyped, PollLoses
<1>2. CASE EnqueueThrows(p)
  <2>1. PICK r \in Caught(p) : Becomes(p, r)
    BY <1>2 DEF EnqueueThrows
  <2>2. tick[p].stage \in {"fire", "insert"}
    BY <1>2 DEF EnqueueThrows, At
  <2>3. r.reap = {} /\ InStep(r)
    BY <2>1, <2>2, CaughtIsInStep
  <2>4. \A v \in runs' : v \in runs \/ v = Deliver(tick[p].out)
    BY <1>2 DEF EnqueueThrows, Asked
  <2>5. Lose(p, runs') /\ UNCHANGED <<rows, workflow>>
    BY <1>2 DEF EnqueueThrows
  <2> QED
    BY <2>1, <2>3, <2>4, <2>5, PollTyped, PollLoses
<1> QED
  BY <1>1, <1>2

(* Every step of the poll.                                                 *)
LEMMA PollKeepsItems ==
  ASSUME IInv, NEW p \in Ticks, Kept(p), KindOf[p] = "poll",
         Cardinality(Items) <= SeenLimit,
         Step(p) \/ Crash(p) \/ Throws(p) \/ EnqueueThrows(p)
  PROVE  Kept(p)'
<1>1. ~Reap(p)
  BY PollTyped DEF Reap, At, InStep
<1>2. CASE PutRow(p)
  <2>1. ThenReap(tick[p].reap) = Rest
    BY PollTyped DEF ThenReap, InStep
  <2>2. AfterPut(Rest)
    BY DEF AfterPut, Rest
  <2> QED
    BY <1>2, <2>1, <2>2, PutKeepsItems DEF PutRow, admission
<1> QED
  BY <1>1, <1>2, ReadIsInStep, GetIsInStep, FetchIsInStep, RegetIsInStep, FindIsInStep,
     InsertIsInStep, ThrowsKeepsItems, EndKeepsItems
  DEF Step, CronSkips, CronStarts, CronIsDue

-----------------------------------------------------------------------------
(* Together.                                                               *)

(* At first nothing is remembered and nothing has run.                      *)
LEMMA OnceInit == Init => OnceInv
<1> SUFFICES ASSUME Init, NEW p \in Ticks PROVE Kept(p)
  BY DEF OnceInv
<1>1. \A c \in Ticks : tick[c].stage = "rest" /\ tick[c].reap = {}
  BY DEF Init, Rest
<1>2. rows["poll"] = NoRow
  BY DEF Init, Triggers
<1>3. RowStays
  BY <1>1, <1>2, NoRowIsRow DEF RowStays, Present, IsInjective
<1>4. InStep(tick[p])
  BY <1>1 DEF InStep, Sending
<1> QED
  BY <1>3, <1>4 DEF Init, Kept, Unedited, RunsKnown, RunsApart, Live

(* Every step keeps the invariant; a save of the workflow ends the claim.    *)
LEMMA OnceStep == IInv /\ OnceInv /\ [Next]_vars => OnceInv'
<1> SUFFICES ASSUME IInv, OnceInv, [Next]_vars, NEW p \in Ticks, Lone(p), edits' = 0,
                    Cardinality(Items) <= SeenLimit
             PROVE  Kept(p)'
  BY DEF OnceInv, Lone
<1>1. edits \in Nat
  BY BoundAssumption DEF IInv, TypeOK
<1>2. \/ \E c \in Ticks : Step(c) \/ Crash(c) \/ Throws(c) \/ EnqueueThrows(c)
      \/ Clock \/ Appear \/ UNCHANGED vars
  <2>1. \A t \in Triggers : ~Toggle(t) /\ ~Reconfigure(t)
    BY <1>1 DEF Toggle, Reconfigure
  <2> QED
    BY <2>1 DEF Next
<1>3. edits = 0
  BY <1>2 DEF Step, vars, bounds, Clock, Appear, CronSkips, CronStarts, CronIsDue, Reap,
     PollRead, PollGet, PollFetch, PollRegets, PutRow, Find, Insert, Crash, Throws,
     EnqueueThrows
<1>4. Kept(p)
  BY <1>3 DEF OnceInv
<1>5. CASE Clock \/ Appear \/ UNCHANGED vars
  <2>1. UNCHANGED <<workflow, rows, tick, runs, lost>>
    BY <1>5 DEF Clock, Appear, vars, admission, history
  <2> QED
    BY <1>4, <2>1, OthersStep DEF Kept, RowStays, Live
<1>6. ASSUME NEW c \in Ticks, Step(c) \/ Crash(c) \/ Throws(c) \/ EnqueueThrows(c)
      PROVE  Kept(p)'
  <2>1. CASE c = p
    BY <1>4, <1>6, <2>1, PollKeepsItems DEF Lone
  <2>2. CASE c # p
    <3>1. KindOf[c] = "cron"
      BY <2>2, KindAssumption DEF Lone, Triggers
    <3> QED
      BY <1>4, <1>6, <2>2, <3>1, CronLeavesPoll
  <2> QED
    BY <2>1, <2>2
<1> QED
  BY <1>2, <1>5, <1>6

(* Runs that share an item are the same, or one of them is lost.            *)
LEMMA OnceIsEnough == OnceInv => SecondRunsWereLost
<1> SUFFICES ASSUME OnceInv, Alone, edits = 0, Cardinality(Items) <= SeenLimit,
                    NEW i \in Items, NEW v \in Runs(i), NEW w \in Runs(i)
             PROVE  v = w \/ v \in lost \/ w \in lost
  BY DEF SecondRunsWereLost
<1>1. RunsApart
  BY DEF OnceInv, Alone, Kept
<1> QED
  BY <1>1 DEF RunsApart, Runs, Delivers, Live

(* A poll "creates a run only for items it has not seen before" (poll.ts:   *)
(* 50), unless the poll that made a run threw or died before it wrote its   *)
(* cursor: over any number of items, of failed fetches, of refused and      *)
(* throwing admissions, of store calls that throw and of deaths, while it   *)
(* works alone and is not saved over, and boundedSeen has room for every    *)
(* item.                                                                   *)
THEOREM PollRunsItemsOnce == Spec => []SecondRunsWereLost
BY Invariant, OnceInit, OnceStep, OnceIsEnough, PTL DEF Spec
=============================================================================
