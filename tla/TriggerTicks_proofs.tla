-------------------------- MODULE TriggerTicks_proofs --------------------------
(***************************************************************************)
(* Theorems about TriggerTicks for any number of overlapping ticks, items,  *)
(* caps, edits, errors and crashes.                                        *)
(***************************************************************************)
EXTENDS TriggerTicks, TLAPS, FiniteSetTheorems, SequenceTheorems

-----------------------------------------------------------------------------
(* Operators.                                                              *)

(* Occurrences are fired in order, from the start of a span.               *)
LEMMA FirstOfSpan ==
  ASSUME NEW c \in Ticks, NEW k \in Nat, NEW hi \in Nat, k <= hi, tick[c].todo = k .. hi
  PROVE  First(c) = k /\ tick[c].todo \ {First(c)} = (k + 1) .. hi
<1>1. k \in k .. hi /\ \A p \in k .. hi : k <= p
  OBVIOUS
<1>2. First(c) \in k .. hi /\ \A p \in k .. hi : First(c) <= p
  BY <1>1 DEF First
<1>3. First(c) = k
  BY <1>1, <1>2
<1> QED
  BY <1>3

(* What a tick fires is a span that begins with nextFireAt.                *)
LEMMA AcceptedIsSpan ==
  ASSUME NEW next \in Nat, NEW b \in BOOLEAN, now \in Nat, next <= now, DueCap \in Nat \ {0}
  PROVE  \/ Accepted(next, b) = {} /\ setup.catchUp = "none"
         \/ \E hi \in Nat : next <= hi /\ Accepted(next, b) = next .. hi
<1>1. {next} = next .. next
  OBVIOUS
<1>2. \E hi \in Nat : next <= hi /\ Due(next) = next .. hi
  <2>1. CASE now < next + DueCap
    BY <2>1 DEF Due
  <2>2. CASE ~(now < next + DueCap)
    <3>1. Due(next) = next .. (next + DueCap - 1)
      BY <2>2 DEF Due
    <3> QED
      BY <3>1
  <2> QED
    BY <2>1, <2>2
<1>3. CASE b /\ setup.catchUp = "none"
  BY <1>3 DEF Accepted
<1>4. CASE ~(b /\ setup.catchUp = "none") /\ setup.catchUp = "all"
  BY <1>2, <1>4 DEF Accepted
<1>5. CASE ~(b /\ setup.catchUp = "none") /\ setup.catchUp # "all"
  <2>1. Accepted(next, b) = next .. next
    BY <1>1, <1>5 DEF Accepted
  <2> QED
    BY <2>1
<1> QED
  BY <1>3, <1>4, <1>5

(* An answer is a sequence of items that repeats none.                     *)
LEMMA AnswerIsSeq ==
  ASSUME NEW S \in SUBSET Items, NEW s \in SetToSeqs(S)
  PROVE  s \in Seq(Items) /\ ToSet(s) \subseteq S /\ IsInjective(s)
<1>1. Cardinality(S) \in Nat
  BY CapAssumption, FS_Subset, FS_CardinalityType
<1>2. /\ s \in [1 .. Cardinality(S) -> S]
      /\ \A i, j \in 1 .. Cardinality(S) : i # j => s[i] # s[j]
  BY DEF SetToSeqs
<1> QED
  BY <1>1, <1>2 DEF ToSet, IsInjective

(* The front of an answer.                                                 *)
LEMMA FrontPart ==
  ASSUME NEW s \in Seq(Items), NEW n \in Nat, n <= Len(s)
  PROVE  SubSeq(s, 1, n) \in Seq(Items) /\ ToSet(SubSeq(s, 1, n)) \subseteq ToSet(s)
BY SubSeqProperties DEF ToSet

(* boundedSeen keeps some of the keys and adds none.                       *)
LEMMA BoundedPart ==
  ASSUME NEW s \in Seq(Items)
  PROVE  Bounded(s) \in Seq(Items) /\ ToSet(Bounded(s)) \subseteq ToSet(s)
<1>1. CASE Len(s) > SeenLimit
  BY <1>1, SubSeqProperties, CapAssumption DEF ToSet, Bounded
<1>2. CASE ~(Len(s) > SeenLimit)
  BY <1>2 DEF Bounded
<1> QED
  BY <1>1, <1>2

(* Two lists of items together.                                            *)
LEMMA Joined ==
  ASSUME NEW s \in Seq(Items), NEW t \in Seq(Items)
  PROVE  s \o t \in Seq(Items) /\ ToSet(s \o t) \subseteq ToSet(s) \cup ToSet(t)
<1>1. s \o t \in Seq(Items) /\ Len(s \o t) = Len(s) + Len(t)
  OBVIOUS
<1>2. ASSUME NEW i \in 1 .. Len(s \o t)
      PROVE  (s \o t)[i] \in ToSet(s) \cup ToSet(t)
  <2>1. CASE i <= Len(s)
    BY <1>1, <2>1 DEF ToSet
  <2>2. CASE i > Len(s)
    <3>1. i - Len(s) \in 1 .. Len(t) /\ (s \o t)[i] = t[i - Len(s)]
      BY <1>1, <2>2
    <3> QED
      BY <3>1 DEF ToSet
  <2> QED
    BY <1>1, <2>1, <2>2
<1> QED
  BY <1>1, <1>2 DEF ToSet

-----------------------------------------------------------------------------
(* Types.                                                                  *)

(* No row counts as a row.                                                 *)
LEMMA NoRowIsRow == NoRow \in Row /\ NoRow.seen = <<>> /\ NoRow.next = 0
BY DEF NoRow, Row

(* A tick at rest is a tick.                                               *)
LEMMA RestIsTick ==
  Rest \in Tick /\ \A b \in BOOLEAN : [Rest EXCEPT !.boot = b] \in Tick
<1>1. <<>> \in Seq(Items)
  OBVIOUS
<1> QED
  BY <1>1, NoRowIsRow DEF Rest, Stages, Tick

(* A tick that goes on to reap is a tick.                                  *)
LEMMA ReapIsTick ==
  ASSUME NEW R \in SUBSET Triggers
  PROVE  /\ ThenReap(R) \in Tick
         /\ ThenReap(R).stage \in {"rest", "reap"} /\ ThenReap(R).row = NoRow
<1>1. [Rest EXCEPT !.stage = "reap", !.reap = R] \in Tick
  BY RestIsTick DEF Tick, Stages
<1>3. /\ [Rest EXCEPT !.stage = "reap", !.reap = R].stage = "reap"
      /\ [Rest EXCEPT !.stage = "reap", !.reap = R].row = NoRow
  BY DEF Rest
<1>2. Rest.stage = "rest" /\ Rest.row = NoRow
  BY DEF Rest
<1> QED
  BY <1>1, <1>2, <1>3, RestIsTick DEF ThenReap

(* A clean row is a row.                                                   *)
LEMMA CleanIsRow ==
  ASSUME NEW n \in Nat, NEW e \in Nat
  PROVE  Clean(n, e) \in Row /\ Clean(n, e).next = n /\ Clean(n, e).seen = <<>>
BY DEF Clean, Row

(* One tick changes.                                                       *)
LEMMA TicksStayTyped ==
  ASSUME tick \in [Ticks -> Tick], NEW c \in Ticks, NEW r \in Tick, Becomes(c, r)
  PROVE  /\ tick' \in [Ticks -> Tick] /\ tick'[c] = r
         /\ \A d \in Ticks : d # c => tick'[d] = tick[d]
BY DEF Becomes

(* One row changes.                                                        *)
LEMMA RowsStayTyped ==
  ASSUME rows \in [Triggers -> Row], NEW t \in Triggers, NEW w \in Row, Put(t, w)
  PROVE  /\ rows' \in [Triggers -> Row] /\ rows'[t] = w
         /\ \A u \in Triggers : u # t => rows'[u] = rows[u]
BY DEF Put

-----------------------------------------------------------------------------
(* The invariant.  What a cron tick still has to fire is an end of what it  *)
(* fires, in order; with catchUp "all" the rest was offered.  What a poll   *)
(* will remember it was going to send, has sent or took for known.         *)
AllKnown(S) == \A i \in S : Sent(i) \/ i \in primed
Ends(S, hi) == hi \in S /\ \A p \in S : p <= hi

FitCron(r) ==
  /\ r.stage \notin {"get", "fetch", "reget", "reput"}
  /\ r.stage \in {"fire", "insert"} =>
       \E k, hi \in Nat : /\ k <= hi /\ r.todo = k .. hi /\ Ends(r.what, hi)
                          /\ r.stage = "insert" => Fire(k) \in offered
  /\ r.stage = "put" =>
       r.todo = {} /\ (\/ r.what = {} /\ setup.catchUp # "all"
                       \/ \E hi \in Nat : Ends(r.what, hi))
  /\ (setup.catchUp = "all" /\ r.stage \in {"fire", "insert", "put"}) =>
       \A m \in r.what : \A o \in since .. m : o \in r.todo \/ Fire(o) \in offered
FitPoll(r) ==
  /\ AllKnown(ToSet(r.row.seen))
  /\ r.stage = "insert" => Deliver(r.out) \in offered
  /\ r.stage \in {"fire", "insert"} => ToSet(r.carried) \subseteq ToSet(r.out)
  /\ r.stage = "put" => AllKnown(ToSet(r.carried))
Fit(c, r) == IF KindOf[c] = "cron" THEN FitCron(r) ELSE FitPoll(r)

TicksFit == \A c \in Ticks : Fit(c, tick[c])
IInv == TypeOK /\ TicksFit /\ NothingSkipped /\ SeenWasOffered

(* What only grows.                                                        *)
Grows ==
  /\ offered \subseteq offered' /\ primed \subseteq primed'
  /\ since <= since' /\ setup' = setup

(* What was offered or primed stays so.                                    *)
LEMMA KnownStays ==
  ASSUME NEW S, AllKnown(S), offered \subseteq offered', primed \subseteq primed'
  PROVE  AllKnown(S)'
BY DEF AllKnown, Sent, Delivers

(* A tick that fits the row goes on fitting while others work.             *)
LEMMA FitStays ==
  ASSUME NEW c, NEW r \in Tick, Fit(c, r), Grows, since \in Nat, since' \in Nat
  PROVE  Fit(c, r)'
<1> USE DEF Grows
<1>1. CASE KindOf[c] = "cron"
  <2>0. FitCron(r)
    BY <1>1 DEF Fit
  <2>1. ASSUME r.stage \in {"fire", "insert"}
        PROVE  \E k, hi \in Nat : /\ k <= hi /\ r.todo = k .. hi /\ Ends(r.what, hi)
                                  /\ r.stage = "insert" => Fire(k) \in offered'
    BY <2>0, <2>1 DEF FitCron
  <2>2. ASSUME setup.catchUp = "all", r.stage \in {"fire", "insert", "put"},
               NEW m \in r.what, NEW o \in since' .. m
        PROVE  o \in r.todo \/ Fire(o) \in offered'
    <3>1. m \in Nat
      BY DEF Tick
    <3>2. o \in since .. m
      BY <3>1
    <3> QED
      BY <2>0, <2>2, <3>2 DEF FitCron
  <2>3. FitCron(r)'
    BY <2>0, <2>1, <2>2 DEF FitCron, Fire, Ends
  <2> QED
    BY <1>1, <2>3 DEF Fit
<1>2. CASE KindOf[c] # "cron"
  <2>0. FitPoll(r)
    BY <1>2 DEF Fit
  <2>1. AllKnown(ToSet(r.row.seen))' /\ (r.stage = "put" => AllKnown(ToSet(r.carried))')
    BY <2>0, KnownStays DEF FitPoll
  <2>2. r.stage = "insert" => Deliver(r.out) \in offered'
    BY <2>0 DEF FitPoll
  <2>3. FitPoll(r)'
    BY <2>0, <2>1, <2>2 DEF FitPoll, Deliver, ToSet
  <2> QED
    BY <1>2, <2>3 DEF Fit
<1> QED
  BY <1>1, <1>2

(* A record that is at rest, or about to reap or to start clean.            *)
LEMMA QuietFits ==
  ASSUME NEW c, NEW r, r.stage \in {"rest", "reap", "clean"}, r.row.seen = <<>>
  PROVE  Fit(c, r)
BY DEF Fit, FitCron, FitPoll, AllKnown, ToSet

(* A tick that carries nothing fits every row.                             *)
LEMMA QuietFitsNext ==
  ASSUME NEW c, NEW r, r.stage \in {"rest", "reap", "clean"}, r.row.seen = <<>>
  PROVE  Fit(c, r)'
BY DEF Fit, FitCron, FitPoll, AllKnown, ToSet

(* One tick takes a step.                                                  *)
LEMMA TicksStayFit ==
  ASSUME TypeOK, TypeOK', TicksFit, Grows, NEW c \in Ticks, NEW r \in Tick, Becomes(c, r),
         Fit(c, r)'
  PROVE  TicksFit'
<1>1. /\ tick'[c] = r
      /\ \A d \in Ticks : d # c => tick'[d] = tick[d]
  BY TicksStayTyped DEF TypeOK
<1>2. ASSUME NEW d \in Ticks
      PROVE  Fit(d, tick[d])'
  <2>1. CASE d = c
    BY <1>1, <2>1 DEF Fit, FitCron, FitPoll, AllKnown
  <2>2. CASE d # c
    <3>1. PICK q \in Tick : q = tick[d]
      BY DEF TypeOK
    <3>2. Fit(d, q)'
      BY <3>1, FitStays DEF TicksFit, TypeOK
    <3> QED
      BY <1>1, <2>2, <3>1, <3>2 DEF Fit, FitCron, FitPoll, AllKnown
  <2> QED
    BY <2>1, <2>2
<1> QED
  BY <1>2 DEF TicksFit

-----------------------------------------------------------------------------
(* The steps, as what they put in the place of a tick and of a row.         *)

(* A step of a tick that writes no row.                                    *)
LEMMA TickStep ==
  ASSUME IInv, NEW c \in Ticks, NEW r \in Tick, Becomes(c, r), Grows, Fit(c, r)',
         UNCHANGED <<now, workflow, rows, inbox>>, since' = since,
         runs' \subseteq Invocation, offered' \subseteq Invocation, lost' \subseteq Invocation,
         primed' \subseteq Items,
         edits' \in 0 .. MaxEdits, errors' \in 0 .. MaxErrors, crashes' \in 0 .. MaxCrashes
  PROVE  IInv'
<1>1. TypeOK'
  BY TicksStayTyped DEF IInv, TypeOK, workflow
<1>2. TicksFit'
  BY <1>1, TicksStayFit DEF IInv
<1>3. NothingSkipped'
  BY DEF IInv, NothingSkipped, Grows, workflow, Present, Fire
<1>4. SeenWasOffered'
  BY DEF IInv, SeenWasOffered, Grows, Sent, Delivers
<1> QED
  BY <1>1, <1>2, <1>3, <1>4 DEF IInv

(* A step that writes a row.                                               *)
LEMMA RowStep ==
  ASSUME IInv, NEW c \in Ticks, NEW r \in Tick, Becomes(c, r), Grows, Fit(c, r)',
         NEW t \in Triggers, NEW w \in Row, Put(t, w),
         UNCHANGED <<now, workflow, inbox, admission, primed>>, since' \in Nat,
         lost' \subseteq Invocation,
         edits' \in 0 .. MaxEdits, errors' \in 0 .. MaxErrors, crashes' \in 0 .. MaxCrashes,
         t = "cron" => (\/ w.next = 0
                        \/ setup.catchUp = "all" =>
                             \A o \in since' .. w.next - 1 : Fire(o) \in offered),
         t = "poll" => AllKnown(ToSet(w.seen))
  PROVE  IInv'
<1>0. /\ rows' \in [Triggers -> Row] /\ rows'[t] = w
      /\ \A u \in Triggers : u # t => rows'[u] = rows[u]
  BY RowsStayTyped DEF IInv, TypeOK
<1>1. TypeOK'
  BY <1>0, TicksStayTyped DEF IInv, TypeOK, workflow, admission, bounds
<1>2. TicksFit'
  BY <1>1, TicksStayFit DEF IInv
<1>3. NothingSkipped'
  <2>1. CASE t = "cron"
    BY <1>0, <2>1 DEF IInv, NothingSkipped, workflow, admission, Present, Fire
  <2>2. CASE t # "cron"
    <3>1. rows'["cron"] = rows["cron"]
      BY <1>0, <2>2 DEF Triggers
    <3>2. rows["cron"].next \in Nat
      BY DEF IInv, TypeOK, Triggers, Row
    <3>3. \A o \in since' .. rows["cron"].next - 1 : o \in since .. rows["cron"].next - 1
      BY <3>2 DEF Grows, IInv, TypeOK
    <3> QED
      BY <3>1, <3>3 DEF IInv, NothingSkipped, Grows, workflow, admission, Present, Fire
  <2> QED
    BY <2>1, <2>2
<1>4. SeenWasOffered'
  <2>1. CASE t = "poll"
    BY <1>0, <2>1 DEF IInv, SeenWasOffered, AllKnown, Sent, Delivers, admission
  <2>2. CASE t # "poll"
    BY <1>0, <2>2 DEF IInv, SeenWasOffered, Sent, Delivers, admission, Triggers
  <2> QED
    BY <2>1, <2>2
<1> QED
  BY <1>1, <1>2, <1>3, <1>4 DEF IInv

(* The types of what a step looks at.                                      *)
LEMMA Typed ==
  ASSUME IInv, NEW c \in Ticks
  PROVE  /\ now \in Nat /\ tick[c] \in Tick /\ Stale \in SUBSET Triggers
         /\ edition["cron"] \in Nat /\ edition["poll"] \in Nat
         /\ rows["cron"] \in Row /\ rows["poll"] \in Row
BY BoundAssumption DEF IInv, TypeOK, Triggers, Stale

(* CronSkips keeps the invariant.                                          *)
LEMMA CronSkipsKeeps ==
  ASSUME IInv, NEW c \in Ticks, CronSkips(c) PROVE IInv'
<1>1. PICK r \in Tick : r = ThenReap(Stale) /\ r.stage \in {"rest", "reap"} /\ r.row = NoRow
  BY ReapIsTick DEF Stale
<1>2. Fit(c, r)'
  BY <1>1, NoRowIsRow, QuietFitsNext
<1> QED
  BY <1>1, <1>2, TickStep DEF CronSkips, Grows, IInv, TypeOK, workflow, admission, history, bounds

(* CronStarts keeps the invariant.                                         *)
LEMMA CronStartsKeeps ==
  ASSUME IInv, NEW c \in Ticks, CronStarts(c) PROVE IInv'
<1>1. PICK r : r = [Rest EXCEPT !.stage = "clean", !.at = now, !.edition = edition["cron"],
                                !.reap = Stale]
  OBVIOUS
<1>2. r \in Tick
  BY <1>1, Typed, RestIsTick DEF Tick, Stages
<1>3. r.stage = "clean" /\ r.row = NoRow
  BY <1>1 DEF Rest
<1>4. Fit(c, r)'
  BY <1>3, NoRowIsRow, QuietFitsNext
<1> QED
  BY <1>1, <1>2, <1>4, TickStep
  DEF CronStarts, Grows, IInv, TypeOK, workflow, admission, history, bounds

(* CronIsDue keeps the invariant.                                          *)
LEMMA CronIsDueKeeps ==
  ASSUME IInv, NEW c \in Ticks, CronIsDue(c) PROVE IInv'
<1>0. /\ rows["cron"].next \in Nat /\ rows["cron"].next # 0 /\ rows["cron"].next <= now
      /\ now \in Nat /\ tick[c].boot \in BOOLEAN /\ DueCap \in Nat \ {0}
  BY Typed, CapAssumption DEF CronIsDue, Row, Tick, Present
<1>1. PICK a : a = Accepted(rows["cron"].next, tick[c].boot)
  OBVIOUS
<1>2. \/ a = {} /\ setup.catchUp = "none"
      \/ \E hi \in Nat : rows["cron"].next <= hi /\ a = rows["cron"].next .. hi
  BY <1>0, <1>1, AcceptedIsSpan
<1>3. PICK r : r = [Rest EXCEPT !.stage = IF a = {} THEN "put" ELSE "fire", !.at = now,
                         !.edition = edition["cron"], !.what = a, !.todo = a, !.reap = Stale]
  OBVIOUS
<1>4. r \in Tick
  <2>1. a \in SUBSET Nat
    BY <1>0, <1>2
  <2> QED
    BY <1>3, <2>1, Typed, RestIsTick DEF Tick, Stages
<1>5. r.stage = (IF a = {} THEN "put" ELSE "fire") /\ r.what = a /\ r.todo = a
  BY <1>3 DEF Rest
<1>6. KindOf[c] = "cron" /\ Becomes(c, r)
  BY <1>1, <1>3 DEF CronIsDue
<1>7. FitCron(r)'
  <2>1. CASE a = {} /\ setup.catchUp = "none"
    BY <1>5, <2>1 DEF FitCron, CronIsDue, workflow
  <2>2. CASE \E hi \in Nat : rows["cron"].next <= hi /\ a = rows["cron"].next .. hi
    <3>1. PICK hi \in Nat : rows["cron"].next <= hi /\ a = rows["cron"].next .. hi
      BY <2>2
    <3>2. Ends(a, hi) /\ a # {}
      BY <1>0, <3>1 DEF Ends
    <3>3. r.stage = "fire"
      BY <1>5, <3>2
    <3>4. ASSUME setup.catchUp = "all", NEW m \in a, NEW o \in since .. m
          PROVE  o \in a \/ Fire(o) \in offered
      <4>1. o \in since .. rows["cron"].next - 1 \/ o \in rows["cron"].next .. hi
        BY <1>0, <3>1 DEF IInv, TypeOK
      <4> QED
        BY <1>0, <3>1, <3>4, <4>1 DEF IInv, NothingSkipped, Present
    <3> QED
      BY <1>0, <1>5, <3>1, <3>2, <3>3, <3>4
      DEF FitCron, CronIsDue, workflow, history, admission, Ends, Fire
  <2> QED
    BY <1>2, <2>1, <2>2
<1>8. Fit(c, r)'
  BY <1>6, <1>7 DEF Fit
<1> QED
  BY <1>4, <1>6, <1>8, TickStep
  DEF CronIsDue, Grows, IInv, TypeOK, workflow, admission, history, bounds

(* PollRead keeps the invariant.                                           *)
LEMMA PollReadKeeps ==
  ASSUME IInv, NEW c \in Ticks, PollRead(c) PROVE IInv'
<1>1. PICK r : r = [Rest EXCEPT !.stage = "get", !.at = now, !.edition = edition["poll"]]
  OBVIOUS
<1>2. r \in Tick
  BY <1>1, Typed, RestIsTick DEF Tick, Stages
<1>3. r.stage = "get" /\ r.row = NoRow /\ KindOf[c] = "poll"
  BY <1>1 DEF Rest, PollRead
<1>4. Fit(c, r)'
  BY <1>3, NoRowIsRow DEF Fit, FitPoll, AllKnown, ToSet
<1> QED
  BY <1>1, <1>2, <1>4, TickStep
  DEF PollRead, Grows, IInv, TypeOK, workflow, admission, history, bounds

(* A step of a tick leaves the coordinators' stages apart.                  *)
LEMMA PollStage ==
  ASSUME IInv, NEW c \in Ticks, tick[c].stage \in {"get", "fetch", "reget", "reput"}
  PROVE  KindOf[c] = "poll" /\ FitPoll(tick[c])
<1>1. Fit(c, tick[c]) /\ KindOf[c] \in {"cron", "poll"}
  BY KindAssumption DEF IInv, TicksFit, Triggers
<1> QED
  BY <1>1 DEF Fit, FitCron

(* PollGet keeps the invariant.                                            *)
LEMMA PollGetKeeps ==
  ASSUME IInv, NEW c \in Ticks, PollGet(c) PROVE IInv'
<1>0. KindOf[c] = "poll" /\ FitPoll(tick[c])
  BY PollStage DEF PollGet, At
<1>1. PICK r : r \in {[tick[c] EXCEPT !.stage = "clean"], Rest,
                      [tick[c] EXCEPT !.stage = "fetch", !.row = rows["poll"]]}
               /\ Becomes(c, r)
  BY DEF PollGet
<1>2. r \in Tick /\ r.stage \in {"clean", "rest", "fetch"}
      /\ r.row \in {tick[c].row, NoRow, rows["poll"]}
  <2>1. CASE r = Rest
    BY <2>1, RestIsTick DEF Rest
  <2>2. CASE r = [tick[c] EXCEPT !.stage = "clean"]
    BY <2>2, Typed DEF Tick, Stages
  <2>3. CASE r = [tick[c] EXCEPT !.stage = "fetch", !.row = rows["poll"]]
    BY <2>3, Typed DEF Tick, Stages
  <2> QED
    BY <1>1, <2>1, <2>2, <2>3
<1>3. AllKnown(ToSet(r.row.seen))
  BY <1>0, <1>2, NoRowIsRow DEF FitPoll, IInv, SeenWasOffered, AllKnown, ToSet
<1>4. AllKnown(ToSet(r.row.seen))'
  BY <1>3, KnownStays DEF PollGet, history, admission, ToSet
<1>5. Fit(c, r)'
  BY <1>0, <1>2, <1>4 DEF Fit, FitPoll
<1> QED
  BY <1>1, <1>2, <1>5, TickStep
  DEF PollGet, Grows, IInv, TypeOK, workflow, admission, history, bounds

(* PollFetch keeps the invariant.                                          *)
LEMMA PollFetchKeeps ==
  ASSUME IInv, NEW c \in Ticks, PollFetch(c) PROVE IInv'
<1>0. KindOf[c] = "poll" /\ FitPoll(tick[c])
  BY PollStage DEF PollFetch, At
<1>1. PICK fresh \in SetToSeqs(inbox \ ToSet(tick[c].row.seen)) :
        LET delivered == SubSeq(fresh, 1, IF Len(fresh) < MaxItems THEN Len(fresh) ELSE MaxItems)
            priming == ~tick[c].row.polled /\ setup.onFirstPoll = "prime"
            fires == fresh # <<>> /\ ~priming
        IN /\ Becomes(c, [tick[c] EXCEPT !.stage = IF fires THEN "fire" ELSE "put",
                           !.out = IF fires THEN delivered ELSE <<>>,
                           !.carried = Carried(fresh, delivered, fires)])
           /\ primed' = IF priming THEN primed \cup ToSet(fresh) ELSE primed
  BY DEF PollFetch
<1>2. PICK delivered : delivered = SubSeq(fresh, 1, IF Len(fresh) < MaxItems THEN Len(fresh)
                                                                           ELSE MaxItems)
  OBVIOUS
<1>3. PICK priming \in BOOLEAN : priming = (~tick[c].row.polled /\ setup.onFirstPoll = "prime")
  OBVIOUS
<1>4. PICK fires \in BOOLEAN : fires = (fresh # <<>> /\ ~priming)
  OBVIOUS
<1>6. PICK r : r = [tick[c] EXCEPT !.stage = IF fires THEN "fire" ELSE "put",
                           !.out = IF fires THEN delivered ELSE <<>>,
                           !.carried = Carried(fresh, delivered, fires)]
  OBVIOUS
<1>7. Becomes(c, r) /\ primed' = IF priming THEN primed \cup ToSet(fresh) ELSE primed
  BY <1>1, <1>2, <1>3, <1>4, <1>6
<1>8. fresh \in Seq(Items) /\ ToSet(fresh) \subseteq Items
  BY AnswerIsSeq DEF IInv, TypeOK
<1>9. delivered \in Seq(Items) /\ <<>> \in Seq(Items)
  <2>1. PICK n \in Nat : n <= Len(fresh) /\ delivered = SubSeq(fresh, 1, n)
    BY <1>2, <1>8, CapAssumption
  <2> QED
    BY <1>8, <2>1, FrontPart
<1>11. Carried(fresh, delivered, fires) \in Seq(Items)
  BY <1>8, <1>9 DEF Carried
<1>12. r \in Tick
  BY <1>6, <1>9, <1>11, Typed DEF Tick, Stages
<1>13. /\ r.stage = IF fires THEN "fire" ELSE "put"
       /\ r.row = tick[c].row
       /\ fires => r.out = delivered
       /\ r.carried = IF fires THEN delivered ELSE fresh
  BY <1>6, Typed DEF Carried, Tick
<1>14. AllKnown(ToSet(r.row.seen))'
  <2>1. AllKnown(ToSet(r.row.seen))
    BY <1>0, <1>13 DEF FitPoll
  <2> QED
    BY <1>7, <2>1, KnownStays DEF PollFetch, admission, ToSet
<1>15. ~fires => AllKnown(ToSet(r.carried))'
  <2>1. CASE priming
    BY <1>7, <1>13, <2>1 DEF AllKnown, ToSet
  <2>2. CASE fresh = <<>>
    BY <1>13, <1>4, <2>2 DEF AllKnown, ToSet
  <2> QED
    BY <1>4, <2>1, <2>2
<1>16. fires => r.carried = r.out
  BY <1>13
<1>17. FitPoll(r)'
  BY <1>13, <1>14, <1>15, <1>16 DEF FitPoll, ToSet
<1>18. Fit(c, r)'
  BY <1>0, <1>17 DEF Fit
<1>19. primed \subseteq primed' /\ primed' \subseteq Items
  BY <1>7, <1>8 DEF IInv, TypeOK
<1> QED
  BY <1>7, <1>12, <1>18, <1>19, TickStep
  DEF PollFetch, Grows, IInv, TypeOK, workflow, admission, bounds

(* PollRegets keeps the invariant.                                         *)
LEMMA PollRegetsKeeps ==
  ASSUME IInv, NEW c \in Ticks, PollRegets(c) PROVE IInv'
<1>0. KindOf[c] = "poll" /\ FitPoll(tick[c])
  BY PollStage DEF PollRegets, At
<1>1. PICK r : r = [tick[c] EXCEPT !.stage = "reput", !.row = rows["poll"]]
  OBVIOUS
<1>2. r \in Tick /\ r.stage = "reput" /\ r.row = rows["poll"]
  BY <1>1, Typed DEF Tick, Stages
<1>3. AllKnown(ToSet(r.row.seen))
  BY <1>2 DEF IInv, SeenWasOffered, AllKnown
<1>4. AllKnown(ToSet(r.row.seen))'
  BY <1>3, KnownStays DEF PollRegets, admission, history, ToSet
<1>5. Fit(c, r)'
  BY <1>0, <1>2, <1>4 DEF Fit, FitPoll
<1> QED
  BY <1>1, <1>2, <1>5, TickStep
  DEF PollRegets, Grows, IInv, TypeOK, workflow, admission, history, bounds

(* Rest is written in place of a tick.                                     *)
LEMMA RestFits ==
  ASSUME NEW c
  PROVE  \E r \in Tick : r = Rest /\ Fit(c, r)'
<1>1. PICK r \in Tick : r = Rest /\ r.stage = "rest" /\ r.row = NoRow
  BY RestIsTick DEF Rest
<1> QED
  BY <1>1, NoRowIsRow, QuietFitsNext

(* What a put must be: cron's says no more than was offered, poll's keys    *)
(* were offered or primed.                                                 *)
Sound(t, w) ==
  /\ t = "cron" => (\/ w.next = 0
                    \/ setup.catchUp = "all" =>
                         \A o \in since' .. w.next - 1 : Fire(o) \in offered)
  /\ t = "poll" => AllKnown(ToSet(w.seen))
Writes(c) ==
  /\ \E t \in Triggers, w \in Row : Put(t, w) /\ Sound(t, w)
  /\ since' \in Nat /\ since <= since' /\ lost' \subseteq Invocation

(* The cursor of a poll.                                                   *)
LEMMA CursorIsSound ==
  ASSUME IInv, NEW c \in Ticks, WriteCursor(c) PROVE Writes(c)
<1>0. FitPoll(tick[c]) /\ tick[c].stage = "put"
  <2>1. Fit(c, tick[c]) /\ KindOf[c] = "poll" /\ tick[c].stage = "put"
    BY DEF IInv, TicksFit, WriteCursor, At
  <2> QED
    BY <2>1 DEF Fit
<1>1. PICK w : w = [next |-> tick[c].at + 1, edition |-> tick[c].edition, polled |-> TRUE,
                    seen |-> Bounded(tick[c].row.seen \o tick[c].carried)]
  OBVIOUS
<1>2. tick[c].row.seen \in Seq(Items) /\ tick[c].carried \in Seq(Items)
  BY Typed DEF Tick, Row
<1>3. /\ Bounded(tick[c].row.seen \o tick[c].carried) \in Seq(Items)
      /\ ToSet(Bounded(tick[c].row.seen \o tick[c].carried))
           \subseteq ToSet(tick[c].row.seen) \cup ToSet(tick[c].carried)
  <2>1. PICK s : s = tick[c].row.seen \o tick[c].carried
    OBVIOUS
  <2>2. s \in Seq(Items) /\ ToSet(s) \subseteq ToSet(tick[c].row.seen) \cup ToSet(tick[c].carried)
    BY <1>2, <2>1, Joined
  <2>3. Bounded(s) \in Seq(Items) /\ ToSet(Bounded(s)) \subseteq ToSet(s)
    BY <2>2, BoundedPart
  <2> QED
    BY <2>1, <2>2, <2>3
<1>4. w \in Row
  BY <1>1, <1>3, Typed DEF Row, Tick
<1>5. AllKnown(ToSet(w.seen))
  BY <1>0, <1>1, <1>3 DEF AllKnown, FitPoll
<1>6. Put("poll", w) /\ since' = since /\ lost' \subseteq lost
  BY <1>1 DEF WriteCursor
<1> QED
  BY <1>4, <1>5, <1>6 DEF Writes, Sound, IInv, TypeOK, Triggers

(* The row of a poll that was caught.                                      *)
LEMMA AgainIsSound ==
  ASSUME IInv, NEW c \in Ticks, WriteAgain(c) PROVE Writes(c)
<1>0. FitPoll(tick[c])
  BY PollStage DEF WriteAgain, At
<1>1. PICK w : w = Reschedule(c)
  OBVIOUS
<1>2. w \in Row /\ w.seen = tick[c].row.seen
  <2>1. tick[c].row \in Row /\ tick[c].at + 1 \in Nat /\ tick[c].edition \in Nat
    BY Typed DEF Tick
  <2> QED
    BY <1>1, <2>1 DEF Reschedule, Row
<1>3. AllKnown(ToSet(w.seen))
  BY <1>0, <1>2 DEF FitPoll
<1>4. Put("poll", w) /\ since' = since /\ lost' = lost
  BY <1>1 DEF WriteAgain
<1> QED
  BY <1>2, <1>3, <1>4 DEF Writes, Sound, IInv, TypeOK, Triggers

(* A clean row, of either kind.                                            *)
LEMMA CleanIsSound ==
  ASSUME IInv, NEW c \in Ticks, WriteClean(c) PROVE Writes(c)
<1>2. tick[c].at \in Nat /\ tick[c].edition \in Nat /\ since \in Nat
  BY Typed DEF Tick, IInv, TypeOK
<1>3. PICK w \in Row : w = Clean(tick[c].at + 1, tick[c].edition)
                       /\ w.next = tick[c].at + 1 /\ w.seen = <<>>
  BY <1>2, CleanIsRow
<1>4. /\ since' \in Nat /\ since <= since'
      /\ KindOf[c] = "cron" => tick[c].at + 1 <= since'
  BY <1>2 DEF WriteClean
<1>5. KindOf[c] = "cron" => \A o \in since' .. w.next - 1 : Fire(o) \in offered
  BY <1>2, <1>3, <1>4
<1>6. AllKnown(ToSet(w.seen))
  BY <1>3 DEF AllKnown, ToSet
<1>7. Put(KindOf[c], w) /\ KindOf[c] \in Triggers /\ lost' = lost
  BY <1>3, KindAssumption DEF WriteClean
<1> QED
  BY <1>4, <1>5, <1>6, <1>7 DEF Writes, Sound, IInv, TypeOK

(* The row of a cron trigger that was due.                                  *)
LEMMA NextIsSound ==
  ASSUME IInv, NEW c \in Ticks, WriteNext(c) PROVE Writes(c)
<1>0. FitCron(tick[c]) /\ tick[c].stage = "put"
  <2>1. Fit(c, tick[c]) /\ KindOf[c] = "cron" /\ tick[c].stage = "put"
    BY DEF IInv, TicksFit, WriteNext, At
  <2> QED
    BY <2>1 DEF Fit
<1>1. /\ tick[c].at \in Nat /\ tick[c].edition \in Nat /\ since \in Nat
      /\ tick[c].what \subseteq Nat
  BY Typed DEF Tick, IInv, TypeOK
<1>2. /\ NextFire(c) \in Nat
      /\ setup.catchUp = "all" => \A o \in since .. NextFire(c) - 1 : Fire(o) \in offered
  <2>1. CASE ~(setup.catchUp = "all" /\ tick[c].what # {})
    <3>1. NextFire(c) = tick[c].at + 1 /\ setup.catchUp # "all"
      BY <1>0, <2>1 DEF NextFire, FitCron, Ends
    <3> QED
      BY <1>1, <3>1
  <2>2. CASE setup.catchUp = "all" /\ tick[c].what # {}
    <3>1. PICK hi \in Nat : Ends(tick[c].what, hi)
      BY <1>0, <2>2 DEF FitCron
    <3>2. (CHOOSE o \in tick[c].what : \A p \in tick[c].what : p <= o) = hi
      <4>1. \E o \in tick[c].what : \A p \in tick[c].what : p <= o
        BY <3>1 DEF Ends
      <4>2. PICK x : x = CHOOSE o \in tick[c].what : \A p \in tick[c].what : p <= o
        OBVIOUS
      <4>3. x \in tick[c].what /\ \A p \in tick[c].what : p <= x
        BY <4>1, <4>2
      <4> QED
        BY <1>1, <3>1, <4>2, <4>3 DEF Ends
    <3>3. NextFire(c) = hi + 1
      BY <2>2, <3>2 DEF NextFire
    <3> QED
      BY <1>0, <1>1, <2>2, <3>1, <3>3 DEF FitCron, Ends
  <2> QED
    BY <2>1, <2>2
<1>3. PICK w \in Row : w = Clean(NextFire(c), tick[c].edition) /\ w.next = NextFire(c)
  BY <1>1, <1>2, CleanIsRow
<1>4. Put("cron", w) /\ since' = since /\ lost' = lost
  BY <1>3 DEF WriteNext
<1> QED
  BY <1>1, <1>2, <1>3, <1>4 DEF Writes, Sound, IInv, TypeOK, Triggers

(* Every put of a tick.                                                    *)
LEMMA WriteIsSound ==
  ASSUME IInv, NEW c \in Ticks, Write(c) PROVE Writes(c)
BY CursorIsSound, AgainIsSound, CleanIsSound, NextIsSound DEF Write

(* After its triggers a tick reaps, or rests.                              *)
LEMMA ReapFits ==
  ASSUME NEW c, NEW R \in SUBSET Triggers
  PROVE  \E r \in Tick : r = ThenReap(R) /\ Fit(c, r)'
<1>1. PICK r \in Tick : r = ThenReap(R) /\ r.stage \in {"rest", "reap"} /\ r.row = NoRow
  BY ReapIsTick
<1> QED
  BY <1>1, NoRowIsRow, QuietFitsNext

(* Reap keeps the invariant.                                               *)
LEMMA ReapKeeps ==
  ASSUME IInv, NEW c \in Ticks, Reap(c) PROVE IInv'
<1>1. PICK t \in tick[c].reap : Put(t, NoRow) /\ Becomes(c, ThenReap(tick[c].reap \ {t}))
  BY DEF Reap
<1>2. t \in Triggers /\ tick[c].reap \ {t} \in SUBSET Triggers
  BY Typed DEF Tick
<1>3. PICK r \in Tick : r = ThenReap(tick[c].reap \ {t}) /\ Fit(c, r)'
  BY <1>2, ReapFits
<1>4. AllKnown(ToSet(NoRow.seen))
  BY NoRowIsRow DEF AllKnown, ToSet
<1> QED
  BY <1>1, <1>2, <1>3, <1>4, NoRowIsRow, RowStep
  DEF Reap, Grows, IInv, TypeOK, workflow, admission, history, bounds

(* PutRow keeps the invariant.                                             *)
LEMMA PutRowKeeps ==
  ASSUME IInv, NEW c \in Ticks, PutRow(c) PROVE IInv'
<1>1. PICK r \in Tick : r = ThenReap(tick[c].reap) /\ Fit(c, r)'
  BY Typed, ReapFits DEF Tick
<1>2. Writes(c) /\ Becomes(c, r)
  BY <1>1, WriteIsSound DEF PutRow
<1>3. PICK t \in Triggers, w \in Row : Put(t, w) /\ Sound(t, w)
  BY <1>2 DEF Writes
<1>4. /\ edits' \in 0 .. MaxEdits /\ errors' \in 0 .. MaxErrors /\ crashes' \in 0 .. MaxCrashes
      /\ Grows
  BY <1>2 DEF PutRow, bounds, workflow, admission, Grows, Writes, IInv, TypeOK
<1> QED
  BY <1>1, <1>2, <1>3, <1>4, RowStep DEF PutRow, Sound, Writes

(* What is lost are deliveries that have a run.                             *)
LEMMA LosesRuns ==
  ASSUME lost \subseteq Invocation, NEW R \in SUBSET Invocation, NEW c, Lose(c, R)
  PROVE  lost' \subseteq Invocation
BY DEF Lose

(* A tick that was caught fits every row.                                  *)
LEMMA CaughtFits ==
  ASSUME IInv, NEW c \in Ticks, NEW r \in Caught(c)
  PROVE  r \in Tick /\ Fit(c, r)'
<1>1. CASE KindOf[c] = "poll" /\ tick[c].stage \notin {"reget", "reput"}
  <2>1. r = [Rest EXCEPT !.stage = "reget", !.at = tick[c].at, !.edition = tick[c].edition]
    BY <1>1 DEF Caught
  <2>2. r \in Tick
    BY <2>1, Typed, RestIsTick DEF Tick, Stages
  <2>3. r.stage = "reget" /\ r.row = NoRow
    BY <2>1 DEF Rest
  <2> QED
    BY <1>1, <2>2, <2>3, NoRowIsRow DEF Fit, FitPoll, AllKnown, ToSet
<1>2. CASE ~(KindOf[c] = "poll" /\ tick[c].stage \notin {"reget", "reput"})
  <2>1. PICK b \in BOOLEAN : r = [Rest EXCEPT !.boot = b]
    BY <1>2 DEF Caught
  <2>2. r \in Tick
    BY <2>1, RestIsTick
  <2>3. r.stage = "rest" /\ r.row = NoRow
    BY <2>1 DEF Rest
  <2> QED
    BY <2>2, <2>3, NoRowIsRow, QuietFitsNext
<1> QED
  BY <1>1, <1>2

(* Throws keeps the invariant: the put was done, or was not, or it was the   *)
(* reaper's.                                                               *)
LEMMA ThrowsKeeps ==
  ASSUME IInv, NEW c \in Ticks, Throws(c) PROVE IInv'
<1>1. PICK r \in Tick : Becomes(c, r) /\ Fit(c, r)'
  BY CaughtFits DEF Throws
<1>2. /\ UNCHANGED <<now, workflow, inbox, admission, primed, edits, crashes>>
      /\ errors' \in 0 .. MaxErrors
  BY BoundAssumption DEF Throws, IInv, TypeOK
<1>3. CASE Write(c)
  <2>1. Writes(c)
    BY <1>3, WriteIsSound
  <2>2. PICK t \in Triggers, w \in Row : Put(t, w) /\ Sound(t, w)
    BY <2>1 DEF Writes
  <2>3. Grows
    BY <1>2, <2>1 DEF workflow, admission, Grows, Writes
  <2> QED
    BY <1>1, <1>2, <2>1, <2>2, <2>3, RowStep DEF Sound, Writes, IInv, TypeOK
<1>4. CASE Lose(c, runs) /\ UNCHANGED <<rows, since>>
  <2>1. lost' \subseteq Invocation
    BY <1>4, LosesRuns DEF IInv, TypeOK
  <2>2. Grows
    BY <1>2, <1>4 DEF workflow, admission, Grows, IInv, TypeOK
  <2> QED
    BY <1>1, <1>2, <1>4, <2>1, <2>2, TickStep DEF IInv, TypeOK, admission
<1>5. CASE \E t \in tick[c].reap : At(c, "reap") /\ Put(t, NoRow) /\ UNCHANGED <<lost, since>>
  <2>1. PICK t \in tick[c].reap : Put(t, NoRow) /\ UNCHANGED <<lost, since>>
    BY <1>5
  <2>2. t \in Triggers
    BY Typed DEF Tick
  <2>3. AllKnown(ToSet(NoRow.seen))
    BY NoRowIsRow DEF AllKnown, ToSet
  <2>4. Grows
    BY <1>2, <2>1 DEF workflow, admission, Grows, IInv, TypeOK
  <2> QED
    BY <1>1, <1>2, <2>1, <2>2, <2>3, <2>4, NoRowIsRow, RowStep DEF IInv, TypeOK
<1> QED
  BY <1>3, <1>4, <1>5 DEF Throws

-----------------------------------------------------------------------------
(* The calls of enqueue.                                                   *)
LEMMA Admitting ==
  ASSUME IInv, NEW c \in Ticks, tick[c].stage \in {"fire", "insert"}
  PROVE  /\ Asked(c) \in Invocation
         /\ KindOf[c] = "cron" => Asked(c) = Fire(First(c)) /\ First(c) \in Nat
         /\ KindOf[c] # "cron" => Asked(c) = Deliver(tick[c].out)
<1>1. CASE KindOf[c] = "cron"
  <2>1. FitCron(tick[c])
    BY <1>1 DEF IInv, TicksFit, Fit
  <2>2. PICK k \in Nat, hi \in Nat : k <= hi /\ tick[c].todo = k .. hi
    BY <2>1 DEF FitCron
  <2>3. First(c) \in Nat
    BY <2>2, FirstOfSpan
  <2>4. <<First(c)>> \in Seq(Nat \cup Items)
    BY <2>3
  <2> QED
    BY <1>1, <2>3, <2>4 DEF Asked, Fire, Invocation, Triggers
<1>2. CASE KindOf[c] # "cron"
  <2>1. tick[c].out \in Seq(Items)
    BY Typed DEF Tick
  <2>2. tick[c].out \in Seq(Nat \cup Items)
    BY <2>1
  <2> QED
    BY <1>2, <2>2 DEF Asked, Deliver, Invocation, Triggers
<1> QED
  BY <1>1, <1>2

(* The tick goes on to insert, its invocation offered.                      *)
LEMMA InsertFits ==
  ASSUME IInv, NEW c \in Ticks, tick[c].stage = "fire",
         offered' = offered \cup {Asked(c)}, Grows, since' = since
  PROVE  \E r \in Tick : r = [tick[c] EXCEPT !.stage = "insert"] /\ Fit(c, r)'
<1>1. PICK r \in Tick : r = [tick[c] EXCEPT !.stage = "insert"]
  BY Typed DEF Tick, Stages
<1>2. /\ r.stage = "insert" /\ r.todo = tick[c].todo /\ r.what = tick[c].what
      /\ r.out = tick[c].out /\ r.row = tick[c].row /\ r.carried = tick[c].carried
  BY <1>1, Typed DEF Tick
<1>3. Fit(c, tick[c])
  BY DEF IInv, TicksFit
<1>4. CASE KindOf[c] = "cron"
  <2>1. FitCron(tick[c])
    BY <1>3, <1>4 DEF Fit
  <2>2. PICK k \in Nat, hi \in Nat : k <= hi /\ tick[c].todo = k .. hi /\ Ends(tick[c].what, hi)
    BY <2>1 DEF FitCron
  <2>3. Fire(k) \in offered'
    BY <1>4, <2>2, FirstOfSpan DEF Asked
  <2>4. \E k2, hi2 \in Nat : /\ k2 <= hi2 /\ r.todo = k2 .. hi2 /\ Ends(r.what, hi2)
                             /\ r.stage = "insert" => Fire(k2) \in offered'
    BY <1>2, <2>2, <2>3
  <2>5. setup.catchUp = "all" =>
          \A m \in r.what : \A o \in since .. m : o \in r.todo \/ Fire(o) \in offered'
    BY <1>2, <2>1 DEF FitCron
  <2>6. FitCron(r)'
    BY <1>2, <2>4, <2>5 DEF FitCron, Grows, Fire, Ends
  <2> QED
    BY <1>1, <1>4, <2>6 DEF Fit
<1>5. CASE KindOf[c] # "cron"
  <2>1. FitPoll(tick[c])
    BY <1>3, <1>5 DEF Fit
  <2>2. Deliver(r.out) \in offered'
    BY <1>2, <1>5 DEF Asked
  <2>3. AllKnown(ToSet(r.row.seen)) /\ ToSet(r.carried) \subseteq ToSet(r.out)
    BY <1>2, <2>1 DEF FitPoll
  <2>4. AllKnown(ToSet(r.row.seen))'
    BY <2>3, KnownStays DEF Grows, ToSet
  <2>5. FitPoll(r)'
    BY <1>2, <2>2, <2>3, <2>4 DEF FitPoll, Deliver, ToSet
  <2> QED
    BY <1>1, <1>5, <2>5 DEF Fit
<1> QED
  BY <1>4, <1>5

(* enqueue returned: the invocation has been offered.                       *)
LEMMA ReturnedFits ==
  ASSUME IInv, NEW c \in Ticks, tick[c].stage \in {"fire", "insert"},
         Asked(c) \in offered', Grows, since' = since
  PROVE  \E r \in Tick : r = Returned(c) /\ Fit(c, r)'
<1>1. PICK rest : rest = IF KindOf[c] = "cron" THEN tick[c].todo \ {First(c)} ELSE {}
  OBVIOUS
<1>2. PICK r : r = [tick[c] EXCEPT !.stage = IF rest = {} THEN "put" ELSE "fire", !.todo = rest]
  OBVIOUS
<1>3. r = Returned(c)
  BY <1>1, <1>2 DEF Returned
<1>4. r \in Tick
  <2>1. rest \in SUBSET Nat
    BY <1>1, Typed DEF Tick
  <2> QED
    BY <1>2, <2>1, Typed DEF Tick, Stages
<1>5. /\ r.stage = (IF rest = {} THEN "put" ELSE "fire") /\ r.todo = rest
      /\ r.what = tick[c].what /\ r.out = tick[c].out
      /\ r.row = tick[c].row /\ r.carried = tick[c].carried
  BY <1>2, Typed DEF Tick
<1>6. Fit(c, tick[c])
  BY DEF IInv, TicksFit
<1>7. CASE KindOf[c] = "cron"
  <2>1. FitCron(tick[c])
    BY <1>6, <1>7 DEF Fit
  <2>2. PICK k \in Nat, hi \in Nat : k <= hi /\ tick[c].todo = k .. hi /\ Ends(tick[c].what, hi)
    BY <2>1 DEF FitCron
  <2>3. rest = (k + 1) .. hi /\ Fire(k) \in offered'
    BY <1>1, <1>7, <2>2, FirstOfSpan DEF Asked
  <2>4. r.stage = "fire" =>
          \E k2, hi2 \in Nat : k2 <= hi2 /\ r.todo = k2 .. hi2 /\ Ends(r.what, hi2)
    <3> SUFFICES ASSUME r.stage = "fire"
                 PROVE  \E k2, hi2 \in Nat : /\ k2 <= hi2 /\ r.todo = k2 .. hi2
                                             /\ Ends(r.what, hi2)
      OBVIOUS
    <3>1. k + 1 <= hi /\ k + 1 \in Nat
      BY <1>5, <2>3
    <3> QED
      BY <1>5, <2>2, <2>3, <3>1
  <2>5. ASSUME setup.catchUp = "all", NEW m \in r.what, NEW o \in since .. m
        PROVE  o \in r.todo \/ Fire(o) \in offered'
    <3>1. o \in tick[c].todo \/ Fire(o) \in offered
      BY <1>5, <2>1, <2>5 DEF FitCron
    <3>2. o \in tick[c].todo => o = k \/ o \in rest
      BY <2>2, <2>3
    <3> QED
      BY <1>5, <2>3, <3>1, <3>2 DEF Grows
  <2>6. r.stage = "put" => r.todo = {} /\ \E hi2 \in Nat : Ends(r.what, hi2)
    BY <1>5, <2>2
  <2>7. FitCron(r)'
    BY <1>5, <2>4, <2>5, <2>6 DEF FitCron, Grows, Fire, Ends
  <2> QED
    BY <1>3, <1>4, <1>7, <2>7 DEF Fit
<1>8. CASE KindOf[c] # "cron"
  <2>1. FitPoll(tick[c]) /\ r.stage = "put"
    BY <1>1, <1>5, <1>6, <1>8 DEF Fit
  <2>2. Deliver(r.out) \in offered'
    BY <1>5, <1>8 DEF Asked
  <2>3. AllKnown(ToSet(r.row.seen)) /\ ToSet(r.carried) \subseteq ToSet(r.out)
    BY <1>5, <2>1 DEF FitPoll
  <2>4. AllKnown(ToSet(r.row.seen))'
    BY <2>3, KnownStays DEF Grows, ToSet
  <2>5. AllKnown(ToSet(r.carried))'
    <3>1. \A i \in ToSet(r.out) : \E v \in offered' : Delivers(v, i)
      BY <2>2 DEF Deliver, Delivers
    <3> QED
      BY <2>3, <3>1 DEF AllKnown, Sent, ToSet, Delivers
  <2>6. FitPoll(r)'
    BY <2>1, <2>4, <2>5 DEF FitPoll, ToSet
  <2> QED
    BY <1>3, <1>4, <1>8, <2>6 DEF Fit
<1> QED
  BY <1>7, <1>8

(* Find keeps the invariant.                                               *)
LEMMA FindKeeps ==
  ASSUME IInv, NEW c \in Ticks, Find(c) PROVE IInv'
<1>0. tick[c].stage = "fire" /\ offered' = offered \cup {Asked(c)}
  BY DEF Find, At
<1>1. offered' \subseteq Invocation
  BY <1>0, Admitting DEF IInv, TypeOK
<1>2. Grows /\ since' = since
  BY <1>0 DEF Find, Grows, workflow, history, IInv, TypeOK
<1>3. PICK r \in Tick : Becomes(c, r) /\ Fit(c, r)'
  BY <1>0, <1>2, InsertFits, ReturnedFits DEF Find
<1> QED
  BY <1>1, <1>2, <1>3, TickStep DEF Find, IInv, TypeOK, workflow, history, bounds

(* Insert keeps the invariant.                                             *)
LEMMA InsertKeeps ==
  ASSUME IInv, NEW c \in Ticks, Insert(c) PROVE IInv'
<1>0. tick[c].stage = "insert" /\ offered' = offered
  BY DEF Insert, At
<1>1. Asked(c) \in offered
  <2>1. Fit(c, tick[c])
    BY DEF IInv, TicksFit
  <2>2. CASE KindOf[c] = "cron"
    <3>1. PICK k \in Nat, hi \in Nat : k <= hi /\ tick[c].todo = k .. hi /\ Fire(k) \in offered
      BY <1>0, <2>1, <2>2 DEF Fit, FitCron
    <3> QED
      BY <2>2, <3>1, FirstOfSpan DEF Asked
  <2>3. CASE KindOf[c] # "cron"
    BY <1>0, <2>1, <2>3 DEF Fit, FitPoll, Asked
  <2> QED
    BY <2>2, <2>3
<1>2. Grows /\ since' = since
  BY <1>0 DEF Insert, Grows, workflow, history, IInv, TypeOK
<1>3. PICK r \in Tick : r = Returned(c) /\ Fit(c, r)'
  BY <1>0, <1>1, <1>2, ReturnedFits
<1>4. runs' \subseteq Invocation
  BY <1>0, Admitting DEF Insert, IInv, TypeOK
<1> QED
  BY <1>0, <1>2, <1>3, <1>4, TickStep DEF Insert, IInv, TypeOK, workflow, history, bounds

(* EnqueueThrows keeps the invariant.                                      *)
LEMMA EnqueueThrowsKeeps ==
  ASSUME IInv, NEW c \in Ticks, EnqueueThrows(c) PROVE IInv'
<1>0. tick[c].stage \in {"fire", "insert"} /\ offered' = offered \cup {Asked(c)}
  BY DEF EnqueueThrows, At
<1>1. offered' \subseteq Invocation /\ runs' \subseteq Invocation
  BY <1>0, Admitting DEF EnqueueThrows, IInv, TypeOK
<1>2. Grows /\ since' = since
  BY <1>0 DEF EnqueueThrows, Grows, workflow, IInv, TypeOK
<1>3. PICK r \in Tick : Becomes(c, r) /\ Fit(c, r)'
  <2>1. CASE KindOf[c] = "cron"
    <3>1. PICK r \in Tick : r = Returned(c) /\ Fit(c, r)'
      BY <1>0, <1>2, ReturnedFits
    <3> QED
      BY <2>1, <3>1 DEF EnqueueThrows
  <2>2. CASE KindOf[c] # "cron"
    BY <2>2, CaughtFits DEF EnqueueThrows
  <2> QED
    BY <2>1, <2>2
<1>4. errors' \in 0 .. MaxErrors
  BY BoundAssumption DEF EnqueueThrows, IInv, TypeOK
<1>5. lost' \subseteq Invocation
  BY <1>1, LosesRuns DEF EnqueueThrows, IInv, TypeOK
<1> QED
  BY <1>1, <1>2, <1>3, <1>4, <1>5, TickStep DEF EnqueueThrows, IInv, TypeOK, workflow

(* Crash keeps the invariant.                                              *)
LEMMA CrashKeeps ==
  ASSUME IInv, NEW c \in Ticks, Crash(c) PROVE IInv'
<1>1. PICK r \in Tick : r = [Rest EXCEPT !.boot = KindOf[c] = "cron"]
  BY RestIsTick
<1>2. r.stage = "rest" /\ r.row = NoRow
  BY <1>1 DEF Rest
<1>3. Fit(c, r)'
  BY <1>2, NoRowIsRow, QuietFitsNext
<1>4. crashes' \in 0 .. MaxCrashes
  BY BoundAssumption DEF Crash, IInv, TypeOK
<1>5. lost' \subseteq Invocation
  BY LosesRuns DEF Crash, IInv, TypeOK
<1> QED
  BY <1>1, <1>3, <1>4, <1>5, TickStep
  DEF Crash, Grows, IInv, TypeOK, workflow, admission

(* A step of the surroundings: no tick, row or admission.                   *)
LEMMA WorldStep ==
  ASSUME IInv, UNCHANGED <<rows, tick, admission, history>>, setup' = setup, TypeOK'
  PROVE  IInv'
<1>1. TicksFit'
  BY DEF IInv, TicksFit, Fit, FitCron, FitPoll, AllKnown, Sent, Delivers, Fire, Deliver,
         Ends, admission, history
<1>2. NothingSkipped' /\ SeenWasOffered'
  BY DEF IInv, NothingSkipped, SeenWasOffered, Present, Sent, Delivers, Fire,
         admission, history
<1> QED
  BY <1>1, <1>2 DEF IInv

(* The clock, the endpoint and a saved workflow keep the invariant.        *)
LEMMA WorldKeeps ==
  ASSUME IInv, \/ Clock \/ Appear \/ UNCHANGED vars
               \/ \E t \in Triggers : Toggle(t) \/ Reconfigure(t)
  PROVE  IInv'
<1>1. CASE Clock
  <2>1. TypeOK'
    BY <1>1, BoundAssumption DEF Clock, IInv, TypeOK, workflow, admission, history, bounds
  <2> QED
    BY <1>1, <2>1, WorldStep DEF Clock, workflow
<1>2. CASE Appear
  <2>1. TypeOK'
    BY <1>2 DEF Appear, IInv, TypeOK, workflow, admission, history, bounds
  <2> QED
    BY <1>2, <2>1, WorldStep DEF Appear, workflow
<1>3. CASE UNCHANGED vars
  <2>1. TypeOK'
    BY <1>3 DEF vars, IInv, TypeOK, workflow, admission, history, bounds
  <2> QED
    BY <1>3, <2>1, WorldStep DEF vars, workflow
<1>4. ASSUME NEW t \in Triggers, Toggle(t)
      PROVE  IInv'
  <2>1. TypeOK'
    BY <1>4, BoundAssumption DEF Toggle, IInv, TypeOK, admission, history
  <2> QED
    BY <1>4, <2>1, WorldStep DEF Toggle
<1>5. ASSUME NEW t \in Triggers, Reconfigure(t)
      PROVE  IInv'
  <2>1. TypeOK'
    BY <1>5, BoundAssumption DEF Reconfigure, IInv, TypeOK, admission, history
  <2> QED
    BY <1>5, <2>1, WorldStep DEF Reconfigure
<1> QED
  BY <1>1, <1>2, <1>3, <1>4, <1>5

(* The invariant holds at first.                                           *)
LEMMA InitIInv == Init => IInv
<1> SUFFICES ASSUME Init PROVE IInv
  OBVIOUS
<1>1. TypeOK
  <2>1. tick \in [Ticks -> Tick]
    BY RestIsTick DEF Init
  <2>2. rows \in [Triggers -> Row]
    BY NoRowIsRow DEF Init
  <2>3. setup \in Setups /\ enabled \subseteq setup.triggers
    BY DEF Init
  <2> QED
    BY <2>1, <2>2, <2>3, BoundAssumption DEF Init, TypeOK
<1>2. TicksFit
  <2>1. ASSUME NEW c \in Ticks
        PROVE  tick[c].stage = "rest" /\ tick[c].row.seen = <<>>
    BY NoRowIsRow DEF Init, Rest
  <2> QED
    BY <2>1, QuietFits DEF TicksFit
<1>3. NothingSkipped /\ SeenWasOffered
  BY NoRowIsRow DEF Init, NothingSkipped, SeenWasOffered, Present, ToSet, Triggers
<1> QED
  BY <1>1, <1>2, <1>3 DEF IInv

(* Every step keeps the invariant.                                         *)
LEMMA StepIInv == IInv /\ [Next]_vars => IInv'
<1> SUFFICES ASSUME IInv, [Next]_vars PROVE IInv'
  OBVIOUS
<1>1. ASSUME NEW c \in Ticks, Step(c)
      PROVE  IInv'
  BY <1>1, CronSkipsKeeps, CronStartsKeeps, CronIsDueKeeps, ReapKeeps, PollReadKeeps,
     PollGetKeeps, PollFetchKeeps, PollRegetsKeeps, PutRowKeeps, FindKeeps, InsertKeeps DEF Step
<1>2. ASSUME NEW c \in Ticks, Crash(c) \/ Throws(c) \/ EnqueueThrows(c)
      PROVE  IInv'
  BY <1>2, CrashKeeps, ThrowsKeeps, EnqueueThrowsKeeps
<1> QED
  BY <1>1, <1>2, WorldKeeps DEF Next

(* The inductive invariant holds in every state: types, ticks that fit     *)
(* the rows they will write, and both properties of the rows.              *)
THEOREM Invariant == Spec => []IInv
BY InitIInv, StepIInv, PTL DEF Spec

(* With catchUp "all" every occurrence that nextFireAt has passed was       *)
(* handed to enqueue, however many ticks overlap, die or write old values   *)
(* back (cron.ts, process and fire).                                       *)
THEOREM NoOccurrenceIsSkipped == Spec => []NothingSkipped
<1>1. IInv => NothingSkipped
  BY DEF IInv
<1> QED
  BY <1>1, Invariant, PTL

(* A remembered item was offered, or was there at a first poll that only    *)
(* primes (poll.ts, fetchItems and the put of pollOne).                     *)
THEOREM RememberedWasOffered == Spec => []SeenWasOffered
<1>1. IInv => SeenWasOffered
  BY DEF IInv
<1> QED
  BY <1>1, Invariant, PTL
=============================================================================
