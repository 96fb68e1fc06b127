-------------------------- MODULE Connections_proofs --------------------------
(***************************************************************************)
(* Proofs about the circuit and the pool cache, each alone and composed,   *)
(* for any number of callers, credentials and pools.                       *)
(***************************************************************************)
EXTENDS Connections, TLAPS

(* The circuit and the modes of its calls keep their types.                *)
LEMMA BreakerTypes == BreakerSpec => []BreakerTypeOK
<1>1. BreakerInit => BreakerTypeOK
  BY DEF BreakerInit, BreakerTypeOK, Closed, Circuit, Mode
<1>2. BreakerTypeOK /\ [BreakerNext]_breaker => BreakerTypeOK'
  <2> SUFFICES ASSUME BreakerTypeOK, [BreakerNext]_breaker PROVE BreakerTypeOK'
    OBVIOUS
  <2> USE DEF BreakerTypeOK, Circuit, Mode
  <2>1. ASSUME NEW c \in Calls, Admit(c) PROVE BreakerTypeOK'
    <3>1. CASE AdmitCall(c)
      BY <3>1 DEF AdmitCall
    <3>2. CASE AdmitTrial(c)
      BY <3>2 DEF AdmitTrial, ClaimTrial
    <3>3. CASE AdmitFirstTrial(c)
      <4>1. HalfOpen \in Circuit
        BY DEF HalfOpen
      <4>2. circuit' \in Circuit
        BY <3>3, <4>1 DEF AdmitFirstTrial, ClaimTrial
      <4>3. NextPeriod(mode) \in [Calls -> Mode]
        BY DEF NextPeriod, Become
      <4> QED
        BY <3>3, <4>2, <4>3 DEF AdmitFirstTrial
    <3> QED
      BY <2>1, <3>1, <3>2, <3>3 DEF Admit
  <2>2. ASSUME NEW c \in Calls, NEW outcome \in Outcome, FinishOk(c, outcome)
        PROVE BreakerTypeOK'
    <3>1. CASE Closes
      <4>1. Deleted(mode) \in [Calls -> Mode]
        BY DEF Deleted, Become
      <4>2. mode' \in [Calls -> Mode]
        <5>1. mode' = [Deleted(mode) EXCEPT ![c] = "none"]
          BY <2>2, <3>1 DEF FinishOk
        <5> QED
          BY <4>1, <5>1
      <4>3. circuit' = Closed
        BY <2>2, <3>1 DEF FinishOk
      <4> QED
        BY <4>2, <4>3 DEF Closed
    <3>2. CASE ~Closes
      <4>1. AfterSuccess \in Circuit
        BY DEF AfterSuccess
      <4> QED
        BY <2>2, <3>2, <4>1 DEF FinishOk, Released
    <3> QED
      BY <3>1, <3>2
  <2>3. ASSUME NEW c \in Calls, FinishUnavailable(c) PROVE BreakerTypeOK'
    <3>1. AfterFailure \in Circuit
      <4>1. CASE circuit.state = "half-open"
        BY <4>1 DEF AfterFailure, Opened
      <4>2. CASE circuit.state # "half-open"
        <5> DEFINE k == [circuit EXCEPT !.failures = @ + 1]
        <5>1. k \in Circuit
          OBVIOUS
        <5>2. Opened(k) \in Circuit
          BY <5>1 DEF Opened
        <5> QED
          BY <4>2, <5>1, <5>2 DEF AfterFailure
      <4> QED
        BY <4>1, <4>2
    <3> QED
      BY <2>3, <3>1 DEF FinishUnavailable, Released
  <2>4. CASE Ripen
    BY <2>4 DEF Ripen, HalfOpen, NextPeriod, Become
  <2>5. CASE Cool
    BY <2>5 DEF Cool
  <2>6. CASE Forget
    BY <2>6 DEF Forget, Closed, Deleted, Become
  <2>7. CASE UNCHANGED breaker
    BY <2>7 DEF breaker
  <2> QED
    BY <2>1, <2>2, <2>3, <2>4, <2>5, <2>6, <2>7 DEF BreakerNext, Refused, Finish, Snapshot
<1> QED
  BY <1>1, <1>2, PTL DEF BreakerSpec

(* No trial is in flight while the circuit is closed, and the slot is taken *)
(* while the trial of this half-open period is.                            *)
SlotIsTrue ==
  /\ circuit.state = "closed" => \A c \in Calls : mode[c] \notin {"trial", "overrun"}
  /\ (circuit.state = "half-open" /\ ~circuit.trialInFlight)
       => \A c \in Calls : mode[c] # "trial"
BreakerInv == SlotIsTrue /\ OneTrialPerPeriod

(* With one success enough to close, as dbCircuitBreaker has it, a half-open *)
(* period admits one trial, whatever calls of earlier periods report.      *)
THEOREM HalfOpenAdmitsOneTrial ==
  SuccessThreshold = 1 => (BreakerSpec => []OneTrialPerPeriod)
<1> SUFFICES ASSUME SuccessThreshold = 1 PROVE BreakerSpec => []OneTrialPerPeriod
  OBVIOUS
<1>1. BreakerInit => BreakerInv
  BY DEF BreakerInit, BreakerInv, SlotIsTrue, OneTrialPerPeriod, Closed
<1>2. BreakerTypeOK /\ BreakerInv /\ [BreakerNext]_breaker => BreakerInv'
  <2> SUFFICES ASSUME BreakerTypeOK, BreakerInv, [BreakerNext]_breaker PROVE BreakerInv'
    OBVIOUS
  <2> USE DEF BreakerTypeOK, Circuit, Mode, BreakerInv, SlotIsTrue, OneTrialPerPeriod
  <2>1. ASSUME NEW c \in Calls, Admit(c) PROVE BreakerInv'
    BY <2>1 DEF Admit, AdmitCall, AdmitTrial, AdmitFirstTrial, ClaimTrial, HalfOpen,
       NextPeriod, Become
  <2>2. ASSUME NEW c \in Calls, NEW outcome \in Outcome, FinishOk(c, outcome)
        PROVE BreakerInv'
    <3>1. CASE Closes
      BY <2>2, <3>1 DEF FinishOk, Closed, Deleted, Become
    <3>2. CASE ~Closes
      <4>1. circuit.state # "half-open"
        BY <3>2 DEF Closes
      <4> QED
        BY <2>2, <3>2, <4>1 DEF FinishOk, Released, AfterSuccess
    <3> QED
      BY <3>1, <3>2
  <2>3. ASSUME NEW c \in Calls, FinishUnavailable(c) PROVE BreakerInv'
    BY <2>3 DEF FinishUnavailable, Released, AfterFailure, Opened
  <2>4. CASE Ripen
    BY <2>4 DEF Ripen, HalfOpen, NextPeriod, Become
  <2>5. CASE Cool
    BY <2>5 DEF Cool
  <2>6. CASE Forget
    BY <2>6 DEF Forget, Closed, Deleted, Become
  <2>7. CASE UNCHANGED breaker
    BY <2>7 DEF breaker
  <2> QED
    BY <2>1, <2>2, <2>3, <2>4, <2>5, <2>6, <2>7 DEF BreakerNext, Refused, Finish, Snapshot
<1> QED
  BY <1>1, <1>2, BreakerTypes, PTL DEF BreakerSpec, BreakerInv

-----------------------------------------------------------------------------
Injective(s) == \A i, j \in 1 .. Len(s) : s[i] = s[j] => i = j
Rng(s) == {s[i] : i \in 1 .. Len(s)}

(* Deleting the entry at i removes its key and keeps the others in order.  *)
LEMMA DroppedKeys ==
  ASSUME entries \in Seq(Keys), Injective(entries), NEW i \in 1 .. Len(entries)
  PROVE  /\ Dropped(i) \in Seq(Keys) /\ Injective(Dropped(i))
         /\ Rng(Dropped(i)) = Cached \ {entries[i]}
<1> DEFINE n == Len(entries)
           d == Dropped(i)
<1>1. n \in Nat /\ n >= 1 /\ \A j \in 1 .. n : entries[j] \in Keys
  OBVIOUS
<1>2. d = [j \in 1 .. n - 1 |-> IF j < i THEN entries[j] ELSE entries[j + 1]]
  BY DEF Dropped
<1>3. \A j \in 1 .. n - 1 : d[j] \in Keys
  BY <1>1, <1>2
<1>4. d \in Seq(Keys) /\ Len(d) = n - 1
  <2>1. n - 1 \in Nat
    BY <1>1
  <2>2. d \in [1 .. n - 1 -> Keys]
    BY <1>2, <1>3
  <2> QED
    BY <2>1, <2>2
<1>5. Injective(d)
  <2> SUFFICES ASSUME NEW j \in 1 .. n - 1, NEW k \in 1 .. n - 1, d[j] = d[k] PROVE j = k
    BY <1>4 DEF Injective
  <2> DEFINE at(x) == IF x < i THEN x ELSE x + 1
  <2>1. at(j) \in 1 .. n /\ at(k) \in 1 .. n
    BY <1>1
  <2>2. d[j] = entries[at(j)] /\ d[k] = entries[at(k)]
    BY <1>2
  <2>3. at(j) = at(k)
    BY <2>1, <2>2 DEF Injective
  <2> QED
    BY <1>1, <2>3
<1>6. Rng(d) \subseteq Cached \ {entries[i]}
  <2> SUFFICES ASSUME NEW j \in 1 .. n - 1 PROVE d[j] \in Cached \ {entries[i]}
    BY <1>4 DEF Rng
  <2>1. CASE j < i
    BY <1>1, <1>2, <2>1 DEF Cached, Injective
  <2>2. CASE j >= i
    <3>1. d[j] = entries[j + 1] /\ j + 1 \in 1 .. n /\ j + 1 # i
      BY <1>1, <1>2, <2>2
    <3> QED
      BY <3>1 DEF Cached, Injective
  <2> QED
    BY <1>1, <2>1, <2>2
<1>7. Cached \ {entries[i]} \subseteq Rng(d)
  <2> SUFFICES ASSUME NEW j \in 1 .. n, entries[j] # entries[i] PROVE entries[j] \in Rng(d)
    BY DEF Cached
  <2>1. CASE j < i
    <3>1. j \in 1 .. n - 1 /\ d[j] = entries[j]
      BY <1>1, <1>2, <2>1
    <3> QED
      BY <1>4, <3>1 DEF Rng
  <2>2. CASE j > i
    <3>1. j - 1 \in 1 .. n - 1 /\ d[j - 1] = entries[j]
      BY <1>1, <1>2, <2>2
    <3> QED
      BY <1>4, <3>1 DEF Rng
  <2> QED
    BY <1>1, <2>1, <2>2
<1> QED
  BY <1>4, <1>5, <1>6, <1>7

(* Appending a key that is not there.                                      *)
LEMMA AppendedKeys ==
  ASSUME NEW s \in Seq(Keys), Injective(s), NEW k \in Keys, k \notin Rng(s)
  PROVE  /\ Append(s, k) \in Seq(Keys) /\ Injective(Append(s, k))
         /\ Rng(Append(s, k)) = Rng(s) \cup {k}
<1> DEFINE t == Append(s, k)
<1>1. Len(s) \in Nat /\ t \in Seq(Keys) /\ Len(t) = Len(s) + 1
  OBVIOUS
<1>2. t[Len(s) + 1] = k /\ \A j \in 1 .. Len(s) : t[j] = s[j]
  OBVIOUS
<1>3. Injective(t)
  BY <1>1, <1>2 DEF Injective, Rng
<1>4. Rng(t) \subseteq Rng(s) \cup {k}
  BY <1>1, <1>2 DEF Rng
<1>5. Rng(s) \cup {k} \subseteq Rng(t)
  BY <1>1, <1>2 DEF Rng
<1> QED
  BY <1>1, <1>3, <1>4, <1>5

(* What the callers are doing, as far as pending tells: a promise that runs *)
(* has one creation, made for a key that is not cached.                    *)
PromisesAreTrue ==
  /\ \A k \in Keys : pending[k] = "running" => \E c \in Callers : Creates(c, k)
  /\ \A c \in Callers, k \in Keys : Creates(c, k) => pending[k] = "running" /\ k \notin Cached
  /\ \A c, d \in Callers, k \in Keys : (Creates(c, k) /\ Creates(d, k)) => c = d
  /\ \A c \in Callers, k \in Keys : Waits(c, k) => pending[k] = "running"

CacheInv ==
  /\ CacheTypeOK /\ Injective(entries) /\ PoolsAreCached /\ PromisesAreTrue


Shelf == /\ entries \in Seq(Keys) /\ open \in [Keys -> Int]
         /\ Injective(entries) /\ PoolsAreCached

(* evictKey keeps entries distinct and matched by open pools.              *)
LEMMA EvictKeepsShelf ==
  ASSUME Shelf, NEW i \in 1 .. Len(entries), Evict(i)
  PROVE  Shelf' /\ Cached' = Cached \ {entries[i]}
<1> USE DEF Shelf
<1>1. /\ entries' \in Seq(Keys) /\ Injective(entries)'
      /\ Cached' = Cached \ {entries[i]}
  <2>1. entries' = Dropped(i)
    BY DEF Evict
  <2>2. entries' \in Seq(Keys) /\ Injective(entries') /\ Rng(entries') = Cached \ {entries[i]}
    BY <2>1, DroppedKeys
  <2> QED
    BY <2>2 DEF Injective, Rng, Cached
<1>2. entries[i] \in Keys /\ entries[i] \in Cached
  BY DEF Cached
<1>3. open' \in [Keys -> Int]
  BY <1>2 DEF Evict
<1>4. PoolsAreCached'
  BY <1>1, <1>2 DEF Evict, PoolsAreCached
<1> QED
  BY <1>1, <1>3, <1>4

(* Disposing of pools moves callers who were about to connect, and no other. *)
LEMMA EndedKeepsRoles ==
  ASSUME NEW m \in [Callers -> Call], NEW ks
  PROVE  /\ Ended(m, ks) \in [Callers -> Call]
         /\ \A c \in Callers :
              /\ Ended(m, ks)[c].key = m[c].key
              /\ \A stage \in {"evicting", "making", "waiting"} :
                   Ended(m, ks)[c].at = stage <=> m[c].at = stage
BY DEF Ended, Call, Stage

Roles == {"evicting", "making", "waiting"}

(* A step that leaves pending alone and takes nobody into or out of a role  *)
(* keeps the promises true, if it caches no new key.                       *)
LEMMA SameRoles ==
  ASSUME CacheTypeOK, PromisesAreTrue, UNCHANGED pending, Cached' \subseteq Cached,
         \A c \in Callers :
           /\ caller'[c].at \in Roles => caller'[c].key = caller[c].key
           /\ \A stage \in Roles : caller'[c].at = stage <=> caller[c].at = stage
  PROVE  PromisesAreTrue'
BY DEF PromisesAreTrue, Creates, Waits, At, Roles, CacheTypeOK, Call

(* Every step of the cache keeps its invariant.                            *)
LEMMA CacheStep == CacheInv /\ [CacheNext]_cache => CacheInv'
<1> SUFFICES ASSUME CacheInv, [CacheNext]_cache PROVE CacheInv'
  OBVIOUS
<1> USE DEF CacheInv
<1>a. CacheTypeOK /\ PromisesAreTrue /\ Shelf
  BY DEF CacheTypeOK, Shelf
<1>b. Shelf' /\ caller' \in [Callers -> Call] /\ PromisesAreTrue'
        /\ pending' \in [Keys -> {"none", "running", "rejected"}] => CacheInv'
  BY DEF Shelf, CacheTypeOK
<1>c. /\ pending \in [Keys -> {"none", "running", "rejected"}]
      /\ caller \in [Callers -> Call]
  BY DEF CacheTypeOK
<1>d. UNCHANGED <<entries, open>> => Shelf' /\ Cached' = Cached
  BY <1>a DEF Shelf, Injective, PoolsAreCached, Cached
<1>1. ASSUME NEW c \in Callers, NEW k \in Keys, Begin(c, k) PROVE CacheInv'
  <2> PICK n \in 0 .. Len(entries) :
        caller' = [caller EXCEPT ![c] =
          [at |-> "expiring", key |-> k, stale |-> {entries[i] : i \in 1 .. n}]]
    BY <1>1 DEF Begin
  <2>1. {entries[i] : i \in 1 .. n} \subseteq Keys
    BY DEF CacheTypeOK
  <2>2. caller' \in [Callers -> Call]
    BY <1>c, <2>1 DEF Call, Stage
  <2>3. PromisesAreTrue'
    BY <1>a, <1>c, <1>d, <1>1, SameRoles DEF Begin, Roles, At
  <2> QED
    BY <1>b, <1>c, <1>d, <1>1, <2>2, <2>3 DEF Begin
<1>2. ASSUME NEW c \in Callers, Expire(c) PROVE CacheInv'
  <2> PICK k \in caller[c].stale, rejects \in BOOLEAN :
        LET left == [caller EXCEPT ![c].stale = @ \ {k}] IN
        /\ At(c, "expiring")
        /\ \/ /\ k \notin Cached /\ ~rejects
              /\ caller' = left /\ UNCHANGED <<entries, open>>
           \/ \E i \in 1 .. Len(entries) :
                /\ entries[i] = k /\ Evict(i)
                /\ caller' = Ended(IF rejects THEN Failing(c) ELSE left, {k})
    BY <1>2 DEF Expire
  <2>0. UNCHANGED pending
    BY <1>2 DEF Expire
  <2> DEFINE left == [caller EXCEPT ![c].stale = @ \ {k}]
  <2>1. CASE caller' = left /\ UNCHANGED <<entries, open>>
    <3>1. caller' \in [Callers -> Call]
      BY <1>c, <2>1 DEF Call
    <3>2. PromisesAreTrue'
      BY <1>a, <1>c, <1>d, <2>0, <2>1, SameRoles DEF Call, Roles
    <3> QED
      BY <1>b, <1>c, <1>d, <2>0, <2>1, <3>1, <3>2
  <2>2. ASSUME NEW i \in 1 .. Len(entries), Evict(i),
               caller' = Ended(IF rejects THEN Failing(c) ELSE left, {k})
        PROVE  CacheInv'
    <3> DEFINE m == IF rejects THEN Failing(c) ELSE left
    <3>1. m \in [Callers -> Call]
      BY <1>c DEF Failing, Call, Stage
    <3>2. \A d \in Callers : /\ m[d].key = caller[d].key
                              /\ \A stage \in Roles : m[d].at = stage <=> caller[d].at = stage
      BY <1>c DEF Failing, Call, Roles, At
    <3>3. Shelf' /\ Cached' \subseteq Cached
      BY <1>a, <2>2, EvictKeepsShelf
    <3>4. caller' \in [Callers -> Call]
      BY <2>2, <3>1, EndedKeepsRoles
    <3>5. PromisesAreTrue'
      <4>0. caller' = Ended(m, {k})
        BY <2>2
      <4> HIDE DEF m
      <4>1. \A d \in Callers :
              /\ caller'[d].key = m[d].key
              /\ \A stage \in Roles : caller'[d].at = stage <=> m[d].at = stage
        BY <4>0, <3>1, EndedKeepsRoles DEF Roles
      <4> QED
        BY <1>a, <2>0, <3>2, <3>3, <4>1, SameRoles
    <3> QED
      BY <1>b, <1>c, <2>0, <3>3, <3>4, <3>5
  <2> QED
    BY <2>1, <2>2
<1>3. ASSUME NEW c \in Callers, NEW k \in Keys, Hit(c, k) PROVE CacheInv'
  <2> PICK i \in 1 .. Len(entries) : entries[i] = k /\ entries' = Append(Dropped(i), k)
    BY <1>3 DEF Hit
  <2>1. /\ Dropped(i) \in Seq(Keys) /\ Injective(Dropped(i))
        /\ Rng(Dropped(i)) = Cached \ {k}
    BY <1>a, DroppedKeys DEF Shelf
  <2>2. entries' \in Seq(Keys) /\ Injective(entries)' /\ Cached' = Cached
    <3>1. k \notin Rng(Dropped(i)) /\ k \in Cached
      BY <2>1 DEF Cached
    <3>2. entries' \in Seq(Keys) /\ Injective(entries') /\ Rng(entries') = Cached
      BY <2>1, <3>1, AppendedKeys
    <3> QED
      BY <3>2 DEF Injective, Rng, Cached
  <2>3. Shelf'
    BY <1>a, <1>3, <2>2 DEF Shelf, PoolsAreCached, Hit
  <2>4. caller' \in [Callers -> Call]
    BY <1>c, <1>3 DEF Hit, Place, Call, Stage
  <2>5. PromisesAreTrue'
    BY <1>a, <1>c, <1>3, <2>2, SameRoles DEF Hit, Ready, Place, At, Roles, Call
  <2> QED
    BY <1>b, <1>c, <1>3, <2>3, <2>4, <2>5 DEF Hit
<1>4. ASSUME NEW c \in Callers, NEW k \in Keys, Join(c, k) PROVE CacheInv'
  <2>1. caller' \in [Callers -> Call]
    BY <1>c, <1>4 DEF Join, Place, Call, Stage
  <2>2. PromisesAreTrue'
    <3>1. \A d \in Callers, l \in Keys : Creates(d, l)' <=> Creates(d, l)
      BY <1>c, <1>4 DEF Join, Ready, Place, At, Creates, Call
    <3>2. \A d \in Callers, l \in Keys :
            Waits(d, l)' => Waits(d, l) \/ (l = k /\ pending[k] = "running")
      BY <1>c, <1>4 DEF Join, Ready, Place, At, Waits, Call
    <3> QED
      BY <1>a, <1>d, <1>4, <3>1, <3>2 DEF Join, PromisesAreTrue
  <2> QED
    BY <1>b, <1>c, <1>d, <1>4, <2>1, <2>2 DEF Join
<1>5. ASSUME NEW c \in Callers, NEW k \in Keys, Create(c, k) PROVE CacheInv'
  <2>1. caller' \in [Callers -> Call]
    BY <1>c, <1>5 DEF Create, Place, Call, Stage
  <2>2. pending' = [pending EXCEPT ![k] = "running"] /\ pending[k] = "none" /\ k \notin Cached
    BY <1>5 DEF Create, Alone
  <2>3. \A d \in Callers, l \in Keys :
          /\ Creates(d, l)' <=> Creates(d, l) \/ (d = c /\ l = k)
          /\ Waits(d, l)' <=> Waits(d, l)
    BY <1>c, <1>5 DEF Create, Alone, Ready, Place, At, Creates, Waits, Call
  <2>4. PromisesAreTrue'
    BY <1>a, <1>c, <1>d, <1>5, <2>2, <2>3 DEF Create, PromisesAreTrue
  <2> QED
    BY <1>b, <1>c, <1>d, <1>5, <2>1, <2>2, <2>4 DEF Create
<1>6. ASSUME NEW c \in Callers, NEW k \in Keys, CreateThrows(c, k) PROVE CacheInv'
  <2>1. caller' \in [Callers -> Call]
    BY <1>c, <1>6 DEF CreateThrows, Place, Call, Stage
  <2>2. pending' = [pending EXCEPT ![k] = "rejected"] /\ pending[k] = "none"
    BY <1>6 DEF CreateThrows, Alone
  <2>3. \A d \in Callers, l \in Keys :
          /\ Creates(d, l)' <=> Creates(d, l)
          /\ Waits(d, l)' <=> Waits(d, l)
    BY <1>c, <1>6 DEF CreateThrows, Alone, Ready, Place, At, Creates, Waits, Call
  <2>4. PromisesAreTrue'
    BY <1>a, <1>c, <1>d, <1>6, <2>2, <2>3 DEF CreateThrows, PromisesAreTrue
  <2> QED
    BY <1>b, <1>c, <1>d, <1>6, <2>1, <2>2, <2>4 DEF CreateThrows
<1>7. ASSUME NEW c \in Callers, NEW k \in Keys, CreateFull(c, k) PROVE CacheInv'
  <2> DEFINE m == Place(c, "evicting")
  <2>0. m \in [Callers -> Call] /\ caller' = Ended(m, {entries[1]})
    BY <1>c, <1>7 DEF CreateFull, Place, Call, Stage
  <2>1. 1 \in 1 .. Len(entries)
    BY <1>a, <1>7, CacheAssumption DEF CreateFull, Shelf
  <2>2. Shelf' /\ Cached' \subseteq Cached
    BY <1>a, <1>7, <2>1, EvictKeepsShelf DEF CreateFull
  <2>3. pending' = [pending EXCEPT ![k] = "running"] /\ pending[k] = "none" /\ k \notin Cached
    BY <1>7 DEF CreateFull, Alone
  <2>4. caller' \in [Callers -> Call]
    BY <2>0, EndedKeepsRoles
  <2>5. \A d \in Callers, l \in Keys :
          /\ Creates(d, l)' <=> Creates(d, l) \/ (d = c /\ l = k)
          /\ Waits(d, l)' <=> Waits(d, l)
    <3>1. \A d \in Callers :
            /\ caller'[d].key = m[d].key
            /\ \A stage \in {"evicting", "making", "waiting"} :
                 caller'[d].at = stage <=> m[d].at = stage
      BY <2>0, EndedKeepsRoles
    <3>2. \A d \in Callers : /\ m[d].key = caller[d].key
                              /\ m[d].at = IF d = c THEN "evicting" ELSE caller[d].at
      BY <1>c DEF Place, Call
    <3>3. caller[c].key = k /\ caller[c].at = "expiring"
      BY <1>7 DEF CreateFull, Alone, Ready, At
    <3> HIDE DEF m
    <3> QED
      BY <3>1, <3>2, <3>3 DEF Creates, Waits, At
  <2>6. PromisesAreTrue'
    BY <1>a, <1>c, <2>2, <2>3, <2>5 DEF PromisesAreTrue
  <2> QED
    BY <1>b, <1>c, <2>2, <2>3, <2>4, <2>6
<1>8. ASSUME NEW c \in Callers, EvictMore(c) PROVE CacheInv'
  <2>1. 1 \in 1 .. Len(entries)
    BY <1>a, <1>8, CacheAssumption DEF EvictMore, Shelf
  <2>2. Shelf' /\ Cached' \subseteq Cached
    BY <1>a, <1>8, <2>1, EvictKeepsShelf DEF EvictMore
  <2>3. /\ caller' \in [Callers -> Call]
        /\ \A d \in Callers :
             /\ caller'[d].key = caller[d].key
             /\ \A stage \in {"evicting", "making", "waiting"} :
                  caller'[d].at = stage <=> caller[d].at = stage
    BY <1>c, <1>8, EndedKeepsRoles DEF EvictMore
  <2>4. PromisesAreTrue'
    BY <1>a, <1>8, <2>2, <2>3, SameRoles DEF EvictMore, Roles
  <2> QED
    BY <1>b, <1>c, <1>8, <2>2, <2>3, <2>4 DEF EvictMore
<1>9. ASSUME NEW c \in Callers, EvictedEnough(c) PROVE CacheInv'
  <2>1. caller' \in [Callers -> Call]
    BY <1>c, <1>9 DEF EvictedEnough, Place, Call, Stage
  <2>2. \A d \in Callers, l \in Keys :
          /\ Creates(d, l)' <=> Creates(d, l)
          /\ Waits(d, l)' <=> Waits(d, l)
    BY <1>c, <1>9 DEF EvictedEnough, Place, At, Creates, Waits, Call
  <2>3. PromisesAreTrue'
    BY <1>a, <1>d, <1>9, <2>2 DEF EvictedEnough, PromisesAreTrue
  <2> QED
    BY <1>b, <1>c, <1>d, <1>9, <2>1, <2>3 DEF EvictedEnough
<1>s. ASSUME NEW c \in Callers, NEW stage \in {"connecting", "failing"},
             caller[c].at \in {"evicting", "making"}, Settle(c, stage),
             Cached' \subseteq Cached \cup {caller[c].key}
      PROVE  /\ caller' \in [Callers -> Call] /\ PromisesAreTrue'
             /\ pending' \in [Keys -> {"none", "running", "rejected"}]
  <2> DEFINE k == caller[c].key
  <2>0. k \in Keys /\ Creates(c, k)
    BY <1>c, <1>s DEF Call, Creates
  <2>1. caller' \in [Callers -> Call]
    BY <1>c, <1>s DEF Settle, Answered, Call, Stage
  <2>2. pending' = [pending EXCEPT ![k] = "none"]
    BY <1>s DEF Settle
  <2>3. \A d \in Callers, l \in Keys :
          /\ Creates(d, l)' <=> Creates(d, l) /\ d # c
          /\ Waits(d, l)' <=> Waits(d, l) /\ l # k
    BY <1>c, <1>s DEF Settle, Answered, At, Creates, Waits, Call
  <2>4. \A d \in Callers : Creates(d, k) => d = c
    BY <1>a, <2>0 DEF PromisesAreTrue
  <2>5. PromisesAreTrue'
    <3>1. \A l \in Keys : l # k => pending'[l] = pending[l]
      BY <1>c, <2>0, <2>2
    <3>2. pending'[k] = "none"
      BY <1>c, <2>0, <2>2
    <3>3. \A d \in Callers, l \in Keys : Creates(d, l)' => Creates(d, l) /\ l # k
      BY <2>3, <2>4
    <3>4. \A l \in Keys : pending'[l] = "running" => \E d \in Callers : Creates(d, l)'
      <4> SUFFICES ASSUME NEW l \in Keys, pending'[l] = "running"
                   PROVE  \E d \in Callers : Creates(d, l)'
        OBVIOUS
      <4>1. l # k /\ pending[l] = "running"
        BY <3>1, <3>2
      <4>2. PICK d \in Callers : Creates(d, l)
        BY <1>a, <4>1 DEF PromisesAreTrue
      <4>3. d # c
        BY <4>1, <4>2 DEF Creates
      <4> QED
        BY <2>3, <4>2, <4>3
    <3>5. \A d \in Callers, l \in Keys :
            Creates(d, l)' => pending'[l] = "running" /\ l \notin Cached'
      BY <1>a, <1>s, <3>1, <3>3 DEF PromisesAreTrue
    <3>6. \A d, e \in Callers, l \in Keys : (Creates(d, l)' /\ Creates(e, l)') => d = e
      BY <1>a, <3>3 DEF PromisesAreTrue
    <3>7. \A d \in Callers, l \in Keys : Waits(d, l)' => pending'[l] = "running"
      BY <1>a, <2>3, <3>1 DEF PromisesAreTrue
    <3> QED
      BY <3>4, <3>5, <3>6, <3>7 DEF PromisesAreTrue
  <2> QED
    BY <1>c, <2>1, <2>2, <2>5
<1>10. ASSUME NEW c \in Callers, Made(c) PROVE CacheInv'
  <2> DEFINE k == caller[c].key
  <2>1. k \in Keys /\ k \notin Cached
    BY <1>a, <1>c, <1>10 DEF Made, At, Creates, PromisesAreTrue, Call
  <2>2. entries' = Append(entries, k) /\ open' = [open EXCEPT ![k] = @ + 1]
    BY <1>10, <2>1 DEF Made
  <2>3. entries' \in Seq(Keys) /\ Injective(entries') /\ Rng(entries') = Cached \cup {k}
    BY <1>a, <2>1, <2>2, AppendedKeys DEF Shelf, Rng, Cached
  <2>4. Cached' = Cached \cup {k}
    BY <2>3 DEF Cached, Rng
  <2>5. Shelf'
    BY <1>a, <2>1, <2>2, <2>3, <2>4 DEF Shelf, PoolsAreCached, Injective
  <2> QED
    BY <1>b, <1>s, <1>10, <2>4, <2>5 DEF Made, At
<1>11. ASSUME NEW c \in Callers, CreationFails(c) PROVE CacheInv'
  BY <1>b, <1>d, <1>s, <1>11 DEF CreationFails
<1>12. ASSUME NEW c \in Callers, Leave(c) PROVE CacheInv'
  <2>1. Idle \in Call /\ Idle.at = "idle"
    BY CacheAssumption DEF Idle, Call, Stage
  <2>2. caller' = [caller EXCEPT ![c] = Idle]
    BY <1>12 DEF Leave
  <2>3. caller' \in [Callers -> Call]
    BY <1>c, <2>1, <2>2
  <2>4. PromisesAreTrue'
    BY <1>a, <1>c, <1>d, <1>12, <2>1, <2>2, SameRoles DEF Leave, Roles, Call
  <2> QED
    BY <1>b, <1>c, <1>d, <1>12, <2>3, <2>4 DEF Leave
<1>13. CASE Clear
  <2>1. entries' = <<>> /\ Cached' = {} /\ Injective(entries)'
    BY <1>13 DEF Clear, Cached, Injective
  <2>2. Shelf'
    <3>1. open' \in [Keys -> Int]
      BY <1>a, <1>13 DEF Clear, Shelf
    <3>2. \A k \in Keys : open'[k] = 0
      BY <1>a, <1>13 DEF Clear, Shelf, PoolsAreCached
    <3> QED
      BY <2>1, <3>1, <3>2 DEF Shelf, PoolsAreCached
  <2>3. /\ caller' \in [Callers -> Call]
        /\ \A d \in Callers :
             /\ caller'[d].key = caller[d].key
             /\ \A stage \in {"evicting", "making", "waiting"} :
                  caller'[d].at = stage <=> caller[d].at = stage
    BY <1>c, <1>13, EndedKeepsRoles DEF Clear
  <2>4. PromisesAreTrue'
    BY <1>a, <1>13, <2>1, <2>3, SameRoles DEF Clear, Roles
  <2> QED
    BY <1>b, <1>c, <1>13, <2>2, <2>3, <2>4 DEF Clear
<1>14. CASE UNCHANGED cache
  <2>1. UNCHANGED <<entries, open, pending, caller>>
    BY <1>14 DEF cache
  <2>2. PromisesAreTrue'
    BY <1>a, <1>d, <2>1, SameRoles
  <2> QED
    BY <1>b, <1>c, <1>d, <2>1, <2>2
<1> QED
  BY <1>1, <1>2, <1>3, <1>4, <1>5, <1>6, <1>7, <1>8, <1>9, <1>10, <1>11, <1>12, <1>13, <1>14
     DEF CacheNext, Progress

(* The invariant of the cache holds in every behaviour of it.              *)
LEMMA CacheInvariant == CacheSpec => []CacheInv
<1>1. CacheInit => CacheInv
  <2> SUFFICES ASSUME CacheInit PROVE CacheInv
    OBVIOUS
  <2>1. Idle \in Call /\ Idle.at = "idle"
    BY CacheAssumption DEF Idle, Call, Stage
  <2>2. CacheTypeOK
    BY <2>1 DEF CacheInit, CacheTypeOK
  <2>3. Cached = {} /\ Injective(entries)
    BY DEF CacheInit, Cached, Injective
  <2>4. PoolsAreCached
    BY <2>3 DEF CacheInit, PoolsAreCached
  <2>5. PromisesAreTrue
    BY <2>1 DEF CacheInit, PromisesAreTrue, Creates, Waits, At
  <2> QED
    BY <2>2, <2>3, <2>4, <2>5 DEF CacheInv
<1> QED
  BY <1>1, CacheStep, PTL DEF CacheSpec

(* No pool is leaked and none is handed out after it was disposed of.      *)
THEOREM PoolsAreNeverLeaked == CacheSpec => []PoolsAreCached
BY CacheInvariant, PTL DEF CacheInv

(* A key has one creation at a time and whoever waits shares it.           *)
THEOREM CreationsAreAlwaysShared == CacheSpec => []CreationsAreShared
<1>1. CacheInv => CreationsAreShared
  BY DEF CacheInv, PromisesAreTrue, CreationsAreShared
<1> QED
  BY <1>1, CacheInvariant, PTL

(* The duplicate-create branch of getOrCreate (pool-cache.ts:97) is dead:  *)
(* nobody stores a pool for a key while a creation for it is under way.    *)
WinnerIsNeverThere == \A c \in Callers : At(c, "making") => caller[c].key \notin Cached

(* A creation that ends finds no pool of its key (pool-cache.ts:97).       *)
THEOREM DuplicateCreateIsDead == CacheSpec => []WinnerIsNeverThere
<1>1. CacheInv => WinnerIsNeverThere
  BY DEF CacheInv, CacheTypeOK, Call, PromisesAreTrue, WinnerIsNeverThere, Creates, At
<1> QED
  BY <1>1, CacheInvariant, PTL

-----------------------------------------------------------------------------
(* ConnectionFactory uses the breaker and the cache as they are specified  *)
(* alone: every step of the composition is a step of each, or none of it.  *)
THEOREM ImplementsParts == Spec => BreakerSpec /\ CacheSpec
<1>1. Init => BreakerInit /\ CacheInit
  BY DEF Init
<1>2. [Next]_vars => [BreakerNext]_breaker /\ [CacheNext]_cache
  <2> SUFFICES ASSUME [Next]_vars PROVE [BreakerNext]_breaker /\ [CacheNext]_cache
    OBVIOUS
  <2> USE CallAssumption
  <2>1. ASSUME NEW c \in Calls, Reject(c) PROVE BreakerNext /\ UNCHANGED cache
    BY <2>1 DEF Reject, BreakerNext
  <2>2. ASSUME NEW c \in Callers, Fetch(c) PROVE CacheNext /\ UNCHANGED breaker
    BY <2>2 DEF Fetch, CacheNext
  <2>3. ASSUME NEW c \in Callers, Connect(c) PROVE BreakerNext /\ CacheNext
    BY <2>3 DEF Connect, BreakerNext, CacheNext
  <2>4. ASSUME NEW c \in Direct, AcquireDirect(c) \/ ConnectDirect(c)
        PROVE  BreakerNext /\ UNCHANGED cache
    BY <2>4 DEF AcquireDirect, ConnectDirect, BreakerNext, Direct
  <2>5. ASSUME NEW c \in Callers, NEW k \in Keys, Acquire(c, k)
        PROVE  BreakerNext /\ CacheNext
    BY <2>5 DEF Acquire, BreakerNext, CacheNext
  <2>6. CASE CloseAll
    BY <2>6 DEF CloseAll, CacheNext
  <2>7. CASE Clock \/ Other
    BY <2>7 DEF Clock, Other, BreakerNext
  <2>8. CASE UNCHANGED vars
    BY <2>8 DEF vars, breaker, cache
  <2> QED
    BY <2>1, <2>2, <2>3, <2>4, <2>5, <2>6, <2>7, <2>8 DEF Next
<1> QED
  BY <1>1, <1>2, PTL DEF Spec, BreakerSpec, CacheSpec
===============================================================================
