------------------------------ MODULE PoolCache ------------------------------
(***************************************************************************)
(* A driver adapter's BoundedPoolCache: the pools by key in the Map's      *)
(* order (least recently used first), the creations in flight, and the     *)
(* callers of acquire.  An action is what runs between two awaits.  Time   *)
(* is left out: any entry may have reached its idle TTL.                   *)
(***************************************************************************)
EXTENDS Integers, Sequences, FiniteSets

CONSTANTS
  Callers,   \* concurrent callers of acquire
  Keys,      \* connection strings with their credentials
  MaxPools   \* maxPools

ASSUME CacheAssumption == MaxPools \in Nat \ {0} /\ Keys # {}

VARIABLES
  entries,  \* keys with a pool, least recently used first
  pending,  \* Keys -> the promise kept in pending: none, running or rejected
  caller,   \* Callers -> where the call of acquire is
  open      \* Keys -> pools created and not yet given to dispose

cache == <<entries, pending, caller, open>>

(* The caller whose closure is the creation is "evicting" or "making";     *)
(* "ended": its pool was disposed of before it connected.                  *)
Stage == {"idle", "expiring", "evicting", "making", "waiting", "connecting",
          "ended", "failing"}
Call == [at : Stage, key : Keys, stale : SUBSET Keys]
Idle == [at |-> "idle", key |-> CHOOSE k \in Keys : TRUE, stale |-> {}]

CacheTypeOK ==
  /\ entries \in Seq(Keys)
  /\ pending \in [Keys -> {"none", "running", "rejected"}]
  /\ caller \in [Callers -> Call]
  /\ open \in [Keys -> Int]

Cached == {entries[i] : i \in 1 .. Len(entries)}

CacheInit ==
  /\ entries = <<>> /\ open = [k \in Keys |-> 0]
  /\ pending = [k \in Keys |-> "none"]
  /\ caller = [c \in Callers |-> Idle]

At(c, stage) == caller[c].at = stage
Place(c, stage) == [caller EXCEPT ![c].at = stage]
Failing(c) == [caller EXCEPT ![c].at = "failing", ![c].stale = {}]
Waits(c, k) == At(c, "waiting") /\ caller[c].key = k

(* c's creation settles: everybody who awaits its promise moves on with it. *)
Answered(c, stage) ==
  [d \in Callers |-> IF d = c \/ Waits(d, caller[c].key)
                     THEN [caller[d] EXCEPT !.at = stage] ELSE caller[d]]
(* The pools of ks are disposed of: who was about to connect finds it ended. *)
Ended(m, ks) ==
  [c \in Callers |-> IF m[c].at = "connecting" /\ m[c].key \in ks
                     THEN [m[c] EXCEPT !.at = "ended"] ELSE m[c]]

(* Map.delete of the entry at i.                                           *)
Dropped(i) ==
  [j \in 1 .. Len(entries) - 1 |-> IF j < i THEN entries[j] ELSE entries[j + 1]]

(* Mutant of Evict: the entry goes, its pool is forgotten.                 *)
EvictOnly(i) == entries' = Dropped(i) /\ UNCHANGED open

(* evictKey: the entry goes and its pool is given to dispose.              *)
Evict(i) ==
  entries' = Dropped(i) /\ open' = [open EXCEPT ![entries[i]] = @ - 1]

-----------------------------------------------------------------------------
(* getOrCreate up to its first await: the entries past the idle TTL, which *)
(* are the least recently used ones.                                       *)
Begin(c, k) ==
  /\ At(c, "idle")
  /\ \E n \in 0 .. Len(entries) :
       caller' = [caller EXCEPT ![c] =
         [at |-> "expiring", key |-> k, stale |-> {entries[i] : i \in 1 .. n}]]
  /\ UNCHANGED <<entries, pending, open>>

(* evictExpired, one key; the caller fails when dispose rejects.           *)
Expire(c) ==
  \E k \in caller[c].stale, rejects \in BOOLEAN :
    LET left == [caller EXCEPT ![c].stale = @ \ {k}] IN
    /\ At(c, "expiring")
    /\ \/ /\ k \notin Cached /\ ~rejects
          /\ caller' = left /\ UNCHANGED <<entries, open>>
       \/ \E i \in 1 .. Len(entries) :
            /\ entries[i] = k /\ Evict(i)
            /\ caller' = Ended(IF rejects THEN Failing(c) ELSE left, {k})
    /\ UNCHANGED pending

Ready(c, k) == At(c, "expiring") /\ caller[c].stale = {} /\ caller[c].key = k

(* peek finds a pool, which becomes the most recently used.                *)
Hit(c, k) ==
  /\ Ready(c, k)
  /\ \E i \in 1 .. Len(entries) :
       entries[i] = k /\ entries' = Append(Dropped(i), k)
  /\ caller' = Place(c, "connecting")
  /\ UNCHANGED <<pending, open>>

(* Another call is creating it: share its promise, settled or not.         *)
Join(c, k) ==
  /\ Ready(c, k) /\ k \notin Cached /\ pending[k] # "none"
  /\ caller' = Place(c, IF pending[k] = "running" THEN "waiting" ELSE "failing")
  /\ UNCHANGED <<entries, pending, open>>

(* Mutant of Alone: pending is not looked at.                              *)
AloneUnchecked(c, k) == Ready(c, k) /\ k \notin Cached

Alone(c, k) == Ready(c, k) /\ k \notin Cached /\ pending[k] = "none"

(* The creation starts at once below the cap, and create() returns ...     *)
Create(c, k) ==
  /\ Alone(c, k) /\ Len(entries) < MaxPools
  /\ pending' = [pending EXCEPT ![k] = "running"]
  /\ caller' = Place(c, "making")
  /\ UNCHANGED <<entries, open>>

(* ... or throws, the driver being missing: its finally block has run      *)
(* before pending.set does.                                                *)
CreateThrows(c, k) ==
  /\ Alone(c, k) /\ Len(entries) < MaxPools
  /\ pending' = [pending EXCEPT ![k] = "rejected"]
  /\ caller' = Place(c, "failing")
  /\ UNCHANGED <<entries, open>>

(* At the cap the oldest entry is disposed of first.                       *)
CreateFull(c, k) ==
  /\ Alone(c, k) /\ Len(entries) >= MaxPools
  /\ pending' = [pending EXCEPT ![k] = "running"]
  /\ Evict(1)
  /\ caller' = Ended(Place(c, "evicting"), {entries[1]})

(* The creation looks again once the dispose it awaited is done.           *)
EvictMore(c) ==
  /\ At(c, "evicting") /\ Len(entries) >= MaxPools
  /\ Evict(1) /\ caller' = Ended(caller, {entries[1]})
  /\ UNCHANGED pending
EvictedEnough(c) ==
  /\ At(c, "evicting") /\ Len(entries) < MaxPools
  /\ caller' = Place(c, "making")
  /\ UNCHANGED <<entries, pending, open>>

(* The end of the creation, and its finally block.                         *)
Settle(c, stage) ==
  /\ pending' = [pending EXCEPT ![caller[c].key] = "none"]
  /\ caller' = Answered(c, stage)

(* The new pool is stored, unless another one was in the meantime.         *)
Made(c) ==
  LET k == caller[c].key IN
  /\ At(c, "making")
  /\ entries' = IF k \in Cached THEN entries ELSE Append(entries, k)
  /\ open' = IF k \in Cached THEN open ELSE [open EXCEPT ![k] = @ + 1]
  /\ Settle(c, "connecting")

(* A dispose, the driver or the connect rejected.                          *)
CreationFails(c) ==
  /\ caller[c].at \in {"evicting", "making"}
  /\ Settle(c, "failing")
  /\ UNCHANGED <<entries, open>>

(* The caller has its connection, or its error.                            *)
Leave(c) ==
  /\ caller[c].at \in {"connecting", "ended", "failing"}
  /\ caller' = [caller EXCEPT ![c] = Idle]
  /\ UNCHANGED <<entries, pending, open>>

(* clear(), from closeAll: creations in flight go on.                      *)
Clear ==
  /\ entries # <<>> /\ entries' = <<>>
  /\ open' = [k \in Keys |-> IF k \in Cached THEN open[k] - 1 ELSE open[k]]
  /\ caller' = Ended(caller, Cached)
  /\ UNCHANGED pending

Progress(c) ==
  \/ Expire(c)
  \/ \E k \in Keys : \/ Hit(c, k) \/ Join(c, k) \/ Create(c, k)
                     \/ CreateThrows(c, k) \/ CreateFull(c, k)
  \/ EvictMore(c) \/ EvictedEnough(c) \/ Made(c) \/ CreationFails(c)

CacheNext ==
  \/ \E c \in Callers, k \in Keys : Begin(c, k)
  \/ \E c \in Callers : Progress(c) \/ Leave(c)
  \/ Clear

CacheSpec == CacheInit /\ [][CacheNext]_cache

-----------------------------------------------------------------------------
(* A pool that was created and not disposed of is in the cache, and a pool *)
(* in the cache was not disposed of: none is leaked by creations and       *)
(* evictions that overlap, and none is handed out again once ended.        *)
PoolsAreCached ==
  \A k \in Keys : open[k] = IF k \in Cached THEN 1 ELSE 0

Creates(c, k) == caller[c].at \in {"evicting", "making"} /\ caller[c].key = k

(* "Concurrent getOrCreate for the same key share one pool"                *)
(* (pool-cache.ts:38): a key has one creation at most, and whoever waits   *)
(* for its promise waits for a creation that is under way.                 *)
CreationsAreShared ==
  \A k \in Keys :
    /\ \A c, d \in Callers : (Creates(c, k) /\ Creates(d, k)) => c = d
    /\ \A c \in Callers : Waits(c, k) => \E d \in Callers : Creates(d, k)
=============================================================================
