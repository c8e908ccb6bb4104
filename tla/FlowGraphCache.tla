--------------------------- MODULE FlowGraphCache ----------------------------
(***************************************************************************)
(* FlowGraphCache of optimizations.rs: a concurrent map from graph hashes  *)
(* to orders of transactions, and an access order under a lock of its own. *)
(* One action per access of one of the two; calls interleave between them. *)
(* The cached orders and the statistics are left out, and the map's len    *)
(* and clear, which go shard by shard, are one access.                     *)
(***************************************************************************)
EXTENDS Integers, FiniteSets, Sequences, SequencesExt

CONSTANTS
  CacheCalls,     \* slots of the concurrent calls
  GraphHashes,
  MaxSize,        \* max_size
  NoHash,         \* no hash that an eviction has taken
  MaxOrder        \* bound on the length of the access order

ASSUME CacheAssumption == MaxSize \in Nat /\ MaxOrder \in Nat /\ NoHash \notin GraphHashes

VARIABLES
  cached,         \* the keys of cache
  accessOrder,    \* access_order
  cacheCalls,     \* slot -> where its call is, its hash, and the hash it evicts
  overtaken       \* hashes put while a clear was between its two accesses

cacheVars == <<cached, accessOrder, cacheCalls, overtaken>>

CacheCall(at, hash, victim) == [at |-> at, hash |-> hash, victim |-> victim]
NoCacheCall == CacheCall("returned", NoHash, NoHash)
InCall(c, at) == cacheCalls[c].at = at
CacheGoes(c, at) == cacheCalls' = [cacheCalls EXCEPT ![c].at = at]
CacheReturns(c) == cacheCalls' = [cacheCalls EXCEPT ![c] = NoCacheCall]
CacheClearing == \E c \in CacheCalls : InCall(c, "clear order")

CacheInit ==
  /\ cached = {} /\ accessOrder = << >> /\ overtaken = {}
  /\ cacheCalls = [c \in CacheCalls |-> NoCacheCall]

-----------------------------------------------------------------------------
(* get: a hit is touched after the entry was let go; a miss changes nothing.*)
GetHit(c, hash) ==
  /\ InCall(c, "returned") /\ hash \in cached
  /\ cacheCalls' = [cacheCalls EXCEPT ![c] = CacheCall("touch", hash, NoHash)]
  /\ UNCHANGED <<cached, accessOrder, overtaken>>

TouchHash(c) ==
  LET hash == cacheCalls[c].hash
  IN  /\ InCall(c, "touch")
      /\ hash \in ToSet(accessOrder) \/ Len(accessOrder) < MaxOrder
      /\ accessOrder' = Append(RemoveFirst(accessOrder, hash), hash)
      /\ CacheReturns(c)
      /\ UNCHANGED <<cached, overtaken>>

(* put: first the size is read, then, if the cache is full, whether it has  *)
(* the hash.                                                                *)
PutHash(c, hash) ==
  /\ InCall(c, "returned")
  /\ cacheCalls' = [cacheCalls EXCEPT ![c] =
       CacheCall(IF Cardinality(cached) >= MaxSize THEN "full" ELSE "insert", hash, NoHash)]
  /\ UNCHANGED <<cached, accessOrder, overtaken>>

LookForHash(c) ==
  /\ InCall(c, "full")
  /\ CacheGoes(c, IF cacheCalls[c].hash \in cached THEN "insert" ELSE "pop")
  /\ UNCHANGED <<cached, accessOrder, overtaken>>

(* evict_lru: the oldest hash is taken from the order, then from the map.   *)
PopOldest(c) ==
  /\ InCall(c, "pop")
  /\ IF accessOrder = << >>
     THEN CacheGoes(c, "insert") /\ UNCHANGED accessOrder
     ELSE /\ cacheCalls' = [cacheCalls EXCEPT ![c].at = "evict", ![c].victim = Head(accessOrder)]
          /\ accessOrder' = Tail(accessOrder)
  /\ UNCHANGED <<cached, overtaken>>

EvictHash(c) ==
  /\ InCall(c, "evict")
  /\ cached' = cached \ {cacheCalls[c].victim}
  /\ cacheCalls' = [cacheCalls EXCEPT ![c].at = "insert", ![c].victim = NoHash]
  /\ UNCHANGED <<accessOrder, overtaken>>

InsertHash(c) == cached' = cached \cup {cacheCalls[c].hash} /\ UNCHANGED <<accessOrder, overtaken>>

PushHash(c) ==
  /\ Len(accessOrder) < MaxOrder
  /\ accessOrder' = Append(accessOrder, cacheCalls[c].hash)
  /\ overtaken' = IF CacheClearing THEN overtaken \cup {cacheCalls[c].hash}
                              ELSE overtaken \ {cacheCalls[c].hash}
  /\ UNCHANGED cached

(* Mutant: the order is told before the map has the entry.                  *)
StoreHashPushedFirst(c) ==
  \/ InCall(c, "insert") /\ PushHash(c) /\ CacheGoes(c, "push")
  \/ InCall(c, "push") /\ InsertHash(c) /\ CacheReturns(c)

(* The entry goes into the map, then its hash to the end of the order, also *)
(* when the order already has it.                                           *)
StoreHash(c) ==
  \/ InCall(c, "insert") /\ InsertHash(c) /\ CacheGoes(c, "push")
  \/ InCall(c, "push") /\ PushHash(c) /\ CacheReturns(c)

ClearCache(c) ==
  /\ InCall(c, "returned")
  /\ cached' = {}
  /\ cacheCalls' = [cacheCalls EXCEPT ![c] = CacheCall("clear order", NoHash, NoHash)]
  /\ UNCHANGED <<accessOrder, overtaken>>

ClearOrder(c) ==
  /\ InCall(c, "clear order")
  /\ accessOrder' = << >>
  /\ CacheReturns(c)
  /\ UNCHANGED <<cached, overtaken>>

CacheNext ==
  \E c \in CacheCalls :
    \/ \E hash \in GraphHashes : GetHit(c, hash) \/ PutHash(c, hash)
    \/ TouchHash(c) \/ LookForHash(c) \/ PopOldest(c) \/ EvictHash(c) \/ StoreHash(c)
    \/ ClearCache(c) \/ ClearOrder(c)

-----------------------------------------------------------------------------
(* Safety: however puts, hits and evictions interleave, no entry is lost    *)
(* for eviction: the access order has its hash, or a put is about to add    *)
(* it, or an eviction that took it is about to remove the entry.  Only an   *)
(* entry put while a clear is between its two accesses may stay for ever.   *)
CachedIsEvictable ==
  \A hash \in cached \ overtaken :
    \/ hash \in ToSet(accessOrder)
    \/ \E c \in CacheCalls : InCall(c, "push") /\ cacheCalls[c].hash = hash
    \/ \E c \in CacheCalls : cacheCalls[c].victim = hash
=============================================================================
