--------------------------- MODULE ResponseCache ---------------------------
(***************************************************************************)
(* The API response cache (internal/cache/cache.go): a map with a maximum  *)
(* size, one time to live for all entries, removal of expired entries when *)
(* a Get meets them, and eviction of the entry with the lowest insertIdx.  *)
(*                                                                         *)
(* Every critical section of c.mu is one action.  Get has two: it reads    *)
(* under the read lock and, when it met an expired entry, takes the write  *)
(* lock (Drop) and looks again.  All entries live equally long, so they    *)
(* expire in the order in which they were set.                             *)
(***************************************************************************)
EXTENDS Integers, FiniteSets

CONSTANTS Key, Val, Path, Under, Miss,   \* as in CacheContract
          MaxEntries,                    \* maxEntries
          Reader,                        \* concurrent calls of Get
          MaxSets                        \* bound on the number of Sets

ASSUME CacheAssumption ==
  /\ IsFiniteSet(Key)
  /\ Under \in [Path -> SUBSET Key]
  /\ Miss \notin Val
  /\ MaxEntries \in Nat
  /\ MaxSets \in Nat

VARIABLES items,       \* the keys in the map
          resp,        \* entry.resp, of the keys in items
          insertIdx,   \* entry.insertIdx, of the keys in items
          fresh,       \* the keys in items whose expiry is in the future
          nextIdx,
          pc, key,     \* the calls of Get that met an expired entry
          answer       \* the result of the last Get

vars == <<items, resp, insertIdx, fresh, nextIdx, pc, key, answer>>

TypeOK ==
  /\ items \subseteq Key
  /\ resp \in [Key -> Val]
  /\ insertIdx \in [Key -> Nat]
  /\ fresh \subseteq items
  /\ nextIdx \in 0..MaxSets
  /\ pc \in [Reader -> {"idle", "drop"}]
  /\ key \in [Reader -> Key]
  /\ answer \in Val \cup {Miss}

Init ==
  /\ items = {}
  /\ resp \in [Key -> Val]
  /\ insertIdx = [k \in Key |-> 0]
  /\ fresh = {}
  /\ nextIdx = 0
  /\ pc = [r \in Reader |-> "idle"]
  /\ key \in [Reader -> Key]
  /\ answer = Miss
-----------------------------------------------------------------------------
\* The entry evictOldest removes: the lowest insertIdx.
EvictOldest(S) ==
  IF S = {} THEN {} ELSE {CHOOSE k \in S : \A j \in S : insertIdx[k] <= insertIdx[j]}

\* Get as it would be if it did not look at the expiry.
GetExpired(r, k) ==
  /\ pc[r] = "idle"
  /\ answer' = IF k \in items THEN resp[k] ELSE Miss
  /\ key' = [key EXCEPT ![r] = k]
  /\ UNCHANGED <<items, resp, insertIdx, fresh, nextIdx, pc>>

\* Get, under the read lock.
Get(r, k) ==
  /\ pc[r] = "idle"
  /\ answer' = IF k \in fresh THEN resp[k] ELSE Miss
  /\ pc' = [pc EXCEPT ![r] = IF k \in items \ fresh THEN "drop" ELSE "idle"]
  /\ key' = [key EXCEPT ![r] = k]
  /\ UNCHANGED <<items, resp, insertIdx, fresh, nextIdx>>

\* Drop as it would be if it did not look at the entry again.
DropAnyway(r) ==
  /\ pc[r] = "drop"
  /\ items' = items \ {key[r]}
  /\ fresh' = fresh \ {key[r]}
  /\ pc' = [pc EXCEPT ![r] = "idle"]
  /\ UNCHANGED <<resp, insertIdx, nextIdx, key, answer>>

\* Get, under the write lock: the entry is removed if it is still expired.
Drop(r) ==
  /\ pc[r] = "drop"
  /\ items' = IF key[r] \in fresh THEN items ELSE items \ {key[r]}
  /\ pc' = [pc EXCEPT ![r] = "idle"]
  /\ UNCHANGED <<resp, insertIdx, fresh, nextIdx, key, answer>>

\* Set as it would be if it evicted only above the capacity.
SetLate(k, v) ==
  /\ nextIdx < MaxSets
  /\ LET kept == IF k \in items \/ Cardinality(items) <= MaxEntries
                 THEN items ELSE items \ EvictOldest(items)
     IN  /\ items' = kept \cup {k}
         /\ fresh' = (fresh \cap kept) \cup {k}
  /\ resp' = [resp EXCEPT ![k] = v]
  /\ insertIdx' = [insertIdx EXCEPT ![k] = nextIdx]
  /\ nextIdx' = nextIdx + 1
  /\ UNCHANGED <<pc, key, answer>>

\* A new key evicts the oldest entry when the map is full.
Set(k, v) ==
  /\ nextIdx < MaxSets
  /\ LET kept == IF k \in items \/ Cardinality(items) < MaxEntries
                 THEN items ELSE items \ EvictOldest(items)
     IN  /\ items' = kept \cup {k}
         /\ fresh' = (fresh \cap kept) \cup {k}
  /\ resp' = [resp EXCEPT ![k] = v]
  /\ insertIdx' = [insertIdx EXCEPT ![k] = nextIdx]
  /\ nextIdx' = nextIdx + 1
  /\ UNCHANGED <<pc, key, answer>>

\* All keys that contain the path go, whoever's they are.
InvalidatePrefix(p) ==
  /\ items' = items \ Under[p]
  /\ fresh' = fresh \ Under[p]
  /\ UNCHANGED <<resp, insertIdx, nextIdx, pc, key, answer>>

\* Time passes: the live entry that was set first expires.
Expire(k) ==
  /\ k \in fresh
  /\ \A j \in fresh : insertIdx[k] <= insertIdx[j]
  /\ fresh' = fresh \ {k}
  /\ UNCHANGED <<items, resp, insertIdx, nextIdx, pc, key, answer>>

Next ==
  \/ \E r \in Reader, k \in Key : Get(r, k)
  \/ \E r \in Reader : Drop(r)
  \/ \E k \in Key, v \in Val : Set(k, v)
  \/ \E p \in Path : InvalidatePrefix(p)
  \/ \E k \in Key : Expire(k)

Spec == Init /\ [][Next]_vars
-----------------------------------------------------------------------------
\* The map never outgrows maxEntries, whatever the calls and their order (a
\* maximum of 0 still leaves room for one entry: Set evicts before it adds).
Bounded == Cardinality(items) <= IF MaxEntries = 0 THEN 1 ELSE MaxEntries

\* A response that is still fresh leaves the map only by the invalidation of its
\* path, or evicted by a Set that found the map full of fresh ones. So a Get that
\* met an expired entry removes no response stored while it waited for the write
\* lock, and Set evicts nothing fresh while an expired entry takes up room: the
\* order of insertIdx is the order of expiry, through updates in place.
FreshStays ==
  [][\A k \in fresh \ items' :
       \/ nextIdx' # nextIdx /\ Cardinality(items) >= MaxEntries /\ items \subseteq fresh
       \/ \E p \in Path : InvalidatePrefix(p) /\ k \in Under[p]]_vars

\* The cache seen through Get.
Contract == INSTANCE CacheContract WITH
              content <- [k \in Key |-> IF k \in fresh THEN resp[k] ELSE Miss]

\* Every step of the map is one the contract allows: a hit is the response set
\* last, and no later invalidation covers it.
KeepsContract == Contract!CacheSpec
=============================================================================
