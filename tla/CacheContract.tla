--------------------------- MODULE CacheContract ---------------------------
(***************************************************************************)
(* What a user of ResponseCache (internal/cache/cache.go) may rely on: a   *)
(* hit returns the last response stored under its key, and nothing stored  *)
(* before an invalidation that covers the key.  Entries may disappear at   *)
(* any time, by expiry or eviction.                                        *)
(***************************************************************************)
CONSTANTS Key,     \* cache keys, "userID:method:path"
          Val,     \* responses
          Path,    \* what InvalidatePrefix is called with
          Under,   \* the keys that contain a path
          Miss     \* no entry

VARIABLES content,   \* the response a Get would return, or Miss
          answer     \* the result of the last Get

CacheInit ==
  /\ content = [k \in Key |-> Miss]
  /\ answer = Miss

Fetch(k) ==
  /\ answer' = content[k]
  /\ UNCHANGED content

\* Storing under k may cost any other entries.
Store(k, v) ==
  /\ \E lost \in SUBSET (Key \ {k}) :
       content' = [j \in Key |-> IF j = k THEN v ELSE IF j \in lost THEN Miss ELSE content[j]]
  /\ UNCHANGED answer

Clear(p) ==
  /\ content' = [j \in Key |-> IF j \in Under[p] THEN Miss ELSE content[j]]
  /\ UNCHANGED answer

\* The time to live of k's entry ends.
Lose(k) ==
  /\ content[k] # Miss
  /\ content' = [content EXCEPT ![k] = Miss]
  /\ UNCHANGED answer

CacheNext ==
  \/ \E k \in Key : Fetch(k) \/ Lose(k)
  \/ \E k \in Key, v \in Val : Store(k, v)
  \/ \E p \in Path : Clear(p)

CacheSpec == CacheInit /\ [][CacheNext]_<<content, answer>>
=============================================================================
