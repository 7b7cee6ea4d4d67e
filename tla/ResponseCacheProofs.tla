------------------------ MODULE ResponseCacheProofs ------------------------
(***************************************************************************)
(* Proofs about the response cache, for every set of keys, responses and   *)
(* readers and every capacity.                                             *)
(***************************************************************************)
EXTENDS ResponseCache, FiniteSetTheorems, TLAPS

\* evictOldest empties nothing but one entry, and that one is the oldest.
LEMMA EvictsOne ==
  ASSUME NEW S, S \subseteq Key, S # {}, insertIdx \in [Key -> Nat]
  PROVE  \E k \in S : EvictOldest(S) = {k} /\ \A j \in S : insertIdx[k] <= insertIdx[j]
<1> DEFINE Idx == {insertIdx[j] : j \in S}
<1>1. Idx \subseteq Nat /\ Idx # {}
  OBVIOUS
<1>2. \E n \in Idx : \A m \in Idx : n <= m
  <2>1. \A T \in SUBSET Nat : T # {} => \E n \in T : \A m \in T : n <= m
    <3> SUFFICES ASSUME NEW T \in SUBSET Nat, T # {}
                 PROVE  \E n \in T : \A m \in T : n <= m
      OBVIOUS
    <3> DEFINE R == {ss \in Nat \X Nat : ss[1] < ss[2]}
    <3>1. IsWellFoundedOn(R, Nat)
      BY NatLessThanWellFounded DEF OpToRel
    <3> HIDE DEF R
    <3>2. PICK n \in T : \A m \in T : <<m, n>> \notin R
      BY <3>1, WFMin, ZenonT(60)
    <3>3. ASSUME NEW m \in T PROVE n <= m
      <4>1. <<m, n>> \in Nat \X Nat /\ ~(m < n)
        BY <3>2 DEF R
      <4>2. QED
        BY <4>1
    <3>4. QED
      BY <3>3
  <2>2. QED
    BY <1>1, <2>1, ZenonT(60)
<1>3. PICK k \in S : \A j \in S : insertIdx[k] <= insertIdx[j]
  BY <1>2
<1>4. QED
  BY <1>3, ZenonT(60) DEF EvictOldest

\* TypeOK is an invariant.
THEOREM TypeCorrect == Spec => []TypeOK
<1>1. Init => TypeOK
  BY CacheAssumption DEF Init, TypeOK
<1>2. TypeOK /\ [Next]_vars => TypeOK'
  <2> SUFFICES ASSUME TypeOK, [Next]_vars PROVE TypeOK'
    OBVIOUS
  <2> USE CacheAssumption DEF TypeOK
  <2>1. ASSUME NEW r \in Reader, NEW k \in Key, Get(r, k) PROVE TypeOK'
    BY <2>1 DEF Get
  <2>2. ASSUME NEW r \in Reader, Drop(r) PROVE TypeOK'
    BY <2>2 DEF Drop
  <2>3. ASSUME NEW k \in Key, NEW v \in Val, Set(k, v) PROVE TypeOK'
    <3>1. \A S : items \ S \subseteq Key
      OBVIOUS
    <3>2. QED
      BY <2>3, <3>1 DEF Set
  <2>4. ASSUME NEW p \in Path, InvalidatePrefix(p) PROVE TypeOK'
    BY <2>4 DEF InvalidatePrefix
  <2>5. ASSUME NEW k \in Key, Expire(k) PROVE TypeOK'
    BY <2>5 DEF Expire
  <2>6. CASE UNCHANGED vars
    BY <2>6 DEF vars
  <2>7. QED
    BY <2>1, <2>2, <2>3, <2>4, <2>5, <2>6 DEF Next
<1>3. QED
  BY <1>1, <1>2, PTL DEF Spec

\* The size bound survives a Set: the evicted entry makes room for the new one.
LEMMA SetBounded ==
  ASSUME TypeOK, Bounded, NEW k \in Key, NEW v \in Val, Set(k, v)
  PROVE  Bounded'
<1>1. IsFiniteSet(items) /\ Cardinality(items) \in Nat
  BY CacheAssumption, FS_Subset, FS_CardinalityType DEF TypeOK
<1>2. CASE k \in items
  <2>1. items' = items
    BY <1>2 DEF Set
  <2>2. QED
    BY <2>1 DEF Bounded
<1>3. CASE k \notin items /\ Cardinality(items) < MaxEntries
  <2>1. items' = items \cup {k}
    BY <1>3 DEF Set
  <2>2. Cardinality(items') = Cardinality(items) + 1
    BY <1>1, <1>3, <2>1, FS_AddElement, SMTT(60)
  <2>3. QED
    BY <1>1, <1>3, <2>2, CacheAssumption DEF Bounded
<1>4. CASE k \notin items /\ ~(Cardinality(items) < MaxEntries) /\ items = {}
  <2>1. items' = {k}
    BY <1>4 DEF Set, EvictOldest
  <2>2. Cardinality(items) = 0 /\ Cardinality(items') = 1
    BY <1>4, <2>1, FS_EmptySet, FS_Singleton, ZenonT(60)
  <2>3. MaxEntries = 0
    BY <1>4, <2>2, CacheAssumption
  <2>4. QED
    BY <2>2, <2>3 DEF Bounded
<1>5. CASE k \notin items /\ ~(Cardinality(items) < MaxEntries) /\ items # {}
  <2>1. PICK old \in items : EvictOldest(items) = {old}
    BY <1>5, EvictsOne DEF TypeOK
  <2>2. items' = (items \ {old}) \cup {k}
    BY <1>5, <2>1 DEF Set
  <2>3. IsFiniteSet(items \ {old}) /\ Cardinality(items \ {old}) = Cardinality(items) - 1
    BY <1>1, FS_RemoveElement
  <2> DEFINE rest == items \ {old}
  <2>4. IsFiniteSet(rest) /\ k \notin rest
    BY <1>5, <2>3
  <2> HIDE DEF rest
  <2>5. Cardinality(rest \cup {k}) = Cardinality(rest) + 1
    BY <2>4, FS_AddElement, ZenonT(60)
  <2>6. Cardinality(items') = Cardinality(items)
    BY <1>1, <2>2, <2>3, <2>5 DEF rest
  <2>7. QED
    BY <2>6 DEF Bounded
<1>6. QED
  BY <1>2, <1>3, <1>4, <1>5

\* The map never outgrows maxEntries: every other step only removes keys.
THEOREM CacheBounded == Spec => []Bounded
<1>1. Init => Bounded
  BY CacheAssumption, FS_EmptySet DEF Init, Bounded
<1>2. TypeOK /\ Bounded /\ [Next]_vars => Bounded'
  <2> SUFFICES ASSUME TypeOK, Bounded, [Next]_vars PROVE Bounded'
    OBVIOUS
  <2>1. CASE \E k \in Key, v \in Val : Set(k, v)
    BY <2>1, SetBounded
  <2>2. CASE items' \subseteq items
    <3>1. IsFiniteSet(items)
      BY CacheAssumption, FS_Subset DEF TypeOK
    <3>2. /\ Cardinality(items') \in Nat
          /\ Cardinality(items) \in Nat
          /\ Cardinality(items') <= Cardinality(items)
      BY <2>2, <3>1, FS_Subset, FS_CardinalityType
    <3>3. QED
      BY <3>2, CacheAssumption DEF Bounded
  <2>3. (\E k \in Key, v \in Val : Set(k, v)) \/ items' \subseteq items
    BY DEF Next, vars, Get, Drop, InvalidatePrefix, Expire
  <2>4. QED
    BY <2>1, <2>2, <2>3
<1>3. QED
  BY <1>1, <1>2, TypeCorrect, PTL DEF Spec

\* The entries by age: indices are distinct and below the next one, and what has
\* expired is older than what has not.
AgeInv ==
  /\ \A j \in items : insertIdx[j] < nextIdx
  /\ \A j, k \in items : insertIdx[j] = insertIdx[k] => j = k
  /\ \A j \in items \ fresh, k \in fresh : insertIdx[j] < insertIdx[k]

\* The order of insertion and of expiry agree in every reachable cache.
LEMMA AgeInvariant == Spec => []AgeInv
<1>1. Init => AgeInv
  BY DEF Init, AgeInv
<1>2. TypeOK /\ AgeInv /\ [Next]_vars => AgeInv'
  <2> SUFFICES ASSUME TypeOK, AgeInv, [Next]_vars PROVE AgeInv'
    OBVIOUS
  <2> USE DEF TypeOK, AgeInv
  <2>1. ASSUME NEW r \in Reader, NEW k \in Key, Get(r, k) PROVE AgeInv'
    BY <2>1 DEF Get
  <2>2. ASSUME NEW r \in Reader, Drop(r) PROVE AgeInv'
    BY <2>2 DEF Drop
  <2>3. ASSUME NEW k \in Key, NEW v \in Val, Set(k, v) PROVE AgeInv'
    <3>1. PICK kept \in SUBSET items : items' = kept \cup {k} /\ fresh' = (fresh \cap kept) \cup {k}
      BY <2>3, ZenonT(60) DEF Set
    <3>2. insertIdx' = [insertIdx EXCEPT ![k] = nextIdx] /\ nextIdx' = nextIdx + 1
      BY <2>3 DEF Set
    <3>3. \A j \in items' : j # k => j \in items /\ insertIdx'[j] = insertIdx[j]
      BY <3>1, <3>2
    <3>4. insertIdx'[k] = nextIdx
      BY <3>2
    <3>5. \A j \in items' : j # k => insertIdx'[j] < nextIdx
      BY <3>3
    <3>6. \A j \in items' : insertIdx'[j] < nextIdx'
      BY <3>2, <3>3, <3>4, <3>5
    <3>7. \A j, m \in items' : insertIdx'[j] = insertIdx'[m] => j = m
      BY <3>3, <3>4, <3>5
    <3>8. \A j \in items' \ fresh', m \in fresh' : insertIdx'[j] < insertIdx'[m]
      BY <3>1, <3>3, <3>4, <3>5
    <3>9. QED
      BY <3>6, <3>7, <3>8
  <2>4. ASSUME NEW p \in Path, InvalidatePrefix(p) PROVE AgeInv'
    BY <2>4 DEF InvalidatePrefix
  <2>5. ASSUME NEW k \in Key, Expire(k) PROVE AgeInv'
    BY <2>5 DEF Expire
  <2>6. CASE UNCHANGED vars
    BY <2>6 DEF vars
  <2>7. QED
    BY <2>1, <2>2, <2>3, <2>4, <2>5, <2>6, SMTT(60) DEF Next
<1>3. QED
  BY <1>1, <1>2, TypeCorrect, PTL DEF Spec

\* A fresh response goes only when its path is invalidated or no expired one
\* takes up room: Drop looks at the entry again, and the evicted entry is the
\* oldest, before which AgeInv puts every expired one.
THEOREM FreshOnesStay == Spec => FreshStays
<1> DEFINE Step ==
             \A k \in fresh \ items' :
               \/ nextIdx' # nextIdx /\ Cardinality(items) >= MaxEntries /\ items \subseteq fresh
               \/ \E p \in Path : InvalidatePrefix(p) /\ k \in Under[p]
<1>1. TypeOK /\ AgeInv /\ [Next]_vars => [Step]_vars
  <2> SUFFICES ASSUME TypeOK, AgeInv, Next, NEW old \in fresh \ items'
               PROVE
                 \/ nextIdx' # nextIdx /\ Cardinality(items) >= MaxEntries /\ items \subseteq fresh
                 \/ \E p \in Path : InvalidatePrefix(p) /\ old \in Under[p]
    OBVIOUS
  <2>1. old \in items
    BY DEF TypeOK
  <2>2. CASE \E k \in Key, v \in Val : Set(k, v)
    <3>1. PICK k \in Key, v \in Val : Set(k, v)
      BY <2>2
    <3>2. nextIdx' # nextIdx
      BY <3>1, CacheAssumption DEF Set, TypeOK
    <3>3. old \in EvictOldest(items) /\ ~(Cardinality(items) < MaxEntries)
      BY <2>1, <3>1 DEF Set
    <3>4. Cardinality(items) \in Nat
      BY CacheAssumption, FS_Subset, FS_CardinalityType DEF TypeOK
    <3>5. \A j \in items : insertIdx[old] <= insertIdx[j]
      BY <2>1, <3>3, EvictsOne DEF TypeOK
    <3>6. items \subseteq fresh
      BY <2>1, <3>5 DEF AgeInv, TypeOK
    <3>7. Cardinality(items) >= MaxEntries
      BY <3>3, <3>4, CacheAssumption
    <3>8. QED
      BY <3>2, <3>6, <3>7
  <2>3. CASE \E p \in Path : InvalidatePrefix(p)
    <3>1. PICK p \in Path : InvalidatePrefix(p)
      BY <2>3
    <3>2. old \in Under[p]
      BY <2>1, <3>1 DEF InvalidatePrefix
    <3>3. QED
      BY <3>1, <3>2
  <2>4. ASSUME NEW r \in Reader, Drop(r) PROVE FALSE
    BY <2>1, <2>4 DEF Drop
  <2>5. CASE (\E r \in Reader, k \in Key : Get(r, k)) \/ (\E k \in Key : Expire(k))
    BY <2>1, <2>5 DEF Get, Expire
  <2>6. QED
    BY <2>2, <2>3, <2>4, <2>5, Zenon DEF Next
<1>2. QED
  BY <1>1, TypeCorrect, AgeInvariant, PTL DEF Spec, FreshStays

\* The cache implements its contract: a hit returns what was set last, and
\* eviction, expiry and lazy removal only ever lose entries.
THEOREM CacheKeepsContract == Spec => KeepsContract
<1> DEFINE content == [k \in Key |-> IF k \in fresh THEN resp[k] ELSE Miss]
           seenVars == <<content, answer>>
<1>1. Init => Contract!CacheInit
  BY DEF Init, Contract!CacheInit
<1>2. TypeOK /\ [Next]_vars => [Contract!CacheNext]_seenVars
  <2> SUFFICES ASSUME TypeOK, [Next]_vars
               PROVE  Contract!CacheNext \/ UNCHANGED seenVars
    OBVIOUS
  <2> USE CacheAssumption DEF TypeOK
  <2>1. ASSUME NEW r \in Reader, NEW k \in Key, Get(r, k) PROVE Contract!CacheNext
    <3>1. Contract!Fetch(k)
      BY <2>1 DEF Get, Contract!Fetch
    <3>2. QED
      BY <3>1 DEF Contract!CacheNext
  <2>2. ASSUME NEW r \in Reader, Drop(r) PROVE UNCHANGED seenVars
    BY <2>2 DEF Drop
  <2>3. ASSUME NEW k \in Key, NEW v \in Val, Set(k, v) PROVE Contract!CacheNext
    <3>1. PICK kept \in SUBSET items : items' = kept \cup {k} /\ fresh' = (fresh \cap kept) \cup {k}
      BY <2>3, ZenonT(60) DEF Set
    <3>2. resp' = [resp EXCEPT ![k] = v] /\ answer' = answer
      BY <2>3 DEF Set
    <3> DEFINE lost == (items \ kept) \ {k}
    <3>3. lost \in SUBSET (Key \ {k})
      OBVIOUS
    <3>4. content' = [j \in Key |-> IF j = k THEN v ELSE IF j \in lost THEN Miss ELSE content[j]]
      BY <3>1, <3>2
    <3>5. Contract!Store(k, v)
      BY <3>2, <3>3, <3>4, ZenonT(60) DEF Contract!Store
    <3>6. QED
      BY <3>5 DEF Contract!CacheNext
  <2>4. ASSUME NEW p \in Path, InvalidatePrefix(p) PROVE Contract!CacheNext
    <3>1. Contract!Clear(p)
      BY <2>4 DEF InvalidatePrefix, Contract!Clear
    <3>2. QED
      BY <3>1 DEF Contract!CacheNext
  <2>5. ASSUME NEW k \in Key, Expire(k) PROVE Contract!CacheNext
    <3>1. Contract!Lose(k)
      BY <2>5, ZenonT(60) DEF Expire, Contract!Lose
    <3>2. QED
      BY <3>1 DEF Contract!CacheNext
  <2>6. CASE UNCHANGED vars
    BY <2>6 DEF vars
  <2>7. QED
    BY <2>1, <2>2, <2>3, <2>4, <2>5, <2>6 DEF Next
<1>3. QED
  BY <1>1, <1>2, TypeCorrect, PTL DEF Spec, KeepsContract, Contract!CacheSpec
=============================================================================
