--------------------------- MODULE APIProxyProofs ---------------------------
(***************************************************************************)
(* Proofs about the caching proxy, for every set of users, paths and       *)
(* concurrent requests and every number of writes.                         *)
(***************************************************************************)
EXTENDS APIProxy, TLAPS

\* The empty cache and idle requests are of their types.
LEMMA TypeInit == Init => TypeOK
  BY ProxyAssumption, SMTT(60) DEF Init, TypeOK, Cache!CacheInit, Kind

\* No step of handleAPIProxy or of vire-server leaves the types.
LEMMA TypeStep == TypeOK /\ [Next]_vars => TypeOK'
<1> SUFFICES ASSUME TypeOK, [Next]_vars PROVE TypeOK'
  OBVIOUS
<1> USE ProxyAssumption DEF TypeOK, Goto
<1>1. ASSUME NEW r \in Req, NEW u \in User, NEW p \in Path, NEW m \in Kind,
             Begin(r, u, p, m)
      PROVE  TypeOK'
  <2> raced' \subseteq Path
    BY <1>1 DEF Begin, Meets
  <2>1. CASE m = "put"
    BY <1>1, <2>1 DEF Begin, cacheVars
  <2>2. CASE m # "put"
    <3>1. <<u, p, m>> \in Key
      BY <2>2 DEF Key, Kind
    <3>2. QED
      BY <1>1, <2>2, <3>1 DEF Begin, Cache!Fetch
  <2>3. QED
    BY <2>1, <2>2
<1>2. ASSUME NEW r \in Req, Read(r) PROVE TypeOK'
  BY <1>2, ZenonT(60) DEF Read
<1>3. ASSUME NEW r \in Req, Write(r) PROVE TypeOK'
  <2>1. version' \in 0..MaxWrites /\ data' \in [Path -> Nat]
    BY <1>3, SMTT(60) DEF Write, Apply
  <2>2. QED
    BY <1>3, <2>1 DEF Write
<1>4. ASSUME NEW r \in Req, StoreReply(r) PROVE TypeOK'
  BY <1>4 DEF StoreReply, Cache!Store
<1>5. ASSUME NEW r \in Req, ClearPath(r) PROVE TypeOK'
  BY <1>5 DEF ClearPath, Cache!Clear
<1>6. ASSUME NEW p \in Path, Elsewhere(p) PROVE TypeOK'
  BY <1>6 DEF Elsewhere, Apply
<1>7. ASSUME NEW k \in Key, Expire(k) PROVE TypeOK'
  BY <1>7 DEF Expire, Cache!Lose
<1>8. CASE UNCHANGED vars
  BY <1>8 DEF vars
<1>9. QED
  BY <1>1, <1>2, <1>3, <1>4, <1>5, <1>6, <1>7, <1>8 DEF Next

\* TypeOK is an invariant.
THEOREM TypeCorrect == Spec => []TypeOK
  BY TypeInit, TypeStep, PTL DEF Spec
-----------------------------------------------------------------------------
\* No version is acknowledged or shown before vire-server has it.
AckedInv ==
  /\ \A q \in Path : acked[q] <= data[q] /\ data[q] <= version
  /\ \A r \in Req : pc[r] = "clear" /\ kind[r] = "put" /\ good[r] =>
       \A q \in Touches[path[r]] : seen[r] <= data[q]

\* A request under way reads what another one under way writes only on a raced path.
ApartInv ==
  \A r, s \in Req :
    /\ pc[r] = "store" => kind[r] # "put"
    /\ ~(/\ pc[r] # "idle" /\ kind[r] = "put"
         /\ pc[s] # "idle" /\ kind[s] # "put"
         /\ path[s] \in Touches[path[r]] \ raced)

\* What is about to be cached is no older than what has been acknowledged.
ReplyInv ==
  \A r \in Req : pc[r] = "store" /\ path[r] \notin raced => seen[r] >= acked[path[r]]

FreshInv == TypeOK /\ AckedInv /\ ApartInv /\ ReplyInv /\ NoStaleHit

\* Nothing is cached, answered or acknowledged at first.
LEMMA FreshInit == Init => FreshInv
<1> SUFFICES ASSUME Init PROVE FreshInv
  OBVIOUS
<1>1. TypeOK
  BY TypeInit
<1>2. QED
  BY <1>1 DEF Init, FreshInv, AckedInv, ApartInv, ReplyInv, NoStaleHit, Cache!CacheInit

\* Every step of a request, a write elsewhere and an expiry keep the invariant.
LEMMA FreshStep ==
  ASSUME FreshInv, [Next]_vars
  PROVE  FreshInv'
<1>1. TypeOK /\ TypeOK'
  BY TypeStep DEF FreshInv
<1>2. AckedInv /\ ApartInv /\ ReplyInv /\ NoStaleHit
  BY DEF FreshInv
<1> SUFFICES (AckedInv /\ ApartInv /\ ReplyInv /\ NoStaleHit)'
  BY <1>1 DEF FreshInv
<1> USE <1>1, ProxyAssumption DEF Goto
<1>3. ASSUME NEW r \in Req, NEW u \in User, NEW p \in Path, NEW m \in Kind,
             Begin(r, u, p, m)
      PROVE  (AckedInv /\ ApartInv /\ ReplyInv /\ NoStaleHit)'
  <2>1. /\ pc[r] = "idle" /\ raced' = raced \cup Meets(p, m)
        /\ pc'[r] \in {"idle", "send"}
        /\ \A s \in Req \ {r} : /\ pc'[s] = pc[s] /\ kind'[s] = kind[s]
                                /\ path'[s] = path[s] /\ seen'[s] = seen[s]
                                /\ good'[s] = good[s]
        /\ kind'[r] = m /\ path'[r] = p
        /\ content' = content /\ acked' = acked /\ data' = data /\ version' = version
    BY <1>3 DEF Begin, TypeOK, Cache!Fetch, cacheVars
  <2>2. AckedInv'
    BY <1>2, <2>1 DEF AckedInv, TypeOK
  <2>3. ApartInv'
    BY <1>2, <2>1, SMTT(60) DEF ApartInv, Meets, TypeOK
  <2>4. ReplyInv' /\ NoStaleHit'
    BY <1>2, <2>1, SMTT(60) DEF ReplyInv, NoStaleHit, TypeOK
  <2>5. QED
    BY <2>2, <2>3, <2>4
<1>4. ASSUME NEW r \in Req, Read(r)
      PROVE  (AckedInv /\ ApartInv /\ ReplyInv /\ NoStaleHit)'
  <2>1. AckedInv'
    BY <1>2, <1>4 DEF Read, AckedInv, TypeOK
  <2>2. ApartInv'
    BY <1>2, <1>4 DEF Read, ApartInv, TypeOK
  <2>3. ReplyInv'
    BY <1>2, <1>4 DEF Read, ReplyInv, AckedInv, TypeOK
  <2>4. NoStaleHit'
    BY <1>2, <1>4 DEF Read, NoStaleHit
  <2>5. QED
    BY <2>1, <2>2, <2>3, <2>4
<1>5. ASSUME NEW r \in Req, Write(r)
      PROVE  (AckedInv /\ ApartInv /\ ReplyInv /\ NoStaleHit)'
  <2>1. /\ version' = version \/ version' = version + 1
        /\ \A q \in Path : \/ data'[q] = data[q]
                           \/ data'[q] = version + 1 /\ version' = version + 1
        /\ version' # version => \A q \in Touches[path[r]] : data'[q] = version'
    BY <1>5 DEF Write, Apply, TypeOK
  <2>2. \A q \in Path : acked'[q] <= data'[q] /\ data[q] <= data'[q] /\ data'[q] <= version'
    <3>1. acked' = acked
      BY <1>5 DEF Write
    <3>2. \A q \in Path : acked[q] \in Nat /\ data[q] \in Nat
      BY DEF TypeOK
    <3>3. version \in Nat
      BY DEF TypeOK
    <3>4. QED
      BY <1>2, <2>1, <3>1, <3>2, <3>3 DEF AckedInv
  <2>3. ASSUME NEW s \in Req, pc'[s] = "clear", kind'[s] = "put", good'[s],
               NEW q \in Touches[path'[s]]
        PROVE  seen'[s] <= data'[q]
    <3>1. q \in Path
      BY <2>3 DEF TypeOK
    <3>2. CASE s = r
      <4>1. version' # version /\ seen'[s] = version' /\ path'[s] = path[r]
        BY <1>5, <2>3, <3>2, ZenonT(60) DEF Write, TypeOK
      <4>2. QED
        BY <2>1, <2>3, <4>1 DEF TypeOK
    <3>3. CASE s # r
      <4>1. /\ pc[s] = "clear" /\ kind[s] = "put" /\ good[s]
            /\ path'[s] = path[s] /\ seen'[s] = seen[s]
        BY <1>5, <2>3, <3>3 DEF Write, TypeOK
      <4>2. seen[s] <= data[q]
        BY <1>2, <2>3, <4>1 DEF AckedInv
      <4>3. QED
        BY <2>2, <3>1, <4>1, <4>2 DEF TypeOK
    <3>4. QED
      BY <3>2, <3>3
  <2>4. AckedInv'
    BY <2>2, <2>3 DEF AckedInv
  <2>5. ApartInv'
    BY <1>2, <1>5 DEF Write, ApartInv, TypeOK
  <2>6. ReplyInv'
    BY <1>2, <1>5 DEF Write, ReplyInv, TypeOK
  <2>7. NoStaleHit'
    BY <1>2, <1>5 DEF Write, NoStaleHit
  <2>8. QED
    BY <2>4, <2>5, <2>6, <2>7
<1>6. ASSUME NEW r \in Req, StoreReply(r)
      PROVE  (AckedInv /\ ApartInv /\ ReplyInv /\ NoStaleHit)'
  <2>1. AckedInv'
    BY <1>2, <1>6 DEF StoreReply, AckedInv, ApartInv, TypeOK
  <2>2. ApartInv'
    BY <1>2, <1>6 DEF StoreReply, ApartInv, TypeOK
  <2>3. ReplyInv'
    BY <1>2, <1>6 DEF StoreReply, ReplyInv, TypeOK
  <2>4. NoStaleHit'
    <3>1. ASSUME NEW k \in Key, content'[k] # Miss, k[2] \notin raced'
          PROVE  content'[k] >= acked'[k[2]]
      <4>1. content'[k] = content[k] \/ (k = KeyOf(r) /\ content'[k] = seen[r])
        BY <1>6, <3>1 DEF StoreReply, Cache!Store
      <4>2. acked' = acked /\ raced' = raced
        BY <1>6 DEF StoreReply
      <4>3. CASE content'[k] = content[k]
        BY <1>2, <3>1, <4>2, <4>3 DEF NoStaleHit
      <4>4. CASE k = KeyOf(r) /\ content'[k] = seen[r]
        BY <1>2, <1>6, <3>1, <4>2, <4>4 DEF StoreReply, ReplyInv, KeyOf
      <4>5. QED
        BY <4>1, <4>3, <4>4
    <3>2. QED
      BY <3>1 DEF NoStaleHit
  <2>5. QED
    BY <2>1, <2>2, <2>3, <2>4
<1>7. ASSUME NEW r \in Req, ClearPath(r)
      PROVE  (AckedInv /\ ApartInv /\ ReplyInv /\ NoStaleHit)'
  <2> DEFINE hit(q) == kind[r] = "put" /\ good[r] /\ q \in Reached(path[r]) /\ seen[r] > acked[q]
  <2>1. \A q \in Path : acked'[q] = IF hit(q) THEN seen[r] ELSE acked[q]
    BY <1>7, SMTT(60) DEF ClearPath, TypeOK
  <2>2. AckedInv'
    BY <1>2, <1>7, <2>1, SMTT(60) DEF ClearPath, AckedInv, Reached, TypeOK
  <2>3. ApartInv'
    BY <1>2, <1>7 DEF ClearPath, ApartInv, TypeOK
  <2>4. ReplyInv'
    <3>1. ASSUME NEW s \in Req, pc'[s] = "store", path'[s] \notin raced'
          PROVE  seen'[s] >= acked'[path'[s]]
      <4>1. /\ pc[s] = "store" /\ path'[s] = path[s] /\ seen'[s] = seen[s]
            /\ pc[r] = "clear" /\ raced' = raced
        BY <1>7, <3>1 DEF ClearPath, TypeOK
      <4>2. ~hit(path[s])
        BY <1>2, <3>1, <4>1 DEF ApartInv, Reached
      <4>3. QED
        BY <1>2, <2>1, <3>1, <4>1, <4>2 DEF ReplyInv, TypeOK
    <3>2. QED
      BY <3>1 DEF ReplyInv
  <2>5. NoStaleHit'
    <3>1. ASSUME NEW k \in Key, content'[k] # Miss, k[2] \notin raced'
          PROVE  content'[k] >= acked'[k[2]]
      <4>1. k[2] \in Path /\ k \notin Under[path[r]] /\ content'[k] = content[k] /\ raced' = raced
        BY <1>7, <3>1 DEF ClearPath, Cache!Clear, Key
      <4>2. ~hit(k[2])
        BY <4>1 DEF Under, Reached, TypeOK
      <4>3. QED
        BY <1>2, <2>1, <3>1, <4>1, <4>2 DEF NoStaleHit
    <3>2. QED
      BY <3>1 DEF NoStaleHit
  <2>6. QED
    BY <2>2, <2>3, <2>4, <2>5
<1>8. ASSUME NEW p \in Path, Elsewhere(p)
      PROVE  (AckedInv /\ ApartInv /\ ReplyInv /\ NoStaleHit)'
  <2>1. AckedInv'
    BY <1>2, <1>8, SMTT(60) DEF Elsewhere, Apply, AckedInv, TypeOK
  <2>2. QED
    BY <1>2, <1>8, <2>1 DEF Elsewhere, ApartInv, ReplyInv, NoStaleHit
<1>9. ASSUME NEW k \in Key, Expire(k)
      PROVE  (AckedInv /\ ApartInv /\ ReplyInv /\ NoStaleHit)'
  BY <1>2, <1>9, SMTT(60)
     DEF Expire, Cache!Lose, AckedInv, ApartInv, ReplyInv, NoStaleHit, TypeOK
<1>10. CASE UNCHANGED vars
  BY <1>2, <1>10 DEF vars, AckedInv, ApartInv, ReplyInv, NoStaleHit
<1>11. QED
  BY <1>3, <1>4, <1>5, <1>6, <1>7, <1>8, <1>9, <1>10 DEF Next

\* No hit on a path is older than an answered write that changed the path and whose
\* invalidation reaches it, with any eviction, expiry, lost answer or write elsewhere,
\* as long as no read of the path overlapped a write to it.
THEOREM ProxyNoStaleHit == Spec => []NoStaleHit
<1>1. FreshInv /\ [Next]_vars => FreshInv'
  BY FreshStep
<1>2. FreshInv => NoStaleHit
  BY DEF FreshInv
<1>3. QED
  BY <1>1, <1>2, FreshInit, PTL DEF Spec
=============================================================================
