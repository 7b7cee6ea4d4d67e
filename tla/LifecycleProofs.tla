-------------------------- MODULE LifecycleProofs ---------------------------
(***************************************************************************)
(* Proofs about the portal's process: the log store and main, which closes *)
(* it, for every number of entries, goroutines and requests and every      *)
(* configuration; and the settings it starts with.                         *)
(***************************************************************************)
EXTENDS Lifecycle, TLAPS

Empty == [s \in Goroutine |-> <<>>]

\* The log store: main's own sequence is empty but while Close sends it, and a
\* closed store has an empty buffer.
StoreInv ==
  /\ TypeOK
  /\ InOnePlace
  /\ BufferBounded
  /\ stage \in {"open", "closed"} => sending[Main] = <<>>
  /\ closed => buf = <<>>
  /\ ~closed => refused = {}

\* main: the store is used only between Boot and the exit, it is closed in "flush"
\* only, the listener is closed before, and a request that is still active then
\* has outlived the drain.
ProcessInv ==
  /\ main \in {"load", "boot", "ready", "wait", "drain", "close", "flush", "exited"}
  /\ main = "exited" <=> stage = "exited"
  /\ main \in {"load", "boot"} =>
       sending = Empty /\ ~attached /\ server = "off" /\ active = {}
  /\ server \in {"off", "starting", "listening", "closed"}
  /\ server \in {"starting", "listening"} => main \in {"ready", "wait"}
  /\ closed => main \in {"flush", "exited"}
  /\ ~attached => accepted = {}
  /\ main \in {"close", "flush"} /\ active # {} => late
  /\ main = "exited" => active = {}
  /\ graceful => main = "exited"
  /\ late => main \in {"close", "flush", "exited"}
  /\ OnlyInFlightLost
  /\ RequestsAnswered

LifeInv == StoreInv /\ ProcessInv
-----------------------------------------------------------------------------
(* Sequences without repetition.                                           *)

\* Store appends an entry that the buffer does not hold.
LEMMA AppendFacts ==
  ASSUME NEW q \in Seq(Entry), NEW e \in Entry, IsInjective(q), e \notin Range(q)
  PROVE  /\ Append(q, e) \in Seq(Entry)
         /\ Append(q, e) # <<>>
         /\ Len(Append(q, e)) = Len(q) + 1
         /\ IsInjective(Append(q, e))
         /\ Range(Append(q, e)) = Range(q) \cup {e}
<1> DEFINE a == Append(q, e)
<1>1. a \in Seq(Entry) /\ Len(a) = Len(q) + 1 /\ Len(q) \in Nat
  OBVIOUS
<1>2. DOMAIN a = 1..(Len(q) + 1) /\ DOMAIN q = 1..Len(q)
  BY <1>1
<1>3. (\A i \in 1..Len(q) : a[i] = q[i]) /\ a[Len(q) + 1] = e
  OBVIOUS
<1>4. a # <<>>
  BY <1>1
<1> HIDE DEF a
<1>5. Range(a) = Range(q) \cup {e}
  BY <1>1, <1>2, <1>3 DEF Range
<1>6. IsInjective(a)
  BY <1>1, <1>2, <1>3 DEF IsInjective, Range
<1> QED
  BY <1>1, <1>4, <1>5, <1>6 DEF a

\* send posts a prefix and keeps the rest.
LEMMA RestFacts ==
  ASSUME NEW q \in Seq(Entry), NEW n \in 1..Len(q)
  PROVE  /\ SubSeq(q, n + 1, Len(q)) \in Seq(Entry)
         /\ IsInjective(q) =>
              /\ IsInjective(SubSeq(q, n + 1, Len(q)))
              /\ Range(q) = Range(SubSeq(q, n + 1, Len(q))) \cup {q[i] : i \in 1..n}
              /\ Range(SubSeq(q, n + 1, Len(q))) \cap {q[i] : i \in 1..n} = {}
<1> DEFINE r == SubSeq(q, n + 1, Len(q))
<1>0. Len(q) \in Nat /\ n \in Nat /\ n <= Len(q) /\ DOMAIN q = 1..Len(q)
  <2> HIDE DEF r
  <2>1. Len(q) \in Nat /\ DOMAIN q = 1..Len(q)
    BY SMTT(60)
  <2> QED
    BY <2>1
<1>1. r \in Seq(Entry) /\ Len(r) = Len(q) - n
  <2>1. (n + 1 \in Int) /\ (Len(q) \in Int) /\ \A i \in (n + 1)..Len(q) : q[i] \in Entry
    BY <1>0
  <2>2. /\ r \in Seq(Entry)
        /\ Len(r) = IF n + 1 <= Len(q) THEN Len(q) - (n + 1) + 1 ELSE 0
    BY <2>1, SMTT(60)
  <2> HIDE DEF r
  <2>3. \A k, l \in Nat : k <= l => (IF k + 1 <= l THEN l - (k + 1) + 1 ELSE 0) = l - k
    OBVIOUS
  <2> QED
    BY <1>0, <2>2, <2>3, Zenon
<1>2. \A i \in 1..(Len(q) - n) : r[i] = q[n + i] /\ n + i \in DOMAIN q
  <2>1. \A i \in 1..(Len(q) - (n + 1) + 1) : r[i] = q[(n + 1) + i - 1]
    BY <1>0, SMTT(60)
  <2> QED
    BY <1>0, <2>1, SMTT(60)
<1>3. DOMAIN r = 1..(Len(q) - n)
  BY <1>1
<1> HIDE DEF r
<1>4. \A j \in (n + 1)..Len(q) : q[j] = r[j - n] /\ j - n \in DOMAIN r
  BY <1>0, <1>2, <1>3
<1>5. ASSUME IsInjective(q) PROVE IsInjective(r)
  <2> SUFFICES ASSUME NEW i \in DOMAIN r, NEW j \in DOMAIN r, r[i] = r[j] PROVE i = j
    BY DEF IsInjective
  <2>1. q[n + i] = q[n + j] /\ n + i \in DOMAIN q /\ n + j \in DOMAIN q
    BY <1>2, <1>3
  <2>2. n + i = n + j
    BY <1>5, <2>1 DEF IsInjective
  <2> QED
    BY <1>0, <1>3, <2>2
<1>6. Range(q) = Range(r) \cup {q[i] : i \in 1..n}
  <2>1. ASSUME NEW x \in Range(q) PROVE x \in Range(r) \cup {q[i] : i \in 1..n}
    <3>1. PICK j \in 1..Len(q) : x = q[j]
      BY <1>0 DEF Range
    <3>2. CASE j <= n
      BY <3>1, <3>2, <1>0
    <3>3. CASE j > n
      BY <3>1, <3>3, <1>0, <1>4 DEF Range
    <3> QED
      BY <3>1, <3>2, <3>3, <1>0
  <2>2. Range(r) \subseteq Range(q)
    BY <1>0, <1>2, <1>3 DEF Range
  <2>3. {q[i] : i \in 1..n} \subseteq Range(q)
    BY <1>0 DEF Range
  <2> QED
    BY <2>1, <2>2, <2>3
<1>7. ASSUME IsInjective(q) PROVE Range(r) \cap {q[i] : i \in 1..n} = {}
  <2> SUFFICES ASSUME NEW i \in 1..n, q[i] \in Range(r) PROVE FALSE
    OBVIOUS
  <2>1. PICK k \in 1..(Len(q) - n) : r[k] = q[i]
    BY <1>3, SMTT(60) DEF Range
  <2>2. q[n + k] = q[i] /\ n + k \in DOMAIN q /\ i \in DOMAIN q
    BY <1>0, <1>2, <2>1
  <2>3. n + k = i
    BY <1>7, <2>2 DEF IsInjective
  <2> QED
    BY <1>0, <2>3
<1> QED
  BY <1>1, <1>5, <1>6, <1>7 DEF r

\* The empty sequence, which a flushed buffer is.
LEMMA EmptyFacts ==
  /\ <<>> \in Seq(Entry) /\ Len(<<>>) = 0
  /\ Range(<<>>) = {} /\ IsInjective(<<>>)
  BY DEF Range, IsInjective
-----------------------------------------------------------------------------
(* The log store: one lemma for each kind of step.                         *)

\* A sequence q of entries no goroutine has goes to goroutine s, and the buffer is
\* emptied: entries are still apart, and none is dropped.
LEMMA Handed ==
  ASSUME TypeOK, NEW q \in Seq(Entry), NEW s \in Goroutine, sending[s] = <<>>,
         sending' = [sending EXCEPT ![s] = q], buf' = <<>>,
         IsInjective(q),
         \A t \in Goroutine : IsInjective(sending[t]) /\ Range(sending[t]) \cap Range(q) = {},
         \A t, u \in Goroutine : t # u => Range(sending[t]) \cap Range(sending[u]) = {}
  PROVE  /\ buf' \in Seq(Entry) /\ sending' \in [Goroutine -> Seq(Entry)]
         /\ IsInjective(buf')
         /\ \A t \in Goroutine :
              IsInjective(sending'[t]) /\ Range(sending'[t]) \cap Range(buf') = {}
         /\ \A t, u \in Goroutine : t # u => Range(sending'[t]) \cap Range(sending'[u]) = {}
         /\ Range(buf') = {}
         /\ \A e : (\E t \in Goroutine : e \in Range(sending'[t])) <=>
                    (e \in Range(q) \/ \E t \in Goroutine : e \in Range(sending[t]))
<1>1. sending \in [Goroutine -> Seq(Entry)]
  BY DEF TypeOK
<1>2. \A t \in Goroutine : sending'[t] = IF t = s THEN q ELSE sending[t]
  BY <1>1
<1>3. buf' \in Seq(Entry) /\ Range(buf') = {} /\ IsInjective(buf') /\ Range(sending[s]) = {}
  BY EmptyFacts
<1>4. sending' \in [Goroutine -> Seq(Entry)]
  BY <1>1
<1>5. \A t \in Goroutine : IsInjective(sending'[t]) /\ Range(sending'[t]) \cap Range(buf') = {}
  BY <1>2, <1>3
<1>6. \A t, u \in Goroutine : t # u => Range(sending'[t]) \cap Range(sending'[u]) = {}
  BY <1>2, ZenonT(60)
<1>7. ASSUME NEW e
      PROVE  (\E t \in Goroutine : e \in Range(sending'[t])) <=>
             (e \in Range(q) \/ \E t \in Goroutine : e \in Range(sending[t]))
  BY <1>2, <1>3
<1> QED
  BY <1>3, <1>4, <1>5, <1>6, <1>7

\* Store.
LEMMA StoreKeeps ==
  ASSUME StoreInv, NEW e \in Entry, Store(e)
  PROVE  StoreInv'
<1> USE DEF StoreInv
<1>0. /\ stage # "exited" /\ e \notin accepted \cup refused
      /\ UNCHANGED <<closed, timer, stage, posted>>
  BY DEF Store
<1>1. CASE closed /\ refused' = refused \cup {e} /\ UNCHANGED <<buf, sending, accepted>>
  BY <1>0, <1>1, ZenonT(60) DEF TypeOK, InOnePlace, BufferBounded
<1>2. CASE ~closed /\ accepted' = accepted \cup {e} /\ UNCHANGED refused
  <2> DEFINE q == Append(buf, e)
  <2>1. /\ e \notin Range(buf) /\ posted[e] # 1
        /\ \A t \in Goroutine : e \notin Range(sending[t])
    BY <1>0 DEF InOnePlace
  <2>2. /\ q \in Seq(Entry) /\ q # <<>> /\ Len(q) = Len(buf) + 1
        /\ IsInjective(q) /\ Range(q) = Range(buf) \cup {e}
    BY <1>0, <2>1, AppendFacts DEF InOnePlace, TypeOK
  <2>3. CASE Len(buf) + 1 >= FlushSize
    <3>1. Flush(q)
      BY <1>2, <2>3 DEF Store
    <3> HIDE DEF q
    <3>2. PICK s \in Sender : sending[s] = <<>> /\ sending' = [sending EXCEPT ![s] = q]
      BY <2>2, <3>1 DEF Flush
    <3>3. buf' = <<>> /\ s \in Goroutine /\ s # Main
      BY <2>2, <3>1, LogStoreAssumption, ZenonT(60) DEF Flush, Goroutine
    <3>4. \A t \in Goroutine : IsInjective(sending[t]) /\ Range(sending[t]) \cap Range(q) = {}
      BY <1>0, <2>1, <2>2, SMTT(60) DEF InOnePlace
    <3>5. /\ buf' \in Seq(Entry) /\ sending' \in [Goroutine -> Seq(Entry)]
          /\ IsInjective(buf')
          /\ \A t \in Goroutine :
               IsInjective(sending'[t]) /\ Range(sending'[t]) \cap Range(buf') = {}
          /\ \A t, u \in Goroutine : t # u => Range(sending'[t]) \cap Range(sending'[u]) = {}
          /\ Range(buf') = {}
          /\ \A x : (\E t \in Goroutine : x \in Range(sending'[t])) <=>
                     (x \in Range(q) \/ \E t \in Goroutine : x \in Range(sending[t]))
      BY <1>0, <2>2, <3>2, <3>3, <3>4, Handed, ZenonT(60) DEF InOnePlace
    <3>6. TypeOK'
      BY <1>0, <1>2, <3>5 DEF TypeOK
    <3>7. InOnePlace'
      BY <1>0, <1>2, <2>1, <2>2, <3>5, ZenonT(60) DEF InOnePlace, TypeOK
    <3>8. BufferBounded'
      BY <3>3, EmptyFacts, LogStoreAssumption DEF BufferBounded
    <3>9. sending'[Main] = sending[Main]
      BY <3>2, <3>3 DEF TypeOK, Goroutine
    <3> QED
      BY <1>0, <1>2, <3>6, <3>7, <3>8, <3>9, ZenonT(60)
  <2>4. CASE ~(Len(buf) + 1 >= FlushSize)
    <3>1. buf' = q /\ UNCHANGED sending
      BY <1>2, <2>4 DEF Store
    <3> HIDE DEF q
    <3>2. TypeOK'
      BY <1>0, <1>2, <2>2, <3>1, SMTT(60) DEF TypeOK
    <3>3. InOnePlace'
      BY <1>0, <1>2, <2>1, <2>2, <3>1, SMTT(60) DEF InOnePlace, TypeOK
    <3>4. BufferBounded'
      BY <2>2, <2>4, <3>1, LogStoreAssumption, SMTT(60) DEF BufferBounded, TypeOK
    <3> QED
      BY <1>0, <1>2, <3>1, <3>2, <3>3, <3>4
  <2> QED
    BY <2>3, <2>4, SMTT(60)
<1> QED
  BY <1>1, <1>2 DEF Store

\* timerFlush.
LEMMA TimerFlushKeeps ==
  ASSUME StoreInv, TimerFlush
  PROVE  StoreInv'
<1> USE DEF StoreInv
<1>0. /\ stage # "exited" /\ timer' \in {"armed", "fired", "off"}
      /\ UNCHANGED <<closed, stage, accepted, refused, posted>>
  BY ZenonT(60) DEF TimerFlush
<1>1. CASE UNCHANGED <<buf, sending>>
  BY <1>0, <1>1, ZenonT(60) DEF TypeOK, InOnePlace, BufferBounded
<1>2. CASE ~closed /\ buf # <<>> /\ Flush(buf)
  <2>1. PICK s \in Sender : sending[s] = <<>> /\ sending' = [sending EXCEPT ![s] = buf]
    BY <1>2 DEF Flush
  <2>2. buf' = <<>> /\ s \in Goroutine /\ s # Main
    BY <1>2, LogStoreAssumption, ZenonT(60) DEF Flush, Goroutine
  <2>3. /\ buf' \in Seq(Entry) /\ sending' \in [Goroutine -> Seq(Entry)]
        /\ IsInjective(buf')
        /\ \A t \in Goroutine :
             IsInjective(sending'[t]) /\ Range(sending'[t]) \cap Range(buf') = {}
        /\ \A t, u \in Goroutine : t # u => Range(sending'[t]) \cap Range(sending'[u]) = {}
        /\ Range(buf') = {}
        /\ \A x : (\E t \in Goroutine : x \in Range(sending'[t])) <=>
                   (x \in Range(buf) \/ \E t \in Goroutine : x \in Range(sending[t]))
    <3>1. buf \in Seq(Entry)
      BY DEF TypeOK
    <3> QED
      BY <1>0, <2>1, <2>2, <3>1, Handed, ZenonT(60) DEF InOnePlace
  <2>4. TypeOK'
    BY <1>0, <2>3 DEF TypeOK
  <2>5. InOnePlace'
    BY <1>0, <2>3, ZenonT(60) DEF InOnePlace, TypeOK
  <2>6. BufferBounded'
    BY <2>2, EmptyFacts, LogStoreAssumption DEF BufferBounded
  <2>7. sending'[Main] = sending[Main]
    BY <2>1, <2>2 DEF TypeOK, Goroutine
  <2> QED
    BY <1>0, <1>2, <2>2, <2>4, <2>5, <2>6, <2>7, SMTT(60)
<1> QED
  BY <1>1, <1>2 DEF TimerFlush, Flush

\* A round of send, by any goroutine.
LEMMA SendKeeps ==
  ASSUME StoreInv, NEW s \in Goroutine, Send(s)
  PROVE  StoreInv'
<1> USE DEF StoreInv
<1> DEFINE q == sending[s]
           n == IF Len(q) < MaxBatch THEN Len(q) ELSE MaxBatch
           batch == {q[i] : i \in 1..n}
           r == SubSeq(q, n + 1, Len(q))
<1>0. /\ q # <<>> /\ UNCHANGED <<buf, closed, timer, stage, accepted, refused>>
      /\ posted' = [e \in Entry |-> IF e \in batch THEN posted[e] + 1 ELSE posted[e]]
      /\ sending' = [sending EXCEPT ![s] = r]
  BY DEF Send
<1>1. q \in Seq(Entry) /\ sending \in [Goroutine -> Seq(Entry)] /\ posted \in [Entry -> Nat]
  BY DEF TypeOK
<1>2. n \in 1..Len(q)
  <2>1. Len(q) \in Nat /\ Len(q) # 0
    BY <1>0, <1>1, SMTT(60)
  <2> QED
    BY <2>1, LogStoreAssumption
<1> HIDE DEF n, q
<1>3. /\ r \in Seq(Entry)
      /\ IsInjective(q) =>
           /\ IsInjective(r) /\ Range(q) = Range(r) \cup batch /\ Range(r) \cap batch = {}
  BY <1>1, <1>2, RestFacts, ZenonT(60)
<1> HIDE DEF r, batch
<1>4. \A t \in Goroutine : sending'[t] = IF t = s THEN r ELSE sending[t]
  BY <1>0, <1>1
<1>5. posted' \in [Entry -> Nat]
  BY <1>0, <1>1
<1>6. TypeOK'
  BY <1>0, <1>1, <1>3, <1>5, ZenonT(60) DEF TypeOK
<1>7. InOnePlace'
  <2> SUFFICES ASSUME stage # "exited" PROVE InOnePlace'
    BY <1>0, ZenonT(60) DEF InOnePlace
  <2>1. /\ IsInjective(r) /\ Range(q) = Range(r) \cup batch /\ Range(r) \cap batch = {}
        /\ q = sending[s]
    BY <1>3, ZenonT(60) DEF InOnePlace, q
  <2>2. /\ IsInjective(buf')
        /\ \A t \in Goroutine :
             IsInjective(sending'[t]) /\ Range(sending'[t]) \cap Range(buf') = {}
    BY <1>0, <1>4, <2>1, SMTT(60) DEF InOnePlace
  <2>3. \A t, u \in Goroutine : t # u => Range(sending'[t]) \cap Range(sending'[u]) = {}
    BY <1>4, <2>1, SMTT(60) DEF InOnePlace
  <2>4. ASSUME NEW e \in Entry
        PROVE  /\ posted'[e] <= 1
               /\ posted'[e] = 1 =>
                    e \notin Range(buf') /\ \A t \in Goroutine : e \notin Range(sending'[t])
               /\ e \in accepted' <=> \/ posted'[e] = 1
                                       \/ e \in Range(buf')
                                       \/ \E t \in Goroutine : e \in Range(sending'[t])
    <3>1. CASE e \in batch
      <4>1. e \in Range(sending[s]) /\ e \notin Range(buf) /\ posted[e] # 1 /\ e \in accepted
        BY <2>1, <3>1, ZenonT(60) DEF InOnePlace
      <4>2. posted[e] = 0 /\ posted'[e] = 1
        BY <1>0, <1>1, <3>1, <4>1, SMTT(60) DEF InOnePlace
      <4>3. \A t \in Goroutine : e \notin Range(sending'[t])
        BY <1>4, <2>1, <3>1, <4>1, ZenonT(60) DEF InOnePlace
      <4> QED
        BY <1>0, <4>1, <4>2, <4>3, SMTT(60)
    <3>2. CASE e \notin batch
      <4>1. posted'[e] = posted[e] /\ posted[e] <= 1
        BY <1>0, <1>1, <3>2, ZenonT(60) DEF InOnePlace
      <4>2. (\E t \in Goroutine : e \in Range(sending'[t])) <=>
            (\E t \in Goroutine : e \in Range(sending[t]))
        BY <1>4, <2>1, <3>2, SMTT(60)
      <4> QED
        BY <1>0, <4>1, <4>2, ZenonT(60) DEF InOnePlace
    <3> QED
      BY <3>1, <3>2, SMTT(60)
  <2> QED
    BY <2>2, <2>3, <2>4 DEF InOnePlace
<1>8. stage \in {"open", "closed"} => sending'[Main] = <<>>
  BY <1>0, <1>4 DEF q, Goroutine
<1>9. BufferBounded'
  BY <1>0 DEF BufferBounded
<1> QED
  BY <1>0, <1>6, <1>7, <1>8, <1>9, SMTT(60)

\* Close.
LEMMA CloseKeeps ==
  ASSUME StoreInv, Close
  PROVE  StoreInv'
<1> USE DEF StoreInv
<1>0. /\ stage = "open" /\ closed' = TRUE /\ stage' = "closing" /\ buf' = <<>>
      /\ sending' = [sending EXCEPT ![Main] = buf]
      /\ UNCHANGED <<accepted, refused, posted>>
  BY DEF Close
<1>1. timer' \in {"armed", "fired", "off"}
  BY DEF Close, TypeOK
<1>2. Main \in Goroutine /\ buf \in Seq(Entry) /\ sending[Main] = <<>>
  BY <1>0, ZenonT(60) DEF Goroutine, TypeOK
<1>3. /\ buf' \in Seq(Entry) /\ sending' \in [Goroutine -> Seq(Entry)]
      /\ IsInjective(buf')
      /\ \A t \in Goroutine :
           IsInjective(sending'[t]) /\ Range(sending'[t]) \cap Range(buf') = {}
      /\ \A t, u \in Goroutine : t # u => Range(sending'[t]) \cap Range(sending'[u]) = {}
      /\ Range(buf') = {}
      /\ \A x : (\E t \in Goroutine : x \in Range(sending'[t])) <=>
                 (x \in Range(buf) \/ \E t \in Goroutine : x \in Range(sending[t]))
  BY <1>0, <1>2, Handed, ZenonT(60) DEF InOnePlace
<1>4. TypeOK'
  BY <1>0, <1>1, <1>3, ZenonT(60) DEF TypeOK
<1>5. InOnePlace'
  BY <1>0, <1>3, ZenonT(60) DEF InOnePlace, TypeOK
<1>6. BufferBounded'
  BY <1>0, EmptyFacts, LogStoreAssumption DEF BufferBounded
<1> QED
  BY <1>0, <1>4, <1>5, <1>6

\* The timer, the end of Close, the exit, and steps that leave the store alone.
LEMMA OtherKeeps ==
  ASSUME StoreInv, TimerFires \/ CloseReturns \/ Exit \/ UNCHANGED vars
  PROVE  StoreInv'
<1> USE DEF StoreInv
<1>1. CASE TimerFires
  BY <1>1, ZenonT(60) DEF TimerFires, TypeOK, InOnePlace, BufferBounded
<1>2. CASE CloseReturns
  BY <1>2, ZenonT(60) DEF CloseReturns, TypeOK, InOnePlace, BufferBounded
<1>3. CASE Exit
  <2>1. /\ stage # "exited" /\ stage' = "exited" /\ sending' = [s \in Goroutine |-> <<>>]
        /\ UNCHANGED <<buf, closed, timer, accepted, refused, posted>>
    BY <1>3 DEF Exit
  <2>2. sending' \in [Goroutine -> Seq(Entry)]
    BY <2>1, EmptyFacts, ZenonT(60)
  <2> QED
    BY <2>1, <2>2 DEF TypeOK, InOnePlace, BufferBounded
<1>4. CASE UNCHANGED vars
  BY <1>4 DEF vars, TypeOK, InOnePlace, BufferBounded
<1> QED
  BY <1>1, <1>2, <1>3, <1>4

\* The invariant of the log store holds at first
LEMMA StoreInit ==
  ASSUME Init PROVE StoreInv
<1>1. TypeOK
  BY EmptyFacts, ZenonT(60) DEF Init, TypeOK
<1>2. \A s \in Goroutine : sending[s] = <<>>
  BY DEF Init
<1>3. InOnePlace
  BY <1>2, EmptyFacts DEF Init, InOnePlace
<1>4. BufferBounded
  BY EmptyFacts, LogStoreAssumption DEF Init, BufferBounded
<1> QED
  BY <1>1, <1>2, <1>3, <1>4 DEF Init, StoreInv, Goroutine

\* and after every step of it.
LEMMA StoreStepKeeps ==
  ASSUME StoreInv, [Next]_vars PROVE StoreInv'
  BY StoreKeeps, TimerFlushKeeps, SendKeeps, CloseKeeps, OtherKeeps, SMTT(60) DEF Next
-----------------------------------------------------------------------------
(* The process: every step of it is one of the log store's, or none.       *)

\* os.Exit and the end of main are the exit of the log store.
LEMMA EndsAsExit ==
  ASSUME LifeInv, ProcessEnds, main # "exited" PROVE Exit
  BY DEF LifeInv, ProcessInv, ProcessEnds, Exit

\* A step of the process is a step of the log store or leaves it alone.
LEMMA Refines ==
  ASSUME LifeInv, [LifeNext]_allVars PROVE [Next]_vars
<1>1. CASE LoadConfig
  <2>1. CASE UNCHANGED stage
    BY <1>1, <2>1 DEF LoadConfig, vars
  <2>2. CASE stage' = "exited"
    <3>1. Exit
      BY <1>1, <2>2, ZenonT(60) DEF LoadConfig, LifeInv, ProcessInv, Exit, Empty
    <3> QED
      BY <3>1 DEF Next
  <2> QED
    BY <1>1, <2>1, <2>2, SMTT(60) DEF LoadConfig
<1>2. CASE Boot \/ Notify \/ Select \/ Shutdown \/ CloseApp
  BY <1>2, ZenonT(60) DEF Boot, Notify, Select, Shutdown, CloseApp
<1>3. CASE CloseLog
  BY <1>3 DEF CloseLog, Next
<1>4. CASE Return
  BY <1>4, EndsAsExit DEF Return, Next
<1>5. CASE Start
  <2>1. CASE ProcessEnds
    BY <1>5, <2>1, EndsAsExit, SMTT(60) DEF Start, LifeInv, ProcessInv, Next
  <2> QED
    BY <1>5, <2>1, ZenonT(60) DEF Start
<1>6. CASE Signal
  BY <1>6, EndsAsExit DEF Signal, Next
<1>7. CASE HandleShutdown
  BY <1>7 DEF HandleShutdown
<1>8. CASE StoreStep
  BY <1>8 DEF StoreStep, Next
<1>9. ASSUME NEW r \in Request, Begin(r) \/ Finish(r) PROVE UNCHANGED vars
  BY <1>9 DEF Begin, Finish
<1>10. ASSUME NEW e \in Entry, Log(e) PROVE UNCHANGED vars
  BY <1>10 DEF Log
<1>11. ASSUME NEW e \in Entry, Write(e) PROVE Next
  BY <1>11 DEF Write, Next
<1>12. CASE UNCHANGED allVars
  BY <1>12, ZenonT(60) DEF allVars
<1> QED
  BY <1>1, <1>2, <1>3, <1>4, <1>5, <1>6, <1>7, <1>8, <1>9, <1>10, <1>11, <1>12, ZenonT(60)
    DEF LifeNext, MainStep
-----------------------------------------------------------------------------
(* The process: its own invariant.                                         *)

\* The exit, from a state in which main has not returned.
LEMMA EndKeeps ==
  ASSUME LifeInv, ProcessEnds, main # "exited", UNCHANGED <<attached, late, graceful>>
  PROVE  ProcessInv'
  BY ZenonT(60) DEF LifeInv, StoreInv, TypeOK, ProcessInv, ProcessEnds, OnlyInFlightLost,
         RequestsAnswered

\* The return of main: Close has emptied the buffer and main's own sequence, so what
\* has not been posted is with a goroutine of a flush.
LEMMA ReturnKeeps ==
  ASSUME LifeInv, Return
  PROVE  ProcessInv'
<1>1. /\ main = "flush" /\ main' = "exited" /\ stage' = "exited" /\ server' = "closed"
      /\ attached => stage = "closed"
      /\ graceful' /\ active' = {} /\ cut' = active
      /\ lost' = {e \in Entry : \E s \in Sender : e \in Range(sending[s])}
      /\ UNCHANGED <<closed, accepted, refused, posted, attached, late>>
  BY DEF Return, ProcessEnds
<1>2. ASSUME NEW e \in accepted PROVE posted[e] = 1 \/ e \in lost'
  <2>1. stage = "closed" /\ e \in Entry
    BY <1>1 DEF LifeInv, StoreInv, TypeOK, ProcessInv
  <2>2. buf = <<>> /\ sending[Main] = <<>>
    BY <2>1, ZenonT(60) DEF LifeInv, StoreInv, TypeOK
  <2>3. Range(buf) = {} /\ Range(sending[Main]) = {}
    BY <2>2, EmptyFacts, ZenonT(60)
  <2>4. posted[e] = 1 \/ \E s \in Goroutine : e \in Range(sending[s])
    BY <2>1, <2>3 DEF LifeInv, StoreInv, InOnePlace
  <2> QED
    BY <1>1, <2>1, <2>3, <2>4, ZenonT(60) DEF Goroutine
<1>3. OnlyInFlightLost'
  BY <1>1, <1>2 DEF OnlyInFlightLost
<1>4. RequestsAnswered'
  BY <1>1, ZenonT(60) DEF RequestsAnswered, LifeInv, ProcessInv
<1> QED
  BY <1>1, <1>3, <1>4, ZenonT(60) DEF LifeInv, ProcessInv

\* An entry is logged, or taken from the channel and given to the store.
LEMMA LogKeeps ==
  ASSUME LifeInv, NEW e \in Entry, Log(e) \/ Write(e)
  PROVE  ProcessInv'
<1>1. /\ main \notin {"load", "boot", "exited"} /\ attached
      /\ UNCHANGED process /\ UNCHANGED <<closed, stage, posted>>
  BY ZenonT(60) DEF Log, Write, Running, Store, vars
<1>2. UNCHANGED <<main, server, attached, active, late, graceful, lost, cut>>
  BY <1>1 DEF process
<1>3. RequestsAnswered'
  BY <1>2, ZenonT(60) DEF LifeInv, ProcessInv, RequestsAnswered
<1>4. OnlyInFlightLost'
  BY <1>1, <1>2, ZenonT(60) DEF LifeInv, ProcessInv, OnlyInFlightLost
<1> QED
  BY <1>1, <1>2, <1>3, <1>4, SMTT(60) DEF LifeInv, ProcessInv

\* The store's own steps and its Close, which main calls in "flush".
LEMMA StoreKeepsProcess ==
  ASSUME LifeInv, CloseLog \/ StoreStep
  PROVE  ProcessInv'
<1>1. /\ UNCHANGED <<main, server, attached, active, late, graceful, lost, cut>>
      /\ UNCHANGED <<accepted, refused>>
      /\ main \notin {"load", "boot", "exited"} /\ attached
  BY ZenonT(60)
     DEF CloseLog, StoreStep, Close, CloseReturns, TimerFires, TimerFlush, Send, process, Running
<1>2. stage # "exited" /\ stage' # "exited"
  BY <1>1, ZenonT(60)
     DEF LifeInv, ProcessInv, CloseLog, StoreStep, Close, CloseReturns, TimerFires,
              TimerFlush, Send
<1>3. closed' => main \in {"flush", "exited"}
  BY ZenonT(60)
     DEF LifeInv, ProcessInv, CloseLog, StoreStep, Close, CloseReturns, TimerFires, TimerFlush,
         Send
<1>4. OnlyInFlightLost' /\ RequestsAnswered'
  BY <1>1, ZenonT(60) DEF LifeInv, ProcessInv, OnlyInFlightLost, RequestsAnswered
<1> QED
  BY <1>1, <1>2, <1>3, <1>4, ZenonT(60) DEF LifeInv, ProcessInv

\* The steps of main up to the return, requests and signals: the store is not used.
LEMMA MainKeeps ==
  ASSUME LifeInv, UNCHANGED vars,
         \/ Boot \/ Notify \/ Select \/ Shutdown \/ CloseApp \/ HandleShutdown
         \/ Start /\ ~ProcessEnds
         \/ Signal /\ ~ProcessEnds
         \/ \E r \in Request : Begin(r) \/ Finish(r)
         \/ UNCHANGED allVars
  PROVE  ProcessInv'
<1>0. UNCHANGED <<closed, stage, sending, accepted, refused, posted>>
  BY ZenonT(60) DEF vars
<1> USE <1>0 DEF LifeInv, ProcessInv, OnlyInFlightLost, RequestsAnswered
<1>1. CASE Boot
  BY <1>1, ZenonT(60) DEF Boot
<1>2. CASE Notify
  BY <1>2, ZenonT(60) DEF Notify
<1>3. CASE Select
  BY <1>3, ZenonT(60) DEF Select
<1>4. CASE Shutdown
  BY <1>4, ZenonT(60) DEF Shutdown, StoreInv
<1>5. CASE CloseApp
  BY <1>5, ZenonT(60) DEF CloseApp
<1>6. CASE HandleShutdown
  BY <1>6, ZenonT(60) DEF HandleShutdown
<1>7. CASE Start /\ ~ProcessEnds
  BY <1>7, ZenonT(60) DEF Start
<1>8. CASE Signal /\ ~ProcessEnds
  BY <1>8, ZenonT(60) DEF Signal
<1>9. ASSUME NEW r \in Request, Begin(r) PROVE ProcessInv'
  BY <1>9, ZenonT(60) DEF Begin
<1>10. ASSUME NEW r \in Request, Finish(r) PROVE ProcessInv'
  BY <1>10, ZenonT(60) DEF Finish
<1>11. CASE UNCHANGED allVars
  BY <1>11, ZenonT(60) DEF allVars, process
<1> QED
  BY <1>1, <1>2, <1>3, <1>4, <1>5, <1>6, <1>7, <1>8, <1>9, <1>10, <1>11, ZenonT(60)

\* LoadConfig, which may end the process before anything is logged.
LEMMA LoadKeeps ==
  ASSUME LifeInv, LoadConfig
  PROVE  ProcessInv'
<1>1. /\ main = "load"
      /\ \/ main' = "boot" /\ UNCHANGED stage
         \/ main' = "exited" /\ stage' = "exited"
      /\ UNCHANGED <<closed, sending, accepted, refused, posted, server, attached, active,
                     late, graceful, lost, cut>>
  BY ZenonT(60) DEF LoadConfig
<1>2. active = {}
  BY <1>1 DEF LifeInv, ProcessInv
<1> QED
  BY <1>1, <1>2, ZenonT(60) DEF LifeInv, ProcessInv, OnlyInFlightLost, RequestsAnswered

\* The invariant holds when the process starts,
LEMMA LifeInvInit ==
  ASSUME LifeInit PROVE LifeInv
<1>1. StoreInv
  BY StoreInit, ZenonT(60) DEF LifeInit
<1>2. ProcessInv
  BY DEF LifeInit, Init, ProcessInv, Empty, OnlyInFlightLost, RequestsAnswered
<1> QED
  BY <1>1, <1>2 DEF LifeInv

\* every step keeps it,
LEMMA LifeInvStep ==
  ASSUME LifeInv, [LifeNext]_allVars PROVE LifeInv'
<1>1. StoreInv'
  BY Refines, StoreStepKeeps, ZenonT(60) DEF LifeInv
<1>2. ProcessInv'
  <2>1. CASE LoadConfig
    BY <2>1, LoadKeeps, ZenonT(60)
  <2>2. CASE Boot \/ Notify \/ Select \/ Shutdown \/ CloseApp \/ HandleShutdown
    BY <2>2, MainKeeps, ZenonT(60) DEF Boot, Notify, Select, Shutdown, CloseApp, HandleShutdown
  <2>3. CASE CloseLog \/ StoreStep
    BY <2>3, StoreKeepsProcess
  <2>4. CASE Return
    BY <2>4, ReturnKeeps, ZenonT(60)
  <2>5. CASE Start
    <3>1. CASE ProcessEnds
      BY <2>5, <3>1, EndKeeps, ZenonT(60) DEF Start, LifeInv, ProcessInv
    <3>2. CASE ~ProcessEnds
      BY <2>5, <3>2, MainKeeps, ZenonT(60) DEF Start
    <3> QED
      BY <3>1, <3>2, ZenonT(60)
  <2>6. CASE Signal
    <3>1. CASE ProcessEnds
      BY <2>6, <3>1, EndKeeps, SMTT(60) DEF Signal, Running
    <3>2. CASE ~ProcessEnds
      BY <2>6, <3>2, MainKeeps, ZenonT(60) DEF Signal
    <3> QED
      BY <3>1, <3>2, ZenonT(60)
  <2>7. ASSUME NEW r \in Request, Begin(r) \/ Finish(r) PROVE ProcessInv'
    BY <2>7, MainKeeps DEF Begin, Finish
  <2>8. ASSUME NEW e \in Entry, Log(e) \/ Write(e) PROVE ProcessInv'
    BY <2>8, LogKeeps
  <2>9. CASE UNCHANGED allVars
    BY <2>9, MainKeeps DEF allVars
  <2> QED
    BY <2>1, <2>2, <2>3, <2>4, <2>5, <2>6, <2>7, <2>8, <2>9, ZenonT(60) DEF LifeNext, MainStep
<1> QED
  BY <1>1, <1>2 DEF LifeInv

\* so it holds always.
LEMMA LifeInvHolds == LifeSpec => []LifeInv
  BY LifeInvInit, LifeInvStep, PTL DEF LifeSpec
-----------------------------------------------------------------------------
\* Flushes by size, by timer and by Close neither duplicate nor drop an entry, for
\* every logFlushSize, logMaxBatch and number of goroutines.
THEOREM EntriesInOnePlace == LifeSpec => []InOnePlace
<1>1. LifeInv => InOnePlace
  BY SMTT(60) DEF LifeInv, StoreInv
<1> QED
  BY <1>1, LifeInvHolds, PTL

\* The buffer never reaches logFlushSize between calls.
THEOREM BufferIsBounded == LifeSpec => []BufferBounded
<1>1. LifeInv => BufferBounded
  BY DEF LifeInv, StoreInv
<1> QED
  BY <1>1, LifeInvHolds, PTL

\* A return of main leaves no accepted entry behind but those that goroutines were
\* sending.
THEOREM LosesOnlyInFlight == LifeSpec => []OnlyInFlightLost
<1>1. LifeInv => OnlyInFlightLost
  BY ZenonT(60) DEF LifeInv, ProcessInv
<1> QED
  BY <1>1, LifeInvHolds, PTL

\* A return of main that the drain's time limit did not force cuts off no request,
\* whatever the order of signals, POST /api/shutdown, the start of the listener and the
\* arrival of requests.
THEOREM AnswersRequests == LifeSpec => []RequestsAnswered
<1>1. LifeInv => RequestsAnswered
  BY DEF LifeInv, ProcessInv
<1> QED
  BY <1>1, LifeInvHolds, PTL
-----------------------------------------------------------------------------
(* The settings.                                                           *)

INSTANCE WellFoundedInduction

\* Induction over the natural numbers, for sets.
LEMMA Induction ==
  ASSUME NEW S, 0 \in S, \A n \in Nat : n \in S => n + 1 \in S
  PROVE  Nat \subseteq S
<1> DEFINE T == Nat \ S
           R == {ss \in Nat \X Nat : ss[1] < ss[2]}
<1> SUFFICES ASSUME T # {} PROVE FALSE
  OBVIOUS
<1>1. IsWellFoundedOn(R, Nat)
  BY NatLessThanWellFounded DEF OpToRel
<1>2. PICK n \in T : \A m \in T : <<m, n>> \notin R
  <2>1. T \subseteq Nat
    OBVIOUS
  <2> HIDE DEF R, T
  <2> QED
    BY <1>1, <2>1, WFMin, ZenonT(60)
<1>3. n \in Nat /\ n # 0
  OBVIOUS
<1>4. n - 1 \in Nat /\ n - 1 < n
  BY <1>3
<1>5. <<n - 1, n>> \in R
  BY <1>3, <1>4
<1>6. n - 1 \notin T
  BY <1>2, <1>5
<1>7. n - 1 \in S
  BY <1>4, <1>6
<1>8. n - 1 + 1 \in S
  BY <1>4, <1>7
<1> QED
  BY <1>3, <1>8

\* The loop of LoadFromFiles after k files: the configuration after each of them.
Loop(g, base, files, k) ==
  g = [i \in 0..k |-> IF i = 0 THEN base ELSE Override(g[i - 1], files[i])]

\* The loop has a result, however many files there are.
LEMMA LoopExists ==
  ASSUME NEW base, NEW files
  PROVE  \A k \in Nat : \E g : Loop(g, base, files, k)
<1> DEFINE S == {k \in Nat : \E g : Loop(g, base, files, k)}
<1>1. 0 \in S
  <2>1. Loop([i \in 0..0 |-> base], base, files, 0)
    BY DEF Loop
  <2> QED
    BY <2>1
<1>2. ASSUME NEW k \in Nat, k \in S PROVE k + 1 \in S
  <2>1. PICK g : Loop(g, base, files, k)
    BY <1>2, ZenonT(60)
  <2> DEFINE h == [i \in 0..(k + 1) |-> IF i <= k THEN g[i] ELSE Override(g[k], files[k + 1])]
  <2>2. Loop(h, base, files, k + 1)
    <3>1. ASSUME NEW i \in 0..(k + 1)
          PROVE  h[i] = IF i = 0 THEN base ELSE Override(h[i - 1], files[i])
      BY <2>1, SMTT(60) DEF Loop
    <3> QED
      BY <3>1, ZenonT(60) DEF Loop
  <2> HIDE DEF h
  <2> QED
    BY <2>2
<1>3. Nat \subseteq S
  <2> HIDE DEF S
  <2> QED
    BY <1>1, <1>2, Induction, SMTT(60)
<1> QED
  BY <1>3

\* A configuration has a value for every setting and for nothing else.
IsConfig(c) == c = [s \in Setting |-> c[s]]

\* The first k files that name setting s.
Naming(files, k, s) == {i \in 1..k : s \in DOMAIN files[i]}

\* The value setting s has after k files: that of the last one that names it.
LastSays(base, files, k, s) ==
  IF Naming(files, k, s) # {}
    THEN files[CHOOSE i \in Naming(files, k, s) : \A j \in Naming(files, k, s) : j <= i][s]
    ELSE base[s]

\* Configuration c has these values.
Tells(c, base, files, k) == c = [s \in Setting |-> LastSays(base, files, k, s)]

\* After every file the loop holds what the last file to name a setting says.
LEMMA LoopTells ==
  ASSUME NEW base, NEW files, NEW n \in Nat, NEW g, Loop(g, base, files, n),
         IsConfig(base)
  PROVE  \A k \in 0..n : Tells(g[k], base, files, k)
<1> DEFINE S == {k \in Nat : k <= n => Tells(g[k], base, files, k)}
<1>1. 0 \in S
  <2>1. g[0] = base
    BY DEF Loop
  <2>2. \A s \in Setting : Naming(files, 0, s) = {}
    BY SMTT(60) DEF Naming
  <2>3. [s \in Setting |-> LastSays(base, files, 0, s)] = [s \in Setting |-> base[s]]
    BY <2>2, ZenonT(60) DEF LastSays
  <2> QED
    BY <2>1, <2>3 DEF IsConfig, Tells
<1>2. ASSUME NEW k \in Nat, k \in S PROVE k + 1 \in S
  <2> SUFFICES ASSUME k + 1 <= n
               PROVE  g[k + 1] = [s \in Setting |-> LastSays(base, files, k + 1, s)]
    BY SMTT(60) DEF Tells
  <2>1. g[k] = [s \in Setting |-> LastSays(base, files, k, s)]
    BY <1>2, SMTT(60) DEF Tells
  <2>2. g[k + 1] = Override(g[k], files[k + 1])
    <3>1. k + 1 \in 0..n /\ k + 1 # 0 /\ k + 1 - 1 = k
      OBVIOUS
    <3>2. \A i \in 0..n : g[i] = IF i = 0 THEN base ELSE Override(g[i - 1], files[i])
      BY ZenonT(60) DEF Loop
    <3>3. QED
      BY <3>1, <3>2
  <2>3. ASSUME NEW s \in Setting
        PROVE  (IF s \in DOMAIN files[k + 1] THEN files[k + 1][s] ELSE g[k][s])
                 = LastSays(base, files, k + 1, s)
    <3>1. CASE s \in DOMAIN files[k + 1]
      <4> DEFINE N == Naming(files, k + 1, s)
      <4>1. k + 1 \in N /\ \A j \in N : j <= k + 1
        BY <3>1, SMTT(60) DEF Naming
      <4>2. \A i \in N : (\A j \in N : j <= i) => i = k + 1
        BY <4>1 DEF Naming
      <4> HIDE DEF N
      <4>3. (CHOOSE i \in N : \A j \in N : j <= i) = k + 1
        BY <4>1, <4>2, ZenonT(60)
      <4>4. LastSays(base, files, k + 1, s) = files[k + 1][s]
        BY <4>1, <4>3, ZenonT(60) DEF LastSays, N
      <4>5. QED
        BY <3>1, <4>4, SMTT(60)
    <3>2. CASE s \notin DOMAIN files[k + 1]
      <4>1. Naming(files, k + 1, s) = Naming(files, k, s)
        BY <3>2, SMTT(60) DEF Naming
      <4> DEFINE Says(N) ==
                   IF N # {} THEN files[CHOOSE i \in N : \A j \in N : j <= i][s] ELSE base[s]
      <4>a. /\ LastSays(base, files, k + 1, s) = Says(Naming(files, k + 1, s))
            /\ LastSays(base, files, k, s) = Says(Naming(files, k, s))
        BY DEF LastSays
      <4> HIDE DEF Says
      <4>2. LastSays(base, files, k + 1, s) = LastSays(base, files, k, s)
        BY <4>1, <4>a
      <4>3. QED
        BY <2>1, <3>2, <4>2, SMTT(60)
    <3>3. QED
      BY <3>1, <3>2, ZenonT(60)
  <2>4. QED
    BY <2>2, <2>3, ZenonT(60) DEF Override
<1>3. Nat \subseteq S
  <2> HIDE DEF S
  <2> QED
    BY <1>1, <1>2, Induction, ZenonT(60)
<1>4. QED
  BY <1>3

\* What Merge computes, for every sequence of files.
LEMMA MergeTells ==
  ASSUME NEW base, NEW files, Len(files) \in Nat, IsConfig(base)
  PROVE  Merge(base, files) = [s \in Setting |-> LastSays(base, files, Len(files), s)]
<1> DEFINE g == CHOOSE g : Loop(g, base, files, Len(files))
<1>1. Loop(g, base, files, Len(files))
  BY LoopExists, ZenonT(60)
<1>2. Merge(base, files) = g[Len(files)]
  BY DEF Merge, Loop
<1> HIDE DEF g
<1>3. Len(files) \in 0..Len(files)
  OBVIOUS
<1>4. \A k \in 0..Len(files) : Tells(g[k], base, files, k)
  BY <1>1, LoopTells, SMTT(60)
<1>5. QED
  BY <1>2, <1>3, <1>4 DEF Tells

\* LoadFromFiles and ApplyFlagOverrides together give every setting the value of
\* the strongest source that names it, for any files, environment and flags.
LEMMA ConfiguredAsTold ==
  ASSUME NEW files, NEW env, NEW flags, Len(files) \in Nat, DOMAIN files = 1..Len(files)
  PROVE  ApplyFlagOverrides(LoadFromFiles(files, env), flags)
           = [s \in Setting |-> Strongest(files, env, flags, s)]
<1> DEFINE Value(s) == IF s \in DOMAIN EnvSource(env) THEN env[s]
                       ELSE LastSays(DefaultConfig, files, Len(files), s)
           Named(s) == IF s = "environment" THEN normalizeEnvironment(Value(s)) ELSE Value(s)
           flag == IF flags.p # 0 THEN flags.p ELSE flags.port
           Told(s) == IF s = "port" /\ flag > 0 THEN flag ELSE Named(s)
<1>1. Setting = {"environment", "port", "apiURL", "jwtSecret", "serviceKey"}
  BY ZenonT(60) DEF Setting, DefaultConfig
<1>2. Override(Merge(DefaultConfig, files), EnvSource(env)) = [s \in Setting |-> Value(s)]
  <2>1. Merge(DefaultConfig, files)
          = [s \in Setting |-> LastSays(DefaultConfig, files, Len(files), s)]
    <3>1. IsConfig(DefaultConfig)
      <4>1. DefaultConfig = [s \in DOMAIN DefaultConfig |-> DefaultConfig[s]]
        <5> DEFINE empty == ""
        <5>1. DefaultConfig = [environment |-> "prod", port |-> 8080, apiURL |-> "url",
                               jwtSecret |-> empty, serviceKey |-> empty]
          BY DEF DefaultConfig
        <5> HIDE DEF empty
        <5>2. QED
          BY <5>1, SMTT(60)
      <4>2. QED
        BY <4>1, SMTT(60) DEF IsConfig, Setting
    <3>2. QED
      BY <3>1, MergeTells
  <2>2. \A s \in DOMAIN EnvSource(env) : EnvSource(env)[s] = env[s]
    BY ZenonT(60) DEF EnvSource
  <2> HIDE DEF Setting
  <2>3. QED
    BY <2>1, <2>2, SMTT(60) DEF Override
<1>3. LoadFromFiles(files, env) = [s \in Setting |-> Named(s)]
  <2> DEFINE cfg0 == Override(Merge(DefaultConfig, files), EnvSource(env))
  <2>1. LoadFromFiles(files, env)
          = [cfg0 EXCEPT !.environment = normalizeEnvironment(cfg0.environment)]
    BY ZenonT(60) DEF LoadFromFiles
  <2> HIDE DEF cfg0
  <2>2. cfg0 = [s \in Setting |-> Value(s)]
    BY <1>2, SMTT(60) DEF cfg0
  <2> HIDE DEF Value
  <2>3. QED
    BY <1>1, <2>1, <2>2
<1>4. ApplyFlagOverrides(LoadFromFiles(files, env), flags) = [s \in Setting |-> Told(s)]
  <2> DEFINE cfg0 == LoadFromFiles(files, env)
  <2>1. ApplyFlagOverrides(cfg0, flags) = IF flag > 0 THEN [cfg0 EXCEPT !.port = flag] ELSE cfg0
    BY DEF ApplyFlagOverrides
  <2> HIDE DEF cfg0, Named, flag
  <2>2. cfg0 = [s \in Setting |-> Named(s)]
    BY <1>3 DEF cfg0
  <2>3. ApplyFlagOverrides(cfg0, flags) = [s \in Setting |-> Told(s)]
    BY <1>1, <2>1, <2>2, ZenonT(60)
  <2>4. QED
    BY <2>3 DEF cfg0
<1>5. ASSUME NEW s \in Setting PROVE Told(s) = Strongest(files, env, flags, s)
  <2> DEFINE naming == {i \in DOMAIN files : s \in DOMAIN files[i]}
             last == IF naming # {} THEN files[CHOOSE i \in naming : \A j \in naming : j <= i][s]
                     ELSE DefaultConfig[s]
             value == IF s = "port" /\ flag > 0 THEN flag
                      ELSE IF s \in DOMAIN EnvSource(env) THEN env[s] ELSE last
  <2>1. Strongest(files, env, flags, s)
          = IF s = "environment" THEN normalizeEnvironment(value) ELSE value
    BY DEF Strongest
  <2>2. LastSays(DefaultConfig, files, Len(files), s) = last
    <3>1. Naming(files, Len(files), s) = naming
      BY ZenonT(60) DEF Naming
    <3> DEFINE Last(N) == IF N # {} THEN files[CHOOSE i \in N : \A j \in N : j <= i][s]
                          ELSE DefaultConfig[s]
    <3>2. /\ LastSays(DefaultConfig, files, Len(files), s) = Last(Naming(files, Len(files), s))
          /\ last = Last(naming)
      BY DEF LastSays
    <3> HIDE DEF Last, naming, last
    <3>3. QED
      BY <3>1, <3>2
  <2> HIDE DEF last, flag
  <2>3. QED
    BY <2>1, <2>2, ZenonT(60)
<1> HIDE DEF Told
<1>6. QED
  BY <1>4, <1>5, SMTT(60)
-----------------------------------------------------------------------------
\* A process that still has its sources has not booted and has no listener, and
\* what it is configured with is what they tell.
SettingsInv ==
  /\ source \in Source \cup {None}
  /\ main = "load" => source \in Source
  /\ source # None => main \in {"load", "boot", "exited"} /\ server = "off"
  /\ SettingsAsTold

\* Loading the configuration starts or ends the process as the sources tell.
LEMMA LoadTells == ASSUME SettingsInv, LoadConfig PROVE SettingsInv'
<1> DEFINE files == source[1]
           told == [s \in Setting |-> Strongest(source[1], source[2], source[3], s)]
           bad == \E i \in DOMAIN files : files[i] = Bad
<1>1. main = "load" /\ source \in Source /\ source # None /\ source' = source /\ server' = server
      /\ server = "off"
  BY SourceAssumption, ZenonT(60) DEF SettingsInv, LoadConfig
<1>2. ApplyFlagOverrides(LoadFromFiles(source[1], source[2]), source[3]) = told
  <2>1. Len(source[1]) \in Nat /\ DOMAIN source[1] = 1..Len(source[1])
    BY <1>1, SourceAssumption, SMTT(60)
  <2>2. QED
    BY <2>1, ConfiguredAsTold, SMTT(60)
<1> HIDE DEF told
<1>3. Configure(source[1], source[2], source[3])
        = IF bad THEN {} ELSE IF Valid(told) THEN {told} ELSE {}
  BY <1>2, SMTT(60) DEF Configure
<1> HIDE DEF bad
<1>4. \/ main' = "boot" /\ ~bad /\ cfg' = told
      \/ main' = "exited" /\ (bad \/ ~Valid(told))
  BY <1>3, SMTT(60) DEF LoadConfig
<1>5. told' = told /\ bad' = bad
  BY <1>1 DEF told, bad
<1>6. SettingsAsTold'
  <2>1. SettingsAsTold' = (source' # None => /\ main' = "boot" => ~bad' /\ cfg' = told'
                                             /\ main' = "exited" => bad' \/ ~Valid(told)')
    BY DEF SettingsAsTold, told, bad
  <2>2. Valid(told)' = Valid(told)
    BY <1>5 DEF Valid, IsDevMode
  <2>3. QED
    BY <1>4, <1>5, <2>1, <2>2, ZenonT(60)
<1>7. QED
  BY <1>1, <1>4, <1>6, ZenonT(60) DEF SettingsInv

\* The portal starts only with what its files, environment and flags tell it, and
\* refuses to start only when one of the files is bad or what they tell is invalid:
\* for any number of files and any contents.
THEOREM StartsAsTold == LifeSpec => []SettingsAsTold
<1>1. LifeInit => SettingsInv
  BY SourceAssumption, SMTT(60) DEF LifeInit, SettingsInv, SettingsAsTold
<1>2. SettingsInv /\ [LifeNext]_allVars => SettingsInv'
  <2> SUFFICES ASSUME SettingsInv, [LifeNext]_allVars PROVE SettingsInv'
    OBVIOUS
  <2>i. /\ source \in Source \cup {None}
        /\ main = "load" => source \in Source
        /\ source # None => main \in {"load", "boot", "exited"} /\ server = "off"
        /\ SettingsAsTold
    BY ZenonT(60) DEF SettingsInv
  <2>s. ASSUME UNCHANGED <<main, source, cfg, server>> PROVE SettingsInv'
    BY <2>i, <2>s, ZenonT(60) DEF SettingsInv, SettingsAsTold
  <2>n. ASSUME source' = None, main' # "load" PROVE SettingsInv'
    BY <2>n DEF SettingsInv, SettingsAsTold
  <2>1. CASE LoadConfig
    BY <2>1, LoadTells
  <2>2. CASE Boot
    BY <2>2, <2>n, ZenonT(60) DEF Boot
  <2>3. CASE Start
    BY <2>3, <2>i, <2>n, SourceAssumption, ZenonT(60) DEF Start, ProcessEnds
  <2>4. CASE Signal
    BY <2>4, <2>i, <2>n, ZenonT(60) DEF Signal, Running, ProcessEnds
  <2>5. CASE Notify \/ Select \/ Shutdown \/ CloseApp \/ Return
    BY <2>5, <2>i, <2>n, ZenonT(60) DEF Notify, Select, Shutdown, CloseApp, Return, ProcessEnds
  <2>6. CASE CloseLog \/ HandleShutdown \/ StoreStep
    BY <2>6, <2>s, ZenonT(60) DEF CloseLog, HandleShutdown, StoreStep, process
  <2>7. ASSUME NEW r \in Request, Begin(r) \/ Finish(r) PROVE SettingsInv'
    BY <2>7, <2>s, ZenonT(60) DEF Begin, Finish
  <2>8. ASSUME NEW e \in Entry, Log(e) \/ Write(e) PROVE SettingsInv'
    BY <2>8, <2>s, ZenonT(60) DEF Log, Write, process
  <2>9. CASE UNCHANGED allVars
    BY <2>9, <2>s DEF allVars, process
  <2>10. QED
    BY <2>1, <2>2, <2>3, <2>4, <2>5, <2>6, <2>7, <2>8, <2>9, SMTT(60) DEF LifeNext, MainStep
<1>3. SettingsInv => SettingsAsTold
  BY DEF SettingsInv
<1>4. QED
  BY <1>1, <1>2, <1>3, PTL DEF LifeSpec
=============================================================================
