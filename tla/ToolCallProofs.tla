--------------------------- MODULE ToolCallProofs ---------------------------
(***************************************************************************)
(* Proofs about the MCP tools, for any catalogs, credentials and arguments *)
(* and any failures of vire-server: what NewHandler and RefreshCatalog     *)
(* register is what one build offers, and what a call sends is the         *)
(* caller's.                                                               *)
(***************************************************************************)
EXTENDS ToolCall, TLAPS

INSTANCE WellFoundedInduction

\* Every set of natural numbers that is not empty has a least element.
LEMMA LeastIn ==
  ASSUME NEW T, T \subseteq Nat, T # {}
  PROVE  \E n \in T : \A m \in T : n <= m
<1> DEFINE R == {ss \in Nat \X Nat : ss[1] < ss[2]}
<1>1. IsWellFoundedOn(R, Nat)
  BY NatLessThanWellFounded DEF OpToRel
<1>2. PICK n \in T : \A m \in T : <<m, n>> \notin R
  <2> HIDE DEF R
  <2> QED
    BY <1>1, WFMin, ZenonT(60)
<1>3. \A m \in T : ~(m < n)
  BY <1>2, ZenonT(60)
<1>4. QED
  BY <1>3

\* Induction over the natural numbers, for sets.
LEMMA Induction ==
  ASSUME NEW S, 0 \in S, \A n \in Nat : n \in S => n + 1 \in S
  PROVE  Nat \subseteq S
<1> DEFINE T == Nat \ S
<1> SUFFICES ASSUME T # {} PROVE FALSE
  OBVIOUS
<1>1. PICK n \in T : \A m \in T : n <= m
  <2> HIDE DEF T
  <2>1. T \subseteq Nat
    BY DEF T
  <2>2. QED
    BY <2>1, LeastIn, ZenonT(60)
<1>2. n \in Nat /\ n # 0
  OBVIOUS
<1>3. n - 1 \in Nat /\ n - 1 < n
  BY <1>2
<1>4. n - 1 \in S
  BY <1>1, <1>3
<1>5. n - 1 + 1 \in S
  BY <1>3, <1>4
<1>6. QED
  BY <1>2, <1>5

-----------------------------------------------------------------------------
\* ValidateCatalog.

\* The entries kept after each of the first k.
KeepLoop(g, entries, k) ==
  g = [i \in 0..k |-> IF i = 0 THEN <<>> ELSE Keep(g[i - 1], entries[i])]

\* The loop of ValidateCatalog has a result, however many entries there are.
LEMMA KeepLoopExists ==
  ASSUME NEW entries
  PROVE  \A k \in Nat : \E g : KeepLoop(g, entries, k)
<1> DEFINE S == {k \in Nat : \E g : KeepLoop(g, entries, k)}
<1>1. 0 \in S
  <2>1. KeepLoop([i \in 0..0 |-> <<>>], entries, 0)
    BY DEF KeepLoop
  <2> QED
    BY <2>1
<1>2. ASSUME NEW k \in Nat, k \in S PROVE k + 1 \in S
  <2>1. PICK g : KeepLoop(g, entries, k)
    BY <1>2
  <2> DEFINE h == [i \in 0..(k + 1) |-> IF i <= k THEN g[i] ELSE Keep(g[k], entries[k + 1])]
  <2>2. KeepLoop(h, entries, k + 1)
    <3>1. ASSUME NEW i \in 0..(k + 1)
          PROVE  h[i] = IF i = 0 THEN <<>> ELSE Keep(h[i - 1], entries[i])
      BY <2>1, SMTT(60) DEF KeepLoop
    <3> QED
      BY <3>1 DEF KeepLoop
  <2> HIDE DEF h
  <2> QED
    BY <2>2
<1>3. Nat \subseteq S
  <2> HIDE DEF S
  <2> QED
    BY <1>1, <1>2, Induction
<1> QED
  BY <1>3

\* The valid ones of the first k entries, and the first of each name among them.
ValidIn(entries, k) == {i \in 1..k : ValidateCatalogTool(entries[i])}
IsFirst(entries, k, i) ==
  /\ i \in ValidIn(entries, k)
  /\ \A j \in ValidIn(entries, k) : entries[j].name = entries[i].name => i <= j

\* List v holds the first valid entry of each name of the first k, once.
Keeps(v, entries, k) ==
  /\ v \in Seq(CatalogTool)
  /\ \A i \in DOMAIN v : \E j \in 1..k : IsFirst(entries, k, j) /\ v[i] = entries[j]
  /\ \A j \in 1..k : IsFirst(entries, k, j) => \E i \in DOMAIN v : v[i] = entries[j]
  /\ \A i, j \in DOMAIN v : v[i].name = v[j].name => i = j

\* One round of the loop.
LEMMA KeepStep ==
  ASSUME NEW entries \in Seq(CatalogTool), NEW k \in Nat, k + 1 <= Len(entries),
         NEW v, Keeps(v, entries, k)
  PROVE  Keeps(Keep(v, entries[k + 1]), entries, k + 1)
<1> DEFINE ct == entries[k + 1]
           w == Keep(v, ct)
           known == \E i \in DOMAIN v : v[i].name = ct.name
<1>t. /\ v \in Seq(CatalogTool)
      /\ \A i \in DOMAIN v : \E j \in 1..k : IsFirst(entries, k, j) /\ v[i] = entries[j]
      /\ \A j \in 1..k : IsFirst(entries, k, j) => \E i \in DOMAIN v : v[i] = entries[j]
      /\ \A i, j \in DOMAIN v : v[i].name = v[j].name => i = j
  BY DEF Keeps
<1>c. ct \in CatalogTool /\ Len(v) \in Nat /\ DOMAIN v = 1..Len(v)
  BY <1>t
<1>1. \A j \in 1..k : IsFirst(entries, k + 1, j) <=> IsFirst(entries, k, j)
  BY DEF IsFirst, ValidIn
<1>2. CASE ValidateCatalogTool(ct) /\ ~known
  <2>1. w = Append(v, ct)
    BY <1>2 DEF Keep
  <2>2. /\ w \in Seq(CatalogTool) /\ DOMAIN w = 1..(Len(v) + 1)
        /\ \A i \in DOMAIN v : w[i] = v[i]
        /\ w[Len(v) + 1] = ct
    BY <1>t, <1>c, <2>1
  <2>3. IsFirst(entries, k + 1, k + 1)
    <3>1. k + 1 \in ValidIn(entries, k + 1)
      BY <1>2 DEF ValidIn
    <3>2. ASSUME NEW j \in ValidIn(entries, k + 1), entries[j].name = ct.name, j <= k
          PROVE  FALSE
      <4> DEFINE same == {m \in Nat : m \in ValidIn(entries, k) /\ entries[m].name = ct.name}
      <4>1. j \in same
        BY <3>2 DEF ValidIn
      <4>2. PICK m \in same : \A n \in same : m <= n
        <5>1. same \subseteq Nat /\ same # {}
          BY <4>1
        <5> HIDE DEF same
        <5>2. QED
          BY <5>1, LeastIn, ZenonT(60)
      <4>3. m \in 1..k /\ IsFirst(entries, k, m)
        BY <4>2 DEF IsFirst, ValidIn
      <4>4. PICK i \in DOMAIN v : v[i] = entries[m]
        BY <1>t, <4>3
      <4>5. QED
        BY <1>2, <4>2, <4>4
    <3>3. QED
      BY <3>1, <3>2 DEF IsFirst, ValidIn
  <2>4. ASSUME NEW i \in DOMAIN w
        PROVE  \E j \in 1..(k + 1) : IsFirst(entries, k + 1, j) /\ w[i] = entries[j]
    <3> HIDE DEF w
    <3>1. CASE i = Len(v) + 1
      BY <2>2, <2>3, <3>1
    <3>2. CASE i \in DOMAIN v
      <4>1. PICK j \in 1..k : IsFirst(entries, k, j) /\ v[i] = entries[j]
        BY <1>t, <3>2
      <4>2. j \in 1..(k + 1) /\ IsFirst(entries, k + 1, j) /\ w[i] = entries[j]
        BY <1>1, <2>2, <3>2, <4>1
      <4>3. QED
        BY <4>2
    <3>3. QED
      BY <1>c, <2>2, <3>1, <3>2
  <2>5. ASSUME NEW j \in 1..(k + 1), IsFirst(entries, k + 1, j)
        PROVE  \E i \in DOMAIN w : w[i] = entries[j]
    <3> HIDE DEF w
    <3>1. CASE j = k + 1
      BY <1>c, <2>2, <3>1
    <3>2. CASE j \in 1..k
      <4>1. PICK i \in DOMAIN v : v[i] = entries[j]
        BY <1>t, <1>1, <2>5, <3>2
      <4>2. i \in DOMAIN w /\ w[i] = entries[j]
        BY <1>c, <2>2, <4>1
      <4>3. QED
        BY <4>2
    <3>3. QED
      BY <3>1, <3>2
  <2>6. ASSUME NEW i \in DOMAIN w, NEW j \in DOMAIN w, w[i].name = w[j].name
        PROVE  i = j
    <3> HIDE DEF w
    <3>1. \A m \in DOMAIN w : m \in DOMAIN v \/ m = Len(v) + 1
      BY <1>c, <2>2
    <3>2. \A m \in DOMAIN v : w[m].name # w[Len(v) + 1].name
      BY <1>2, <2>2
    <3>3. QED
      BY <1>t, <2>2, <2>6, <3>1, <3>2, SMTT(60)
  <2>7. QED
    BY <2>2, <2>4, <2>5, <2>6 DEF Keeps
<1>3. CASE ~(ValidateCatalogTool(ct) /\ ~known)
  <2>1. w = v
    BY <1>3 DEF Keep
  <2>2. ~IsFirst(entries, k + 1, k + 1)
    <3>1. CASE ~ValidateCatalogTool(ct)
      BY <3>1 DEF IsFirst, ValidIn
    <3>2. CASE known
      <4>1. PICK i \in DOMAIN v : v[i].name = ct.name
        BY <3>2
      <4>2. PICK j \in 1..k : IsFirst(entries, k, j) /\ v[i] = entries[j]
        BY <1>t
      <4>3. QED
        BY <4>1, <4>2 DEF IsFirst, ValidIn
    <3>3. QED
      BY <1>3, <3>1, <3>2
  <2>3. \A i \in DOMAIN v : \E j \in 1..(k + 1) : IsFirst(entries, k + 1, j) /\ v[i] = entries[j]
    BY <1>t, <1>1
  <2>4. ASSUME NEW j \in 1..(k + 1), IsFirst(entries, k + 1, j)
        PROVE  \E i \in DOMAIN v : v[i] = entries[j]
    <3>1. j \in 1..k
      BY <2>2, <2>4
    <3>2. QED
      BY <1>t, <1>1, <2>4, <3>1
  <2>5. QED
    BY <1>t, <2>1, <2>3, <2>4 DEF Keeps
<1>4. QED
  BY <1>2, <1>3

\* ValidateCatalog keeps the first valid entry of each name, once, whatever
\* catalog vire-server sends.
LEMMA ValidateKeeps ==
  ASSUME NEW entries \in Seq(CatalogTool)
  PROVE  Keeps(ValidateCatalog(entries), entries, Len(entries))
<1> DEFINE n == Len(entries)
           g == CHOOSE g : KeepLoop(g, entries, n)
           S == {k \in Nat : k <= n => Keeps(g[k], entries, k)}
<1>n. n \in Nat
  OBVIOUS
<1>1. KeepLoop(g, entries, n)
  <2>1. \E f : KeepLoop(f, entries, n)
    BY <1>n, KeepLoopExists, ZenonT(60)
  <2>2. QED
    BY <2>1, Zenon
<1>2. ValidateCatalog(entries) = g[n]
  BY DEF ValidateCatalog, KeepLoop
<1> HIDE DEF g, n
<1>3. \A i \in 0..n : g[i] = IF i = 0 THEN <<>> ELSE Keep(g[i - 1], entries[i])
  BY <1>1, ZenonT(60) DEF KeepLoop
<1>4. 0 \in S
  <2>1. g[0] = <<>>
    BY <1>n, <1>3
  <2>2. <<>> \in Seq(CatalogTool) /\ DOMAIN <<>> = {} /\ 1..0 = {}
    OBVIOUS
  <2>3. Keeps(<<>>, entries, 0)
    BY <2>2 DEF Keeps
  <2>4. QED
    BY <2>1, <2>3
<1>5. ASSUME NEW k \in Nat, k \in S PROVE k + 1 \in S
  <2> SUFFICES ASSUME k + 1 <= n PROVE Keeps(g[k + 1], entries, k + 1)
    OBVIOUS
  <2>1. Keeps(g[k], entries, k)
    BY <1>n, <1>5
  <2>2. g[k + 1] = Keep(g[k], entries[k + 1])
    <3>1. k + 1 \in 0..n /\ k + 1 # 0 /\ k + 1 - 1 = k
      BY <1>n
    <3>2. QED
      BY <1>3, <3>1
  <2>3. Keeps(Keep(g[k], entries[k + 1]), entries, k + 1)
    BY <2>1, KeepStep DEF n
  <2>4. QED
    BY <2>2, <2>3
<1>6. Nat \subseteq S
  <2> HIDE DEF S
  <2> QED
    BY <1>4, <1>5, Induction
<1>7. QED
  BY <1>n, <1>2, <1>6 DEF n
-----------------------------------------------------------------------------
\* RegisterToolsFromCatalog.

\* The registered tools after each of the first k entries.
AddLoop(g, entries, k) ==
  g = [i \in 0..k |-> IF i = 0 THEN <<>> ELSE AddTool(g[i - 1], entries[i].name, entries[i])]

\* The loop of RegisterToolsFromCatalog has a result.
LEMMA AddLoopExists ==
  ASSUME NEW entries
  PROVE  \A k \in Nat : \E g : AddLoop(g, entries, k)
<1> DEFINE S == {k \in Nat : \E g : AddLoop(g, entries, k)}
           Add(r, ct) == AddTool(r, ct.name, ct)
<1>1. 0 \in S
  <2>1. AddLoop([i \in 0..0 |-> <<>>], entries, 0)
    BY DEF AddLoop
  <2> QED
    BY <2>1
<1>2. ASSUME NEW k \in Nat, k \in S PROVE k + 1 \in S
  <2>1. PICK g : AddLoop(g, entries, k)
    BY <1>2
  <2> DEFINE h == [i \in 0..(k + 1) |-> IF i <= k THEN g[i] ELSE Add(g[k], entries[k + 1])]
  <2>2. AddLoop(h, entries, k + 1)
    <3>0. g = [i \in 0..k |-> IF i = 0 THEN <<>> ELSE Add(g[i - 1], entries[i])]
      BY <2>1 DEF AddLoop
    <3>1. ASSUME NEW i \in 0..(k + 1)
          PROVE  h[i] = IF i = 0 THEN <<>> ELSE Add(h[i - 1], entries[i])
      <4> HIDE DEF Add
      <4> QED
        BY <3>0, SMTT(60)
    <3> QED
      BY <3>1 DEF AddLoop
  <2> HIDE DEF h
  <2> QED
    BY <2>2
<1>3. Nat \subseteq S
  <2> HIDE DEF S
  <2> QED
    BY <1>1, <1>2, Induction
<1> QED
  BY <1>3

\* Registry r holds exactly the first k entries, under their names.
Holds(r, entries, k) ==
  /\ r = [n \in {entries[i].name : i \in 1..k} |-> r[n]]
  /\ \A i \in 1..k : r[entries[i].name] = entries[i]

\* Entries of different names are all registered, each under its own.
LEMMA RegisterHolds ==
  ASSUME NEW entries \in Seq(CatalogTool),
         \A i, j \in DOMAIN entries : entries[i].name = entries[j].name => i = j
  PROVE  Holds(RegisterToolsFromCatalog(<<>>, entries), entries, Len(entries))
<1> DEFINE n == Len(entries)
           g == CHOOSE g : AddLoop(g, entries, n)
           S == {k \in Nat : k <= n => Holds(g[k], entries, k)}
<1>n. n \in Nat /\ DOMAIN entries = 1..n
  OBVIOUS
<1>1. AddLoop(g, entries, n)
  <2>1. \E f : AddLoop(f, entries, n)
    BY <1>n, AddLoopExists, ZenonT(60)
  <2>2. QED
    BY <2>1, Zenon
<1>2. RegisterToolsFromCatalog(<<>>, entries) = g[n]
  BY DEF RegisterToolsFromCatalog, AddLoop
<1> HIDE DEF g, n
<1>3. \A i \in 0..n :
        g[i] = IF i = 0 THEN <<>> ELSE AddTool(g[i - 1], entries[i].name, entries[i])
  <2> DEFINE Add(r, ct) == AddTool(r, ct.name, ct)
  <2>1. g = [i \in 0..n |-> IF i = 0 THEN <<>> ELSE Add(g[i - 1], entries[i])]
    BY <1>1, ZenonT(60) DEF AddLoop
  <2>2. \A i \in 0..n : g[i] = IF i = 0 THEN <<>> ELSE Add(g[i - 1], entries[i])
    <3> HIDE DEF Add
    <3> QED
      BY <2>1, ZenonT(60)
  <2>3. QED
    BY <2>2
<1>4. 0 \in S
  <2>1. g[0] = <<>>
    BY <1>n, <1>3
  <2>2. {entries[i].name : i \in 1..0} = {}
    OBVIOUS
  <2>3. <<>> = [m \in {} |-> <<>>[m]]
    OBVIOUS
  <2>4. Holds(<<>>, entries, 0)
    BY <2>2, <2>3 DEF Holds
  <2>5. QED
    BY <2>1, <2>4
<1>5. ASSUME NEW k \in Nat, k \in S PROVE k + 1 \in S
  <2> SUFFICES ASSUME k + 1 <= n PROVE Holds(g[k + 1], entries, k + 1)
    OBVIOUS
  <2> DEFINE ct == entries[k + 1]
             names == {entries[i].name : i \in 1..k}
  <2>1. /\ DOMAIN g[k] = names
        /\ \A i \in 1..k : g[k][entries[i].name] = entries[i]
    BY <1>n, <1>5, SMTT(60) DEF Holds
  <2>2. g[k + 1] = [m \in names \cup {ct.name} |-> IF m = ct.name THEN ct ELSE g[k][m]]
    <3>1. k + 1 \in 0..n /\ k + 1 # 0 /\ k + 1 - 1 = k
      BY <1>n
    <3>2. g[k + 1] = AddTool(g[k], ct.name, ct)
      BY <1>3, <3>1
    <3>3. QED
      BY <2>1, <3>2 DEF AddTool
  <2>3. names \cup {ct.name} = {entries[i].name : i \in 1..(k + 1)}
    OBVIOUS
  <2>4. \A i \in 1..k : entries[i].name # ct.name
    BY <1>n, SMTT(60)
  <2>5. \A i \in 1..(k + 1) : g[k + 1][entries[i].name] = entries[i]
    BY <2>1, <2>2, <2>4
  <2>6. QED
    BY <2>2, <2>3, <2>5, ZenonT(60) DEF Holds
<1>6. Nat \subseteq S
  <2> HIDE DEF S
  <2> QED
    BY <1>4, <1>5, Induction
<1>7. QED
  BY <1>n, <1>2, <1>6 DEF n

\* Of the valid entries of a name there is a first one.
LEMMA FirstOfName ==
  ASSUME NEW entries, NEW k, NEW i \in ValidIn(entries, k)
  PROVE  \E j \in ValidIn(entries, k) : IsFirst(entries, k, j) /\ entries[j].name = entries[i].name
<1> DEFINE same == {m \in ValidIn(entries, k) : entries[m].name = entries[i].name}
<1>1. same \subseteq Nat /\ same # {}
  BY DEF ValidIn
<1>2. PICK j \in same : \A m \in same : j <= m
  <2> HIDE DEF same
  <2>1. QED
    BY <1>1, LeastIn, ZenonT(60)
<1>3. QED
  BY <1>2 DEF IsFirst

\* The tools that NewHandler and RefreshCatalog register for the catalog of a build
\* are the ones that build offers: the portal's own, and the first valid entry of
\* every other name.  This holds for every catalog, whatever is invalid in it,
\* listed twice, or named like a tool of the portal.
THEOREM RegistersOffered == \A b \in 1..MaxBuilds : Registry(Validated[b]) = ToolsOf(b)
<1> SUFFICES ASSUME NEW b \in 1..MaxBuilds PROVE Registry(Validated[b]) = ToolsOf(b)
  OBVIOUS
<1> DEFINE entries == Offer[b]
           k == Len(entries)
           v == ValidateCatalog(entries)
           r == RegisterToolsFromCatalog(<<>>, v)
           local == {"get_version", "portal_get_page"}
           valid == {i \in DOMAIN entries : ValidateCatalogTool(entries[i])}
           of(n) == {i \in valid : entries[i].name = n}
           First(n) == entries[CHOOSE i \in of(n) : \A j \in of(n) : i <= j]
<1>e. entries \in Seq(CatalogTool) /\ k \in Nat /\ DOMAIN entries = 1..k
  BY WatcherAssumption DEF MaxBuilds
<1>k. /\ v \in Seq(CatalogTool) /\ Len(v) \in Nat /\ DOMAIN v = 1..Len(v)
      /\ \A i \in DOMAIN v : \E j \in 1..k : IsFirst(entries, k, j) /\ v[i] = entries[j]
      /\ \A j \in 1..k : IsFirst(entries, k, j) => \E i \in DOMAIN v : v[i] = entries[j]
      /\ \A i, j \in DOMAIN v : v[i].name = v[j].name => i = j
  <2>1. Keeps(v, entries, k)
    BY <1>e, ValidateKeeps
  <2> HIDE DEF v, entries, k
  <2>2. QED
    BY <2>1 DEF Keeps
<1>h. /\ DOMAIN r = {v[i].name : i \in DOMAIN v}
      /\ \A i \in DOMAIN v : r[v[i].name] = v[i]
  <2>1. Holds(r, v, Len(v))
    <3> HIDE DEF v, entries, k
    <3> QED
      BY <1>k, RegisterHolds, ZenonT(60)
  <2> HIDE DEF v, r
  <2>2. QED
    BY <1>k, <2>1, ZenonT(60) DEF Holds
<1>r. Validated[b] = v
  BY DEF Validated
<1>1. Registry(v) = [n \in local \cup DOMAIN r |-> IF n \in local THEN Local ELSE r[n]]
  <2> HIDE DEF v
  <2>1. Registry(v) = AddTool(AddTool(r, "get_version", Local), "portal_get_page", Local)
    BY DEF Registry
  <2> HIDE DEF r
  <2>2. QED
    BY <2>1 DEF AddTool
<1>2. ToolsOf(b) = [n \in local \cup {entries[i].name : i \in valid} |->
                      IF n \in local THEN Local ELSE First(n)]
  BY DEF ToolsOf
<1>v. valid = ValidIn(entries, k)
  BY <1>e DEF ValidIn
<1> HIDE DEF v, r, entries, k, valid
<1>3. DOMAIN r = {entries[i].name : i \in valid}
  <2>1. ASSUME NEW i \in DOMAIN v PROVE \E j \in valid : entries[j].name = v[i].name
    BY <1>k, <1>v, ZenonT(60) DEF IsFirst
  <2>2. ASSUME NEW j \in valid PROVE \E i \in DOMAIN v : v[i].name = entries[j].name
    <3>1. PICK m \in ValidIn(entries, k) :
            IsFirst(entries, k, m) /\ entries[m].name = entries[j].name
      BY <1>v, FirstOfName
    <3>2. PICK i \in DOMAIN v : v[i] = entries[m]
      BY <1>k, <3>1, ZenonT(60) DEF ValidIn
    <3>3. QED
      BY <3>1, <3>2
  <2>3. QED
    BY <1>h, <2>1, <2>2
<1>4. ASSUME NEW n \in DOMAIN r PROVE r[n] = First(n)
  <2>1. PICK i \in DOMAIN v : n = v[i].name
    BY <1>h
  <2>2. PICK j \in 1..k : IsFirst(entries, k, j) /\ v[i] = entries[j]
    BY <1>k
  <2>3. j \in of(n) /\ \A m \in of(n) : j <= m
    BY <1>v, <2>1, <2>2 DEF IsFirst
  <2>4. \A m \in of(n) : m \in Nat
    BY <1>e, <1>v DEF ValidIn
  <2> DEFINE same == of(n)
  <2>5. j \in same /\ \A m \in same : j <= m /\ m \in Nat
    BY <2>3, <2>4
  <2> HIDE DEF same, of
  <2>6. (CHOOSE m \in same : \A l \in same : m <= l) = j
    <3>1. \A m \in same : (\A l \in same : m <= l) => m = j
      BY <2>5
    <3>2. QED
      BY <2>5, <3>1, ZenonT(60)
  <2>7. First(n) = entries[j]
    BY <2>6, ZenonT(60) DEF same
  <2>8. QED
    BY <1>h, <2>1, <2>2, <2>7
<1> HIDE DEF First, local
<1>5. QED
  BY <1>r, <1>1, <1>2, <1>3, <1>4
-----------------------------------------------------------------------------
\* The watcher.

IsRegistry(r) == \A n \in DOMAIN r : r[n] \in CatalogTool \cup {Local}

\* What is registered for a list of entries of different names are those entries and
\* the portal's own tools.
LEMMA RegistryTyped ==
  ASSUME NEW entries \in Seq(CatalogTool),
         \A i, j \in DOMAIN entries : entries[i].name = entries[j].name => i = j
  PROVE  IsRegistry(Registry(entries))
<1> DEFINE r == RegisterToolsFromCatalog(<<>>, entries)
<1>1. Holds(r, entries, Len(entries))
  BY RegisterHolds
<1> HIDE DEF r
<1>n. DOMAIN entries = 1..Len(entries)
  OBVIOUS
<1>2. /\ DOMAIN r = {entries[i].name : i \in DOMAIN entries}
      /\ \A i \in DOMAIN entries : r[entries[i].name] = entries[i]
  BY <1>1, <1>n DEF Holds
<1>3. \A i \in DOMAIN entries : entries[i] \in CatalogTool
  OBVIOUS
<1>4. IsRegistry(r)
  BY <1>2, <1>3 DEF IsRegistry
<1>5. ASSUME NEW f, IsRegistry(f), NEW n PROVE IsRegistry(AddTool(f, n, Local))
  BY <1>5 DEF IsRegistry, AddTool
<1>6. Registry(entries) = AddTool(AddTool(r, "get_version", Local), "portal_get_page", Local)
  BY DEF Registry, r
<1>7. IsRegistry(AddTool(r, "get_version", Local))
  BY <1>4, <1>5, Zenon
<1>8. IsRegistry(AddTool(AddTool(r, "get_version", Local), "portal_get_page", Local))
  BY <1>5, <1>7, Zenon
<1>9. QED
  BY <1>6, <1>8

\* What the watcher validates and registers has its type.
LEMMA BuildTyped ==
  /\ \A b \in 1..MaxBuilds :
       Validated[b] \in Seq(CatalogTool) /\ IsRegistry(Registry(Validated[b]))
  /\ IsRegistry(Registry(<<>>))
<1>1. ASSUME NEW b \in 1..MaxBuilds
      PROVE  Validated[b] \in Seq(CatalogTool) /\ IsRegistry(Registry(Validated[b]))
  <2> DEFINE v == ValidateCatalog(Offer[b])
  <2>1. Offer[b] \in Seq(CatalogTool)
    BY WatcherAssumption DEF MaxBuilds
  <2>2. Keeps(v, Offer[b], Len(Offer[b]))
    BY <2>1, ValidateKeeps
  <2>3. Validated[b] = v
    BY DEF Validated
  <2> HIDE DEF v
  <2>4. v \in Seq(CatalogTool) /\ \A i, j \in DOMAIN v : v[i].name = v[j].name => i = j
    BY <2>2 DEF Keeps
  <2>5. QED
    BY <2>3, <2>4, RegistryTyped
<1>2. IsRegistry(Registry(<<>>))
  <2>1. <<>> \in Seq(CatalogTool) /\ DOMAIN <<>> = {}
    OBVIOUS
  <2>2. QED
    BY <2>1, RegistryTyped, ZenonT(60)
<1>3. QED
  BY <1>1, <1>2

\* The fetched catalog is one build's, and the channel is closed at most once.
WatchInv ==
  /\ TypeOK
  /\ pc = "boot" => attempt <= Retries + 1 /\ tools = <<>> /\ catalog = <<>>
  /\ pc \in {"set", "publish"} => \E b \in 1..build : got = Validated[b]
  /\ pc = "publish" => tools = Registry(got)
  /\ closing => stopWatch = 0
  /\ OneBuild

\* Every step of vire-server and of the watcher keeps the invariant.
LEMMA WatchStep == ASSUME WatchInv, [Next]_vars PROVE WatchInv'
<1>t. /\ up \in BOOLEAN /\ build \in 1..MaxBuilds /\ outages \in 0..MaxOutages
      /\ pc \in {"boot", "first", "wait", "fetch", "set", "publish", "stopped"}
      /\ attempt \in 1..(Retries + 2) /\ lastBuild \in 0..MaxBuilds
      /\ got \in Seq(CatalogTool) /\ IsRegistry(tools) /\ catalog \in Seq(CatalogTool)
      /\ stopWatch \in 0..1 /\ closing \in BOOLEAN
  BY DEF WatchInv, TypeOK, IsRegistry
<1>i. /\ pc = "boot" => attempt <= Retries + 1 /\ tools = <<>> /\ catalog = <<>>
      /\ pc \in {"set", "publish"} => \E b \in 1..build : got = Validated[b]
      /\ pc = "publish" => tools = Registry(got)
      /\ closing => stopWatch = 0
      /\ pc # "boot" => tools = Registry(<<>>) \/ \E b \in 1..build : tools = ToolsOf(b)
      /\ pc \notin {"boot", "publish"} => tools = Registry(catalog)
  BY DEF WatchInv, OneBuild
<1>a. Retries \in Nat /\ MaxOutages \in Nat /\ MaxBuilds \in Nat
  BY WatcherAssumption DEF MaxBuilds
<1>o. \A b \in 1..MaxBuilds : Registry(Validated[b]) = ToolsOf(b)
  BY RegistersOffered, SMTT(60)
<1>y. /\ \A b \in 1..MaxBuilds :
           Validated[b] \in Seq(CatalogTool) /\ IsRegistry(Registry(Validated[b]))
      /\ IsRegistry(Registry(<<>>))
  BY BuildTyped, SMTT(60)
<1>q. ASSUME /\ up' \in BOOLEAN /\ build' \in 1..MaxBuilds /\ outages' \in 0..MaxOutages
             /\ pc' \in {"boot", "first", "wait", "fetch", "set", "publish", "stopped"}
             /\ attempt' \in 1..(Retries + 2) /\ lastBuild' \in 0..MaxBuilds
             /\ got' \in Seq(CatalogTool) /\ IsRegistry(tools') /\ catalog' \in Seq(CatalogTool)
             /\ stopWatch' \in 0..1 /\ closing' \in BOOLEAN,
             /\ pc' = "boot" => attempt' <= Retries + 1 /\ tools' = <<>> /\ catalog' = <<>>
             /\ pc' \in {"set", "publish"} => \E b \in 1..build' : got' = Validated[b]
             /\ pc' = "publish" => tools' = Registry(got')
             /\ closing' => stopWatch' = 0
             /\ pc' # "boot" => tools' = Registry(<<>>) \/ \E b \in 1..build' : tools' = ToolsOf(b)
             /\ pc' \notin {"boot", "publish"} => tools' = Registry(catalog')
      PROVE  WatchInv'
  BY <1>q, SMTT(60) DEF WatchInv, TypeOK, IsRegistry, OneBuild
<1>1. CASE Deploy
  <2>1. /\ build < MaxBuilds /\ build' = build + 1
        /\ UNCHANGED <<up, outages, pc, attempt, lastBuild, got, tools, catalog, stopWatch,
                       closing>>
    BY <1>1 DEF Deploy
  <2>2. build' \in 1..MaxBuilds /\ \A b \in 1..build : b \in 1..build'
    BY <1>a, <1>t, <2>1, SMTT(60)
  <2>3. QED
    BY <1>t, <1>i, <1>q, <2>1, <2>2
<1>2. CASE ComeUp \/ GoDown
  <2>1. /\ up' \in BOOLEAN /\ outages' \in 0..MaxOutages
        /\ UNCHANGED <<build, pc, attempt, lastBuild, got, tools, catalog, stopWatch, closing>>
    <3>1. CASE ComeUp
      BY <3>1, <1>t DEF ComeUp
    <3>2. CASE GoDown
      <4>1. outages' \in 0..MaxOutages
        BY <3>2, <1>a, <1>t, SMTT(60) DEF GoDown
      <4>2. QED
        BY <3>2, <4>1, Zenon DEF GoDown
    <3>3. QED
      BY <1>2, <3>1, <3>2
  <2>2. QED
    BY <1>t, <1>i, <1>q, <2>1
<1>3. CASE FetchAtStart
  <2>1. pc = "boot" /\ UNCHANGED <<up, build, outages, lastBuild, got, stopWatch, closing>>
    BY <1>3, ZenonT(60) DEF FetchAtStart, server
  <2>2. CASE catalog' = Validated[build] /\ tools' = Registry(Validated[build])
             /\ pc' = "first" /\ UNCHANGED attempt
    BY <1>t, <1>i, <1>o, <1>y, <1>q, <2>1, <2>2, SMTT(60)
  <2>3. CASE attempt' = attempt + 1 /\ attempt < Retries /\ pc' = "boot"
             /\ UNCHANGED <<tools, catalog>>
    BY <1>a, <1>t, <1>i, <1>q, <2>1, <2>3, SMTT(60)
  <2>4. CASE attempt' = attempt + 1 /\ pc' = "first" /\ tools' = Registry(<<>>)
             /\ UNCHANGED catalog
    BY <1>a, <1>t, <1>i, <1>y, <1>q, <2>1, <2>4, SMTT(60)
  <2>5. QED
    BY <1>3, <2>2, <2>3, <2>4, ZenonT(60) DEF FetchAtStart
<1>4. CASE FirstPoll \/ Poll
  <2>1. /\ pc \in {"first", "wait"} /\ pc' \in {"wait", "fetch"} /\ lastBuild' \in 0..MaxBuilds
        /\ UNCHANGED <<up, build, outages, attempt, got, tools, catalog, stopWatch, closing>>
    BY <1>4, <1>a, <1>t, SMTT(60) DEF FirstPoll, Poll, ServerBuild, server
  <2>2. QED
    BY <1>t, <1>i, <1>q, <2>1, ZenonT(60)
<1>5. CASE FetchCatalog
  <2>1. /\ pc = "fetch"
        /\ \/ pc' = "set" /\ got' = Validated[build]
           \/ pc' = "wait" /\ got' = got
        /\ UNCHANGED <<up, build, outages, attempt, lastBuild, tools, catalog, stopWatch, closing>>
    BY <1>5 DEF FetchCatalog, server
  <2>2. build \in 1..build
    BY <1>a, <1>t, SMTT(60)
  <2>3. QED
    BY <1>t, <1>i, <1>y, <1>q, <2>1, <2>2
<1>6. CASE SetTools
  <2>1. /\ pc = "set" /\ pc' = "publish" /\ tools' = Registry(got)
        /\ UNCHANGED <<up, build, outages, attempt, lastBuild, got, catalog, stopWatch, closing>>
    BY <1>6, ZenonT(60) DEF SetTools, server
  <2>2. PICK b \in 1..build : got = Validated[b]
    BY <1>i, <2>1
  <2>3. b \in 1..MaxBuilds
    BY <1>a, <1>t, SMTT(60)
  <2>4. tools' = ToolsOf(b) /\ IsRegistry(tools')
    BY <1>o, <1>y, <2>1, <2>2, <2>3, ZenonT(60)
  <2>5. QED
    BY <1>t, <1>i, <1>q, <2>1, <2>2, <2>4
<1>7. CASE Publish
  <2>1. /\ pc = "publish" /\ pc' = "wait" /\ catalog' = got
        /\ UNCHANGED <<up, build, outages, attempt, lastBuild, got, tools, stopWatch, closing>>
    BY <1>7, ZenonT(60) DEF Publish, server
  <2>2. QED
    BY <1>t, <1>i, <1>q, <2>1
<1>8. CASE Stop
  <2>1. /\ pc = "wait" /\ pc' = "stopped"
        /\ UNCHANGED <<up, build, outages, attempt, lastBuild, got, tools, catalog, stopWatch,
                       closing>>
    BY <1>8, ZenonT(60) DEF Stop, server
  <2>2. QED
    BY <1>t, <1>i, <1>q, <2>1
<1>9. CASE CloseTest \/ Close
  <2>1. /\ stopWatch' \in 0..1 /\ closing' \in BOOLEAN /\ (closing' => stopWatch' = 0)
        /\ UNCHANGED <<up, build, outages, pc, attempt, lastBuild, got, tools, catalog>>
    <3>1. CASE CloseTest
      BY <3>1, <1>t DEF CloseTest, server
    <3>2. CASE Close
      <4>1. stopWatch' \in 0..1 /\ closing' = FALSE
        BY <3>2, <1>t, <1>i, SMTT(60) DEF Close
      <4>2. QED
        BY <3>2, <4>1, Zenon DEF Close, server
    <3>3. QED
      BY <1>9, <3>1, <3>2, ZenonT(60)
  <2>2. QED
    BY <1>t, <1>i, <1>q, <2>1, ZenonT(60)
<1>10. CASE UNCHANGED vars
  <2>1. UNCHANGED <<up, build, outages, pc, attempt, lastBuild, got, tools, catalog,
                    stopWatch, closing>>
    BY <1>10, ZenonT(60) DEF vars, server
  <2>2. QED
    BY <1>t, <1>i, <1>q, <2>1
<1>11. QED
  BY <1>1, <1>2, <1>3, <1>4, <1>5, <1>6, <1>7, <1>8, <1>9, <1>10, SMTT(60) DEF Next, Refresh
-----------------------------------------------------------------------------
\* A call.

\* The users that these credentials, or this endpoint, prove.
Proven(b, c, id) ==
  {t.sub : t \in {x \in {b, c} \ {None} : x.signed /\ x.exp # "past"}} \cup ({id} \ {None})

\* A resolved value is an argument, the configured portfolio, or one vire-server held
\* for the caller.
IsCallers(x) ==
  \/ x[1] \in DOMAIN args /\ x[2] = args[x[1]]
  \/ x[2] = configured
  \/ x[2] \in seen \cup {Empty}

\* Every required path parameter before the next one to resolve is in the path.
PathFilled ==
  \A i \in DOMAIN entry.params :
    i < next /\ entry.params[i].at = "path" /\ entry.params[i].required
      => \E x \in path : x[1] = entry.params[i].name

\* The state of a call: nothing is left of the one before it; its user is proven; its
\* parameters are resolved in order; and what is sent is what was resolved.
CallInv ==
  /\ secret \in BOOLEAN
  /\ DOMAIN held = User
  /\ next \in Nat \ {0}
  /\ step = "idle" => user = Empty /\ entry = None /\ next = 1 /\ path = {} /\ query = {}
                        /\ body = {} /\ uid = None /\ bearer = None /\ cookie = None
  /\ step # "done" => request = None /\ page = None
  /\ step = "resolve" => entry # None /\ PathFilled
  /\ entry # None => /\ entry \in CatalogTool /\ user \in User
                     /\ held[user] \in seen
                     /\ secret => user \in Proven(bearer, cookie, uid)
  /\ \A x \in path \cup query \cup body : IsCallers(x)
  /\ request # None => /\ entry # None /\ next > Len(entry.params) /\ PathFilled
                       /\ request.entry = entry /\ request.user = user
                       /\ request.path = path /\ request.query = query
                       /\ request.body \subseteq body

\* With a secret, withUserContext finds nobody or the subject of a signed, unexpired
\* token, and an endpoint names the user it was made for.
LEMMA UserProven ==
  ASSUME secret \in BOOLEAN, NEW b \in Token \cup {None}, NEW c \in Token \cup {None}
  PROVE  /\ UserOf(b, c) \in User \cup {Empty}
         /\ secret => UserOf(b, c) \in Proven(b, c, None) \cup {Empty}
<1>1. \A t \in Token : t.sub \in User \cup {Empty}
  BY ToolCallAssumption
<1>2. ASSUME NEW t \in Token \cup {None}, Subject(t) # Empty
      PROVE  /\ t \in Token /\ Subject(t) = t.sub
             /\ secret => t.signed /\ t.exp # "past"
  BY <1>2 DEF Subject, validateJWT
<1>3. ASSUME NEW t \in {b, c}, Subject(t) # Empty
      PROVE  Subject(t) \in User \cup {Empty} /\ (secret => Subject(t) \in Proven(b, c, None))
  <2>1. /\ t \in Token /\ Subject(t) = t.sub
        /\ secret => t.signed /\ t.exp # "past"
    BY <1>2, <1>3, ZenonT(60)
  <2>2. t # None
    BY <2>1, ToolCallAssumption, ZenonT(60)
  <2>3. secret => t.sub \in Proven(b, c, None)
    BY <2>1, <2>2, ZenonT(60) DEF Proven
  <2>4. QED
    BY <1>1, <2>1, <2>3
<1>4. CASE Subject(b) # Empty
  BY <1>3, <1>4, ZenonT(60) DEF UserOf
<1>5. CASE Subject(b) = Empty /\ Subject(c) # Empty
  BY <1>3, <1>5, ZenonT(60) DEF UserOf
<1>6. CASE Subject(b) = Empty /\ Subject(c) = Empty
  BY <1>1, <1>6 DEF UserOf
<1>7. QED
  BY <1>4, <1>5, <1>6, ZenonT(60)

\* A call starts with a proven user and nothing resolved, or not at all.
LEMMA DispatchKeeps ==
  ASSUME CallInv, IsRegistry(tools), step = "idle", NEW b, NEW c, NEW id, NEW u, NEW name, NEW a,
         u \in User \cup {Empty}, secret => u \in Proven(b, c, id) \cup {Empty},
         Dispatch(b, c, id, u, name, a)
  PROVE  CallInv'
<1>i. /\ secret \in BOOLEAN /\ DOMAIN held = User /\ next = 1
      /\ user = Empty /\ entry = None /\ path = {} /\ query = {} /\ body = {}
      /\ uid = None /\ bearer = None /\ cookie = None /\ request = None /\ page = None
  BY ZenonT(60) DEF CallInv
<1>u. UNCHANGED <<secret, configured, held, next, path, query, body, request, page>>
  BY ZenonT(60) DEF Dispatch, config
<1>1. CASE u # Empty /\ name \in DOMAIN tools /\ tools[name] # Local
  <2>1. /\ user' = u /\ step' = "resolve" /\ entry' = tools[name] /\ seen' = {held[u]}
        /\ bearer' = b /\ cookie' = c /\ uid' = id
    BY <1>1, ZenonT(60) DEF Dispatch
  <2>2. entry' \in CatalogTool /\ entry' # None
    BY <1>1, <2>1, ToolCallAssumption, ZenonT(60) DEF IsRegistry
  <2>3. PathFilled'
    <3>1. \A i \in DOMAIN entry.params' : ~(i < next')
      <4>1. DOMAIN entry.params' = 1..Len(entry.params)'
        <5>1. \A e \in CatalogTool : DOMAIN e.params = 1..Len(e.params)
          BY SMTT(60) DEF CatalogTool
        <5>2. QED
          BY <2>2, <5>1
      <4>2. QED
        BY <1>i, <1>u, <4>1, SMTT(60)
    <3>2. QED
      BY <3>1, ZenonT(60) DEF PathFilled
  <2>4. secret' => user' \in Proven(bearer, cookie, uid)'
    BY <1>1, <1>u, <2>1, ZenonT(60) DEF Proven
  <2>5. user' \in User /\ held'[user'] \in seen'
    BY <1>1, <1>u, <2>1, ZenonT(60)
  <2>6. QED
    BY <1>i, <1>u, <2>1, <2>2, <2>3, <2>4, <2>5, ZenonT(60) DEF CallInv
<1>2. CASE ~(u # Empty /\ name \in DOMAIN tools /\ tools[name] # Local)
  <2>1. /\ UNCHANGED <<entry, seen, bearer, cookie, uid>>
        /\ step' \in {"idle", "version", "page"}
        /\ step' = "idle" => user' = Empty
    BY <1>2, ZenonT(60) DEF Dispatch
  <2>2. QED
    BY <1>i, <1>u, <2>1, ZenonT(60) DEF CallInv
<1>3. QED
  BY <1>1, <1>2, ZenonT(60)

\* A call of either endpoint.
LEMMA CallKeeps == ASSUME CallInv, IsRegistry(tools), Call PROVE CallInv'
<1>s. secret \in BOOLEAN
  BY DEF CallInv
<1>1. PICK name \in Name, a \in Args :
        \/ \E c \in Credentials : CallMCP(c[1], c[2], name, a)
        \/ \E u \in User \cup {None} : CallDev(u, name, a)
  BY ZenonT(60) DEF Call
<1>2. ASSUME NEW c \in Credentials, CallMCP(c[1], c[2], name, a) PROVE CallInv'
  <2>1. step = "idle" /\ Dispatch(c[1], c[2], None, UserOf(c[1], c[2]), name, a)
    BY <1>2, ZenonT(60) DEF CallMCP
  <2>2. c[1] \in Token \cup {None} /\ c[2] \in Token \cup {None}
    BY ToolCallAssumption, ZenonT(60)
  <2>3. /\ UserOf(c[1], c[2]) \in User \cup {Empty}
        /\ secret => UserOf(c[1], c[2]) \in Proven(c[1], c[2], None) \cup {Empty}
    BY <1>s, <2>2, UserProven, ZenonT(60)
  <2>4. QED
    BY <2>1, <2>3, DispatchKeeps
<1>3. ASSUME NEW u \in User \cup {None}, CallDev(u, name, a) PROVE CallInv'
  <2> DEFINE id == IF devMode THEN decryptUID(u) ELSE Empty
  <2>1. step = "idle" /\ Dispatch(None, None, u, id, name, a)
    BY <1>3, ZenonT(60) DEF CallDev
  <2>2. id \in User \cup {Empty} /\ (secret => id \in Proven(None, None, u) \cup {Empty})
    BY ZenonT(60) DEF decryptUID, Proven
  <2> HIDE DEF id
  <2>3. QED
    BY <2>1, <2>2, DispatchKeeps
<1>4. QED
  BY <1>1, <1>2, <1>3, ZenonT(60)

\* resolveParamValue finds an argument, the configured portfolio, the caller's default,
\* or nothing.
LEMMA ParamIsCallers ==
  ASSUME CallInv, entry # None, NEW param, NEW val \in ParamValues(param), val # Nil
  PROVE  IsCallers(<<param.name, val>>)
<1>1. held[user] \in seen
  BY ZenonT(60) DEF CallInv
<1>2. \/ param.name \in DOMAIN args /\ val = args[param.name]
      \/ val \in DefaultPortfolio
  BY DEF ParamValues
<1>3. DefaultPortfolio = {configured} \/ DefaultPortfolio = {held[user], Empty}
  BY ZenonT(60) DEF DefaultPortfolio, ServerDefault
<1>4. QED
  BY <1>1, <1>2, <1>3, ZenonT(60) DEF IsCallers

\* One round of GenericToolHandler's loop.
LEMMA ResolveKeeps == ASSUME CallInv, ResolveParam PROVE CallInv'
<1> DEFINE param == entry.params[next]
<1>u. /\ step = "resolve" /\ next <= Len(entry.params) /\ next' = next + 1
      /\ UNCHANGED <<secret, configured, held, bearer, cookie, uid, user, entry, args, request,
                     page, seen>>
  BY ZenonT(60) DEF ResolveParam, config
<1>i. /\ secret \in BOOLEAN /\ DOMAIN held = User /\ next \in Nat \ {0}
      /\ request = None /\ page = None /\ entry # None /\ PathFilled
      /\ entry \in CatalogTool /\ user \in User /\ held[user] \in seen
      /\ secret => user \in Proven(bearer, cookie, uid)
      /\ \A x \in path \cup query \cup body : IsCallers(x)
  BY <1>u, ZenonT(60) DEF CallInv
<1>1. PICK val \in ParamValues(param) :
        /\ step' = IF param.at = "path" /\ param.required /\ Missing(val)
                     THEN "done" ELSE "resolve"
        /\ path' = IF param.at = "path" /\ ~Missing(val)
                     THEN path \cup {<<param.name, val>>} ELSE path
        /\ query' = IF param.at = "query" /\ ~Missing(val)
                      THEN query \cup {<<param.name, val>>} ELSE query
        /\ body' = IF param.at = "body" /\ val # Nil
                     THEN body \cup {<<param.name, val>>} ELSE body
  BY ZenonT(60) DEF ResolveParam
<1>2. val # Nil => IsCallers(<<param.name, val>>)
  BY <1>i, ParamIsCallers, ZenonT(60)
<1>3. \A x : IsCallers(x)' <=> IsCallers(x)
  BY <1>u, ZenonT(60) DEF IsCallers
<1>4. \A x \in path' \cup query' \cup body' : IsCallers(x)'
  <2>1. ~Missing(val) => val # Nil
    BY ZenonT(60) DEF Missing
  <2>2. \A x \in path' \cup query' \cup body' :
          x \in path \cup query \cup body \/ (val # Nil /\ x = <<param.name, val>>)
    BY <1>1, <2>1, ZenonT(60)
  <2> HIDE DEF param
  <2>3. QED
    BY <1>i, <1>2, <1>3, <2>2
<1>5. step' = "resolve" => PathFilled'
  <2> SUFFICES ASSUME step' = "resolve", NEW i \in DOMAIN entry.params, i < next + 1,
                      entry.params[i].at = "path", entry.params[i].required
               PROVE  \E x \in path' : x[1] = entry.params[i].name
    BY <1>u, ZenonT(60) DEF PathFilled
  <2>0. i \in Nat
    <3>1. \A e \in CatalogTool : DOMAIN e.params = 1..Len(e.params)
      BY SMTT(60) DEF CatalogTool
    <3>2. DOMAIN entry.params = 1..Len(entry.params)
      BY <1>i, <3>1, ZenonT(60)
    <3>3. QED
      BY <3>2, SMTT(60)
  <2>1. CASE i < next
    <3>1. PICK x \in path : x[1] = entry.params[i].name
      BY <1>i, <2>1, ZenonT(60) DEF PathFilled
    <3>2. x \in path'
      BY <1>1, <3>1, ZenonT(60)
    <3>3. QED
      BY <3>1, <3>2, ZenonT(60)
  <2>2. CASE i = next
    <3>1. param.at = "path" /\ param.required
      BY <2>2, ZenonT(60)
    <3>2. ~Missing(val)
      BY <1>1, <3>1, ZenonT(60)
    <3>3. <<param.name, val>> \in path'
      BY <1>1, <3>1, <3>2, ZenonT(60)
    <3>4. <<param.name, val>>[1] = entry.params[i].name
      BY <2>2, ZenonT(60)
    <3>5. QED
      BY <3>3, <3>4, ZenonT(60)
  <2>3. next \in Nat
    BY <1>i, ZenonT(60)
  <2>4. i < next \/ i = next
    BY <2>0, <2>3, SMTT(60)
  <2>5. QED
    BY <2>1, <2>2, <2>4, ZenonT(60)
<1>6. step' \in {"resolve", "done"}
  BY <1>1, ZenonT(60)
<1>7. Proven(bearer, cookie, uid)' = Proven(bearer, cookie, uid)
  BY <1>u, ZenonT(60) DEF Proven
<1>8. QED
  BY <1>u, <1>i, <1>4, <1>5, <1>6, <1>7, SMTT(60) DEF CallInv

\* The request is what was resolved, for the user of the call.
LEMMA SendKeeps == ASSUME CallInv, Send PROVE CallInv'
<1>u. /\ step = "resolve" /\ next > Len(entry.params) /\ step' = "done" /\ request' = Request
      /\ UNCHANGED <<secret, configured, held, bearer, cookie, uid, user, entry, args, next,
                     path, query, body, page, seen>>
  BY ZenonT(60) DEF Send, config
<1>i. /\ secret \in BOOLEAN /\ DOMAIN held = User /\ next \in Nat \ {0}
      /\ entry # None /\ PathFilled
      /\ entry \in CatalogTool /\ user \in User /\ held[user] \in seen
      /\ secret => user \in Proven(bearer, cookie, uid)
      /\ \A x \in path \cup query \cup body : IsCallers(x)
  BY <1>u, ZenonT(60) DEF CallInv
<1>1. /\ Request.entry = entry /\ Request.user = user /\ Request.path = path
      /\ Request.query = query /\ Request.body \subseteq body
  BY ZenonT(60) DEF Request
<1>2. /\ request'.entry = entry' /\ request'.user = user' /\ request'.path = path'
      /\ request'.query = query' /\ request'.body \subseteq body'
  BY <1>1, <1>u, ZenonT(60)
<1>3. PathFilled' /\ Proven(bearer, cookie, uid)' = Proven(bearer, cookie, uid)
  BY <1>i, <1>u, ZenonT(60) DEF PathFilled, Proven
<1>4. \A x : IsCallers(x)' <=> IsCallers(x)
  BY <1>u, ZenonT(60) DEF IsCallers
<1>5. QED
  BY <1>u, <1>i, <1>2, <1>3, <1>4, ZenonT(60) DEF CallInv

\* A change of a default portfolio is seen by the call of that user.
LEMMA SetDefaultKeeps == ASSUME CallInv, NEW u \in User, NEW p, SetDefault(u, p) PROVE CallInv'
<1>u. /\ held' = [held EXCEPT ![u] = p]
      /\ seen' = IF u = user /\ entry # None THEN seen \cup {p} ELSE seen
      /\ UNCHANGED <<secret, configured, step, bearer, cookie, uid, user, entry, args, next,
                     path, query, body, request, page>>
  BY ZenonT(60) DEF SetDefault, config
<1>1. DOMAIN held = User
  BY ZenonT(60) DEF CallInv
<1>2. DOMAIN held' = User
  BY <1>u, <1>1, ZenonT(60)
<1>3. ASSUME entry # None PROVE held'[user] \in seen'
  <2>1. held[user] \in seen /\ user \in User
    BY <1>3, ZenonT(60) DEF CallInv
  <2>2. QED
    BY <1>u, <1>1, <1>3, <2>1, ZenonT(60)
<1>4. ASSUME NEW x, IsCallers(x) PROVE IsCallers(x)'
  BY <1>u, <1>4, ZenonT(60) DEF IsCallers
<1>5. PathFilled' = PathFilled /\ Proven(bearer, cookie, uid)' = Proven(bearer, cookie, uid)
  BY <1>u, ZenonT(60) DEF PathFilled, Proven
<1>6. \A x \in path' \cup query' \cup body' : IsCallers(x)'
  BY <1>u, <1>4, ZenonT(60) DEF CallInv
<1>7. entry' # None => /\ entry' \in CatalogTool /\ user' \in User
                       /\ held'[user'] \in seen'
                       /\ secret' => user' \in Proven(bearer, cookie, uid)'
  BY <1>u, <1>3, <1>5, ZenonT(60) DEF CallInv
<1>8. /\ step' = "resolve" => entry' # None /\ PathFilled'
      /\ request' # None => /\ entry' # None /\ next' > Len(entry.params)' /\ PathFilled'
                            /\ request'.entry = entry' /\ request'.user = user'
                            /\ request'.path = path' /\ request'.query = query'
                            /\ request'.body \subseteq body'
  BY <1>u, <1>5, ZenonT(60) DEF CallInv
<1>9. /\ secret' \in BOOLEAN /\ next' \in Nat \ {0}
      /\ step' = "idle" => user' = Empty /\ entry' = None /\ next' = 1 /\ path' = {} /\ query' = {}
                             /\ body' = {} /\ uid' = None /\ bearer' = None /\ cookie' = None
      /\ step' # "done" => request' = None /\ page' = None
  BY <1>u DEF CallInv
<1>10. QED
  BY <1>2, <1>6, <1>7, <1>8, <1>9, ZenonT(60) DEF CallInv

\* Every step of the portal, of vire-server and of the watcher keeps the invariant.
LEMMA CallStep == ASSUME CallInv, WatchInv, [McpNext]_mcpVars PROVE CallInv'
<1>w. IsRegistry(tools)
  BY ZenonT(60) DEF WatchInv, TypeOK, IsRegistry
<1>f. ASSUME UNCHANGED <<secret, configured, held, bearer, cookie, uid, user, entry, args, next,
                         path, query, body, request, seen>>,
             \/ step' = step /\ page' = page
             \/ step' \in {"done", "loopback"} /\ request = None /\ (step' # "done" => page' = None)
      PROVE  CallInv'
  <2>1. PathFilled' = PathFilled /\ Proven(bearer, cookie, uid)' = Proven(bearer, cookie, uid)
    BY <1>f, ZenonT(60) DEF PathFilled, Proven
  <2>2. \A x : IsCallers(x)' <=> IsCallers(x)
    BY <1>f, ZenonT(60) DEF IsCallers
  <2>3. QED
    BY <1>f, <2>1, <2>2, ZenonT(60) DEF CallInv
<1>1. CASE UNCHANGED <<config, held, call>>
  <2>1. UNCHANGED <<secret, configured, held, bearer, cookie, uid, user, entry, args, next,
                    path, query, body, request, seen>>
    BY <1>1 DEF config, call
  <2>2. step' = step /\ page' = page
    BY <1>1 DEF call
  <2>3. QED
    BY <1>f, <2>1, <2>2, ZenonT(60)
<1>2. CASE Call
  BY <1>2, <1>w, CallKeeps
<1>3. CASE ResolveParam
  BY <1>3, ResolveKeeps
<1>4. CASE Send
  BY <1>4, SendKeeps, ZenonT(60)
<1>5. CASE GetVersion \/ GetPage \/ ServePage \/ Tick
  <2>1. step \in {"version", "page", "loopback"} /\ request = None /\ page = None
    BY <1>5, ZenonT(60) DEF GetVersion, GetPage, ServePage, Tick, CallInv
  <2>2. /\ UNCHANGED <<secret, configured, held, bearer, cookie, uid, user, entry, args, next,
                       path, query, body, request, seen>>
        /\ step' \in {"done", "loopback"}
        /\ step' # "done" => page' = page
    BY <1>5, <2>1, ZenonT(60) DEF GetVersion, GetPage, ServePage, Tick, config
  <2>3. QED
    BY <1>f, <2>1, <2>2, ZenonT(60)
<1>6. CASE Return
  BY <1>6 DEF Return, CallInv, config
<1>7. ASSUME NEW u \in User, NEW p \in Portfolio \cup {Empty}, SetDefault(u, p) PROVE CallInv'
  BY <1>7, SetDefaultKeeps
<1>8. CASE UNCHANGED mcpVars
  BY <1>1, <1>8 DEF mcpVars
<1>9. QED
  BY <1>1, <1>2, <1>3, <1>4, <1>5, <1>6, <1>7, <1>8, ZenonT(60) DEF McpNext

\* Both invariants hold initially, and together.
LEMMA McpInvariant == McpSpec => [](WatchInv /\ CallInv)
<1>1. McpInit => WatchInv /\ CallInv
  <2> SUFFICES ASSUME McpInit PROVE WatchInv /\ CallInv
    BY ZenonT(60)
  <2>1. WatchInv
    <3>1. MaxBuilds \in Nat /\ 1 \in 1..MaxBuilds /\ Retries \in Nat /\ MaxOutages \in Nat
      BY WatcherAssumption, SMTT(60) DEF MaxBuilds
    <3>2. /\ tools = <<>> /\ DOMAIN tools = {}
          /\ got \in Seq(CatalogTool) /\ catalog \in Seq(CatalogTool)
      BY SMTT(60) DEF McpInit, Init
    <3>3. TypeOK
      <4>1. up \in BOOLEAN /\ closing \in BOOLEAN
        BY ZenonT(60) DEF McpInit, Init
      <4>2. build \in 1..MaxBuilds /\ outages \in 0..MaxOutages /\ lastBuild \in 0..MaxBuilds
            /\ attempt \in 1..(Retries + 2) /\ stopWatch \in 0..1
        BY <3>1 DEF McpInit, Init
      <4>3. pc \in {"boot", "first", "wait", "fetch", "set", "publish", "stopped"}
        BY DEF McpInit, Init
      <4>4. QED
        BY <3>2, <4>1, <4>2, <4>3, ZenonT(60) DEF TypeOK
    <3>4. pc = "boot" /\ attempt = 1 /\ tools = <<>> /\ catalog = <<>> /\ stopWatch = 0
      BY ZenonT(60) DEF McpInit, Init
    <3>5. attempt <= Retries + 1
      BY <3>1, <3>4
    <3>6. QED
      BY <3>3, <3>4, <3>5, ZenonT(60) DEF WatchInv, OneBuild
  <2>2. CallInv
    <3>1. secret \in BOOLEAN
      BY ToolCallAssumption DEF McpInit
    <3>2. QED
      BY <3>1, SMTT(60) DEF McpInit, CallInv
  <2>3. QED
    BY <2>1, <2>2
<1>2. WatchInv /\ CallInv /\ [McpNext]_mcpVars => (WatchInv /\ CallInv)'
  <2> SUFFICES ASSUME WatchInv, CallInv, [McpNext]_mcpVars PROVE WatchInv' /\ CallInv'
    OBVIOUS
  <2>1. [Next]_vars
    <3>1. CASE Next
      BY <3>1, ZenonT(60)
    <3>2. CASE Call
      BY <3>2, ZenonT(60) DEF Call, CallMCP, CallDev, Dispatch
    <3>3. CASE ResolveParam \/ Send \/ GetVersion \/ GetPage \/ ServePage \/ Tick \/ Return
      BY <3>3, ZenonT(60) DEF ResolveParam, Send, GetVersion, GetPage, ServePage, Tick, Return
    <3>4. CASE \E u \in User, p \in Portfolio \cup {Empty} : SetDefault(u, p)
      BY <3>4 DEF SetDefault
    <3>5. CASE UNCHANGED mcpVars
      BY <3>5 DEF mcpVars
    <3>6. QED
      BY <3>1, <3>2, <3>3, <3>4, <3>5 DEF McpNext
  <2>2. WatchInv'
    BY <2>1, WatchStep
  <2>3. CallInv'
    BY CallStep
  <2>4. QED
    BY <2>2, <2>3
<1>3. QED
  BY <1>1, <1>2, PTL DEF McpSpec

\* The watcher's state has its types, the channel that stops it among them: Close
\* closes it at most once.  The tools are always one build's, and so is the catalog.
THEOREM ToolsOfOneBuild == McpSpec => [](TypeOK /\ OneBuild)
<1>1. WatchInv => TypeOK /\ OneBuild
  BY DEF WatchInv
<1>2. QED
  BY <1>1, McpInvariant, PTL

\* With a secret, what a call does to vire-server it does for the subject of a signed,
\* unexpired token that came with it, or of an endpoint the portal made: for any
\* tokens and any catalog.
THEOREM CallerProven == McpSpec => []IdentityProven
<1>1. CallInv => IdentityProven
  BY ZenonT(60) DEF CallInv, IdentityProven, Proven
<1>2. QED
  BY <1>1, McpInvariant, PTL

\* No request is sent with a placeholder of a required path parameter in its path.
THEOREM PathComplete == McpSpec => []NoPlaceholderSent
<1> DEFINE names(r) == {x[1] : x \in r.path}
           required(e) == {e.params[i].name : i \in {j \in DOMAIN e.params :
                             e.params[j].at = "path" /\ e.params[j].required}}
<1>1. ASSUME CallInv, request # None PROVE required(request.entry) \subseteq names(request)
  <2>1. /\ entry \in CatalogTool /\ next \in Nat /\ next > Len(entry.params) /\ PathFilled
        /\ request.entry = entry /\ request.path = path
    BY <1>1 DEF CallInv
  <2>2. \A e \in CatalogTool : DOMAIN e.params = 1..Len(e.params) /\ Len(e.params) \in Nat
    BY DEF CatalogTool
  <2>3. \A i \in DOMAIN entry.params : i < next
    BY <2>1, <2>2, SMTT(60)
  <2>4. QED
    BY <2>1, <2>3, SMTT(60) DEF PathFilled
<1>2. CallInv => NoPlaceholderSent
  <2> SUFFICES ASSUME CallInv, request # None, request.entry.holes \subseteq required(request.entry)
               PROVE  request.entry.holes \subseteq names(request)
    BY ZenonT(60) DEF NoPlaceholderSent
  <2> HIDE DEF names, required
  <2>1. QED
    BY <1>1, ZenonT(60)
<1>3. QED
  BY <1>2, McpInvariant, PTL

\* A portfolio the caller did not name is the configured one, or one that vire-server
\* held for this caller while the call was made.
THEOREM DefaultOfCaller == McpSpec => []DefaultIsCallers
<1>1. CallInv => DefaultIsCallers
  BY DEF CallInv, DefaultIsCallers, IsCallers
<1>2. QED
  BY <1>1, McpInvariant, PTL

\* The client of the loopback request never waits past its timeout.
PageInv ==
  /\ clock \in 0..LoopbackTimeout
  /\ step # "done" => page = None
  /\ PageIsCallers

\* portal_get_page returns the caller's page and never the landing page, if the token
\* it mints lives as long as its client waits, as loopbackJWTTTL does.
THEOREM PageOfCaller ==
  ASSUME LoopbackTimeout <= LoopbackTTL
  PROVE  McpSpec => []PageIsCallers
<1>a. LoopbackTimeout \in Nat /\ LoopbackTTL \in Nat
  BY ToolCallAssumption, ZenonT(60)
<1>1. McpInit => PageInv
  BY <1>a DEF McpInit, PageInv, PageIsCallers
<1>2. PageInv /\ [McpNext]_mcpVars => PageInv'
  <2> SUFFICES ASSUME PageInv, [McpNext]_mcpVars PROVE PageInv'
    OBVIOUS
  <2>i. /\ clock \in 0..LoopbackTimeout
        /\ (step # "done" => page = None) /\ (page # None => page = user)
    BY DEF PageInv, PageIsCallers
  <2>n. ASSUME clock' \in 0..LoopbackTimeout, page' = None PROVE PageInv'
    BY <2>n DEF PageInv, PageIsCallers
  <2>s. ASSUME UNCHANGED <<step, page, clock, user>> PROVE PageInv'
    BY <2>i, <2>s, ZenonT(60) DEF PageInv, PageIsCallers
  <2>1. CASE UNCHANGED <<config, held, call>>
    BY <2>1, <2>s DEF call
  <2>2. CASE Call
    <3>1. step = "idle" /\ UNCHANGED <<page, clock>>
      BY <2>2 DEF Call, CallMCP, CallDev, Dispatch
    <3>2. QED
      BY <2>i, <2>n, <3>1, ZenonT(60)
  <2>3. CASE ResolveParam \/ Send \/ GetVersion
    <3>1. step \in {"resolve", "version"} /\ UNCHANGED <<page, clock>>
      BY <2>3, ZenonT(60) DEF ResolveParam, Send, GetVersion
    <3>2. QED
      BY <2>i, <2>n, <3>1, ZenonT(60)
  <2>4. CASE GetPage
    BY <1>a, <2>4, <2>i, <2>n DEF GetPage
  <2>5. CASE ServePage
    <3>1. TokenLives
      BY <1>a, <2>i, SMTT(60) DEF TokenLives
    <3>2. step' = "done" /\ page' = user /\ user' = user /\ clock' = clock
      BY <2>5, <3>1 DEF ServePage
    <3>3. QED
      BY <2>i, <3>2 DEF PageInv, PageIsCallers
  <2>6. CASE Tick
    <3>1. step = "loopback" /\ page' = page /\ clock' \in 0..LoopbackTimeout
      BY <1>a, <2>6, <2>i, SMTT(60) DEF Tick
    <3>2. QED
      BY <2>i, <2>n, <3>1, ZenonT(60)
  <2>7. CASE Return
    BY <1>a, <2>7, <2>n, SMTT(60) DEF Return
  <2>8. CASE \E u \in User, p \in Portfolio \cup {Empty} : SetDefault(u, p)
    BY <2>8, <2>s DEF SetDefault
  <2>9. CASE UNCHANGED mcpVars
    BY <2>1, <2>9 DEF mcpVars
  <2>10. QED
    BY <2>1, <2>2, <2>3, <2>4, <2>5, <2>6, <2>7, <2>8, <2>9 DEF McpNext
<1>3. PageInv => PageIsCallers
  BY DEF PageInv
<1>4. QED
  BY <1>1, <1>2, <1>3, PTL DEF McpSpec
=============================================================================
