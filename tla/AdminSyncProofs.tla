-------------------------- MODULE AdminSyncProofs ---------------------------
(***************************************************************************)
(* Proofs about the two bootstrap goroutines, for any number of portals    *)
(* that start against one vire-server, any accounts, any VIRE_ADMIN_USERS  *)
(* and users file, and any failures of calls.                              *)
(***************************************************************************)
EXTENDS AdminSync, TLAPS

\* An answered listing schedules, for places of VIRE_ADMIN_USERS with an account
\* of their address, the account the map has for it.
LEMMA Listing ==
  ASSUME NEW p \in Portal, AdminListUsers(p)
  PROVE  \/ Fails /\ RetrySync(p, "list") /\ UNCHANGED <<todo, failed>>
         \/ \E emailToUser \in [Email -> Account], places \in SUBSET DOMAIN AdminEmails :
              /\ \A e \in Email : Holders(e) # {} => emailToUser[e] \in Holders(e)
              /\ places = {i \in DOMAIN AdminEmails :
                            /\ Holders(AdminEmails[i]) # {}
                            /\ role[emailToUser[AdminEmails[i]]] # "admin"}
              /\ todo' = [todo EXCEPT ![p] = {<<i, emailToUser[AdminEmails[i]]>> : i \in places}]
              /\ failed' = [failed EXCEPT ![p] = FALSE]
              /\ syncPc' = [syncPc EXCEPT ![p] = "update"]
<1>1. CASE Fails /\ RetrySync(p, "list") /\ UNCHANGED <<todo, failed>>
  BY <1>1
<1>2. CASE ~(Fails /\ RetrySync(p, "list") /\ UNCHANGED <<todo, failed>>)
  <2>1. PICK emailToUser \in [Email -> Account] :
          /\ \A e \in Email : Holders(e) # {} => emailToUser[e] \in Holders(e)
          /\ LET Wanted(e) == Holders(e) # {} /\ role[emailToUser[e]] # "admin"
                 places == {i \in DOMAIN AdminEmails : Wanted(AdminEmails[i])}
             IN todo' = [todo EXCEPT ![p] =
                           {<<i, emailToUser[AdminEmails[i]]>> : i \in places}]
    BY <1>2, Zenon DEF AdminListUsers
  <2>2. failed' = [failed EXCEPT ![p] = FALSE] /\ syncPc' = [syncPc EXCEPT ![p] = "update"]
    BY <1>2, ZenonT(60) DEF AdminListUsers
  <2> DEFINE places == {i \in DOMAIN AdminEmails :
                          /\ Holders(AdminEmails[i]) # {}
                          /\ role[emailToUser[AdminEmails[i]]] # "admin"}
  <2>3. todo' = [todo EXCEPT ![p] = {<<i, emailToUser[AdminEmails[i]]>> : i \in places}]
    BY <2>1
  <2>4. QED
    BY <2>1, <2>2, <2>3, ZenonT(60)
<1>3. QED
  BY <1>1, <1>2, ZenonT(60)

\* The goroutines stay within their steps and their attempts.
THEOREM SyncTypeCorrect == SyncSpec => []SyncTypeOK
<1>1. SyncInit => SyncTypeOK
  <2>1. FirstSeed \in {"upsert", "done"} /\ FirstSync \in {"register", "done"}
    BY DEF FirstSeed, FirstSync
  <2>2. FirstSeed = "upsert" => 1 \in DOMAIN SeedUsers
    BY SyncAssumption DEF FirstSeed
  <2>3. Attempts \in Nat \ {0} /\ MaxFaults \in Nat /\ MaxRestarts \in Nat
    BY SyncAssumption, SMTT(60)
  <2>4. QED
    BY <2>1, <2>2, <2>3, SMTT(60) DEF SyncInit, SyncTypeOK, Role, Absent
<1>2. SyncTypeOK /\ [SyncNext]_syncVars => SyncTypeOK'
  <2> SUFFICES ASSUME SyncTypeOK, [SyncNext]_syncVars PROVE SyncTypeOK'
    BY SMTT(60)
  <2>t. /\ role \in [Account -> Role \cup {Absent}]
        /\ seedPc \in [Portal -> {"upsert", "done"}]
        /\ seedTry \in [Portal -> 1..Attempts]
        /\ seedNext \in [Portal -> Nat]
        /\ \A p \in Portal : seedPc[p] = "upsert" => seedNext[p] \in DOMAIN SeedUsers
        /\ syncPc \in [Portal -> {"register", "list", "update", "done"}]
        /\ syncTry \in [Portal -> 1..Attempts]
        /\ todo \in [Portal -> SUBSET (Nat \X Account)]
        /\ failed \in [Portal -> BOOLEAN]
        /\ faults \in 0..MaxFaults
        /\ restarts \in 0..MaxRestarts
    BY DEF SyncTypeOK
  <2>a. Attempts \in Nat \ {0} /\ MaxFaults \in Nat /\ MaxRestarts \in Nat
    BY SyncAssumption, SMTT(60)
  <2>f. Replied \/ Fails => faults' \in 0..MaxFaults
    BY <2>t, <2>a, SMTT(60) DEF Replied, Fails
  <2>r. ASSUME NEW p \in Portal, NEW step \in {"register", "list"}, RetrySync(p, step)
        PROVE  /\ syncPc' \in [Portal -> {"register", "list", "update", "done"}]
               /\ syncTry' \in [Portal -> 1..Attempts]
    BY <2>t, <2>a, <2>r, SMTT(60) DEF RetrySync
  <2>1. ASSUME NEW p \in Portal, UpsertUser(p) PROVE SyncTypeOK'
    <3> DEFINE u == SeedUsers[seedNext[p]]
    <3>1. seedPc[p] = "upsert" /\ (NextSeed(p) \/ RetrySeed(p)) /\ (Replied \/ Fails)
      BY <2>1, SMTT(60) DEF UpsertUser
    <3>2. role' = role \/ role' = [role EXCEPT ![u] = SeedRole[u]]
      BY <2>1, SMTT(60) DEF UpsertUser
    <3>3. u \in Account /\ SeedRole[u] \in Role
      <4>1. seedNext[p] \in DOMAIN SeedUsers
        BY <2>t, <3>1, SMTT(60)
      <4>2. QED
        BY <4>1, SyncAssumption, SMTT(60)
    <3>4. role' \in [Account -> Role \cup {Absent}]
      <4> HIDE DEF u
      <4> QED
        BY <2>t, <3>2, <3>3, SMTT(60)
    <3>5. Len(SeedUsers) \in Nat /\ DOMAIN SeedUsers = 1..Len(SeedUsers)
      BY SyncAssumption, SMTT(60)
    <3>6. CASE NextSeed(p)
      <4>1. seedPc' \in [Portal -> {"upsert", "done"}] /\ seedNext' \in [Portal -> Nat]
        BY <2>t, <3>6, SMTT(60) DEF NextSeed
      <4>2. \A q \in Portal : seedPc'[q] = "upsert" => seedNext'[q] \in DOMAIN SeedUsers
        <5> TAKE q \in Portal
        <5>1. CASE q = p
          BY <2>t, <3>1, <3>5, <3>6, <5>1, SMTT(60) DEF NextSeed
        <5>2. CASE q # p
          BY <2>t, <3>6, <5>2, SMTT(60) DEF NextSeed
        <5>3. QED
          BY <5>1, <5>2, SMTT(60)
      <4>3. seedTry' = seedTry
        BY <3>6, SMTT(60) DEF NextSeed
      <4>4. QED
        BY <2>t, <2>1, <2>f, <3>1, <3>4, <4>1, <4>2, <4>3, SMTT(60) DEF UpsertUser, syncing,
                                                                        SyncTypeOK
    <3>7. CASE RetrySeed(p)
      <4>1. /\ seedPc' \in [Portal -> {"upsert", "done"}] /\ seedNext' \in [Portal -> Nat]
            /\ seedTry' \in [Portal -> 1..Attempts]
        BY <2>t, <2>a, <3>7, SMTT(60) DEF RetrySeed
      <4>2. 1 \in DOMAIN SeedUsers
        BY <2>t, <3>1, <3>5
      <4>3. \A q \in Portal : seedPc'[q] = "upsert" => seedNext'[q] \in DOMAIN SeedUsers
        BY <2>t, <3>7, <4>2, ZenonT(60) DEF RetrySeed
      <4>4. QED
        BY <2>t, <2>1, <2>f, <3>1, <3>4, <4>1, <4>3, SMTT(60) DEF UpsertUser, syncing, SyncTypeOK
    <3>8. QED
      BY <3>1, <3>6, <3>7, SMTT(60)
  <2>2. ASSUME NEW p \in Portal, RegisterService(p) PROVE SyncTypeOK'
    <3>1. /\ syncPc' \in [Portal -> {"register", "list", "update", "done"}]
          /\ syncTry' \in [Portal -> 1..Attempts]
      BY <2>t, <2>a, <2>r, <2>2, SMTT(60) DEF RegisterService
    <3>2. faults' \in 0..MaxFaults
      BY <2>f, <2>2, SMTT(60) DEF RegisterService
    <3>3. QED
      BY <2>t, <2>2, <3>1, <3>2, SMTT(60) DEF RegisterService, seeding, SyncTypeOK
  <2>3. ASSUME NEW p \in Portal, AdminListUsers(p) PROVE SyncTypeOK'
    <3>1. todo' \in [Portal -> SUBSET (Nat \X Account)] /\ failed' \in [Portal -> BOOLEAN]
      <4>1. CASE Fails /\ RetrySync(p, "list") /\ UNCHANGED <<todo, failed>>
        BY <2>t, <4>1, SMTT(60)
      <4>2. ASSUME NEW emailToUser \in [Email -> Account],
                   NEW places \in SUBSET DOMAIN AdminEmails,
                   todo' = [todo EXCEPT ![p] = {<<i, emailToUser[AdminEmails[i]]>> : i \in places}],
                   failed' = [failed EXCEPT ![p] = FALSE]
            PROVE  todo' \in [Portal -> SUBSET (Nat \X Account)] /\ failed' \in [Portal -> BOOLEAN]
        <5>1. \A i \in DOMAIN AdminEmails : i \in Nat /\ AdminEmails[i] \in Email
          BY SyncAssumption, SMTT(60)
        <5>2. {<<i, emailToUser[AdminEmails[i]]>> : i \in places} \subseteq Nat \X Account
          BY <5>1
        <5>3. QED
          BY <2>t, <4>2, <5>2, ZenonT(60)
      <4>3. QED
        BY <2>3, <4>1, <4>2, Listing, ZenonT(60)
    <3>2. /\ syncPc' \in [Portal -> {"register", "list", "update", "done"}]
          /\ syncTry' \in [Portal -> 1..Attempts]
      BY <2>t, <2>a, <2>r, <2>3, ZenonT(60) DEF AdminListUsers
    <3>3. faults' \in 0..MaxFaults
      BY <2>f, <2>3, SMTT(60) DEF AdminListUsers
    <3>4. UNCHANGED <<role, seedPc, seedTry, seedNext, restarts>>
      BY <2>3, SMTT(60) DEF AdminListUsers, seeding
    <3>5. QED
      BY <2>t, <3>1, <3>2, <3>3, <3>4, SMTT(60) DEF SyncTypeOK
  <2>4. ASSUME NEW p \in Portal, AdminUpdateUserRole(p) PROVE SyncTypeOK'
    <3>1. PICK first \in todo[p] :
            /\ role' = [role EXCEPT ![first[2]] = "admin"] \/ role' = role
            /\ failed' = failed \/ failed' = [failed EXCEPT ![p] = TRUE]
            /\ todo' = [todo EXCEPT ![p] = @ \ {first}]
      BY <2>4, ZenonT(60) DEF AdminUpdateUserRole
    <3>2. first[2] \in Account
      BY <2>t, SMTT(60)
    <3>3. role' \in [Account -> Role \cup {Absent}]
      BY <2>t, <3>1, <3>2 DEF Role
    <3>4. todo' \in [Portal -> SUBSET (Nat \X Account)] /\ failed' \in [Portal -> BOOLEAN]
      BY <2>t, <3>1, ZenonT(60)
    <3>5. faults' \in 0..MaxFaults
      BY <2>f, <2>4, SMTT(60) DEF AdminUpdateUserRole
    <3>6. UNCHANGED <<seedPc, seedTry, seedNext, syncPc, syncTry, restarts>>
      BY <2>4, SMTT(60) DEF AdminUpdateUserRole, seeding
    <3>7. QED
      BY <2>t, <3>3, <3>4, <3>5, <3>6, SMTT(60) DEF SyncTypeOK
  <2>5. ASSUME NEW p \in Portal, EndAttempt(p) PROVE SyncTypeOK'
    <3>1. /\ syncPc' \in [Portal -> {"register", "list", "update", "done"}]
          /\ syncTry' \in [Portal -> 1..Attempts]
      BY <2>t, <2>r, <2>5, SMTT(60) DEF EndAttempt
    <3>2. QED
      BY <2>t, <2>5, <3>1, SMTT(60) DEF EndAttempt, seeding, SyncTypeOK
  <2>6. ASSUME NEW p \in Portal, Restart(p) PROVE SyncTypeOK'
    <3>1. FirstSeed \in {"upsert", "done"} /\ FirstSync \in {"register", "done"}
      BY DEF FirstSeed, FirstSync
    <3>2. FirstSeed = "upsert" => 1 \in DOMAIN SeedUsers
      BY SyncAssumption, SMTT(60) DEF FirstSeed
    <3>3. /\ seedPc' \in [Portal -> {"upsert", "done"}]
          /\ seedTry' \in [Portal -> 1..Attempts]
          /\ seedNext' \in [Portal -> Nat]
          /\ \A q \in Portal : seedPc'[q] = "upsert" => seedNext'[q] \in DOMAIN SeedUsers
      BY <2>t, <2>a, <2>6, <3>1, <3>2, SMTT(60) DEF Restart
    <3>4. /\ syncPc' \in [Portal -> {"register", "list", "update", "done"}]
          /\ syncTry' \in [Portal -> 1..Attempts]
          /\ todo' \in [Portal -> SUBSET (Nat \X Account)]
          /\ failed' \in [Portal -> BOOLEAN]
          /\ restarts' \in 0..MaxRestarts
      BY <2>t, <2>a, <2>6, <3>1, SMTT(60) DEF Restart
    <3>5. QED
      BY <2>t, <2>6, <3>3, <3>4, SMTT(60) DEF Restart, SyncTypeOK
  <2>7. ASSUME NEW u \in Account, SignUp(u) PROVE SyncTypeOK'
    <3>1. role' \in [Account -> Role \cup {Absent}]
      BY <2>t, <2>7, SMTT(60) DEF SignUp, Role
    <3>2. QED
      BY <2>t, <2>7, <3>1, SMTT(60) DEF SignUp, seeding, syncing, SyncTypeOK
  <2>8. CASE UNCHANGED syncVars
    BY <2>8, SMTT(60) DEF syncVars, SyncTypeOK
  <2>9. QED
    BY <2>1, <2>2, <2>3, <2>4, <2>5, <2>6, <2>7, <2>8, SMTT(60) DEF SyncNext, SyncStep
<1>3. QED
  BY <1>1, <1>2, PTL DEF SyncSpec

\* Whom an attempt has to promote holds a listed address, and only portals in
\* development mode seed: what OnlyNamedAreAdmins needs to be inductive.
NamedInv ==
  /\ OnlyNamedAreAdmins
  /\ \A p \in Portal : \A x \in todo[p] : EmailOf[x[2]] \in Listed
  /\ \A p \in Portal : seedPc[p] = "upsert" => DevMode

\* Neither the seeding nor the sync goroutine makes anybody an administrator
\* whom the configuration does not name.
LEMMA NamedStep == SyncTypeOK /\ NamedInv /\ [SyncNext]_syncVars => NamedInv'
<1> SUFFICES ASSUME SyncTypeOK, NamedInv, [SyncNext]_syncVars PROVE NamedInv'
  BY SMTT(60)
<1>t. /\ role \in [Account -> Role \cup {Absent}]
      /\ seedPc \in [Portal -> {"upsert", "done"}]
      /\ \A p \in Portal : seedPc[p] = "upsert" => seedNext[p] \in DOMAIN SeedUsers
      /\ todo \in [Portal -> SUBSET (Nat \X Account)]
  BY SMTT(60) DEF SyncTypeOK
<1>n. /\ OnlyNamedAreAdmins
      /\ \A p \in Portal : \A x \in todo[p] : EmailOf[x[2]] \in Listed
      /\ \A p \in Portal : seedPc[p] = "upsert" => DevMode
  BY SMTT(60) DEF NamedInv
<1>1. ASSUME NEW p \in Portal, UpsertUser(p) PROVE NamedInv'
  <2> DEFINE u == SeedUsers[seedNext[p]]
  <2>1. seedPc[p] = "upsert" /\ (NextSeed(p) \/ RetrySeed(p)) /\ todo' = todo
    BY <1>1, SMTT(60) DEF UpsertUser, syncing
  <2>2. DevMode /\ u \in Seeded
    BY <1>t, <1>n, <2>1, SMTT(60) DEF Seeded
  <2>3. role' = role \/ role' = [role EXCEPT ![u] = SeedRole[u]]
    BY <1>1, ZenonT(60) DEF UpsertUser
  <2>4. OnlyNamedAreAdmins'
    <3> HIDE DEF u
    <3> QED
      BY <1>t, <1>n, <2>2, <2>3, SMTT(60) DEF OnlyNamedAreAdmins
  <2>5. \A q \in Portal : seedPc'[q] = "upsert" => seedPc[q] = "upsert"
    BY <1>t, <2>1, SMTT(60) DEF NextSeed, RetrySeed
  <2>6. QED
    BY <1>n, <2>1, <2>4, <2>5, SMTT(60) DEF NamedInv
<1>2. ASSUME NEW p \in Portal, RegisterService(p) \/ EndAttempt(p) PROVE NamedInv'
  BY <1>n, <1>2, ZenonT(60) DEF RegisterService, EndAttempt, seeding, NamedInv, OnlyNamedAreAdmins
<1>3. ASSUME NEW p \in Portal, AdminListUsers(p) PROVE NamedInv'
  <2>1. \A q \in Portal : \A x \in todo'[q] : EmailOf[x[2]] \in Listed
    <3>1. CASE UNCHANGED todo
      BY <1>n, <3>1, SMTT(60)
    <3>2. ASSUME NEW emailToUser \in [Email -> Account], NEW places \in SUBSET DOMAIN AdminEmails,
                 \A e \in Email : Holders(e) # {} => emailToUser[e] \in Holders(e),
                 places = {i \in DOMAIN AdminEmails :
                             /\ Holders(AdminEmails[i]) # {}
                             /\ role[emailToUser[AdminEmails[i]]] # "admin"},
                 todo' = [todo EXCEPT ![p] = {<<i, emailToUser[AdminEmails[i]]>> : i \in places}]
          PROVE  \A q \in Portal : \A x \in todo'[q] : EmailOf[x[2]] \in Listed
      <4>1. \A i \in DOMAIN AdminEmails : AdminEmails[i] \in Email /\ AdminEmails[i] \in Listed
        BY SyncAssumption, SMTT(60) DEF Listed
      <4>2. \A i \in places : EmailOf[emailToUser[AdminEmails[i]]] = AdminEmails[i]
        BY <3>2, <4>1, SMTT(60) DEF Holders
      <4>3. SUFFICES ASSUME NEW q \in Portal, NEW x \in todo'[q] PROVE EmailOf[x[2]] \in Listed
        BY SMTT(60)
      <4>4. CASE q # p
        BY <1>t, <1>n, <3>2, <4>4, SMTT(60)
      <4>5. CASE q = p
        <5>1. PICK i \in places : x = <<i, emailToUser[AdminEmails[i]]>>
          BY <1>t, <3>2, <4>5, SMTT(60)
        <5>2. QED
          BY <4>1, <4>2, <5>1, SMTT(60)
      <4>6. QED
        BY <4>4, <4>5, SMTT(60)
    <3>3. QED
      BY <1>3, <3>1, <3>2, Listing, ZenonT(60)
  <2>2. QED
    BY <1>n, <1>3, <2>1, ZenonT(60) DEF AdminListUsers, seeding, NamedInv, OnlyNamedAreAdmins
<1>4. ASSUME NEW p \in Portal, AdminUpdateUserRole(p) PROVE NamedInv'
  <2>1. PICK first \in todo[p] :
          /\ role' = [role EXCEPT ![first[2]] = "admin"] \/ role' = role
          /\ todo' = [todo EXCEPT ![p] = @ \ {first}]
          /\ seedPc' = seedPc
    BY <1>4, ZenonT(60) DEF AdminUpdateUserRole, seeding
  <2>2. EmailOf[first[2]] \in Listed
    BY <1>n, SMTT(60)
  <2>3. OnlyNamedAreAdmins'
    BY <1>t, <1>n, <2>1, <2>2, SMTT(60) DEF OnlyNamedAreAdmins
  <2>4. \A q \in Portal : \A x \in todo'[q] : EmailOf[x[2]] \in Listed
    BY <1>t, <1>n, <2>1, SMTT(60)
  <2>5. QED
    BY <1>n, <2>1, <2>3, <2>4, SMTT(60) DEF NamedInv
<1>5. ASSUME NEW p \in Portal, Restart(p) PROVE NamedInv'
  <2>1. /\ role' = role /\ todo' = [todo EXCEPT ![p] = {}]
        /\ seedPc' = [seedPc EXCEPT ![p] = FirstSeed]
    BY <1>5, SMTT(60) DEF Restart
  <2>2. QED
    BY <1>t, <1>n, <2>1, SMTT(60) DEF NamedInv, OnlyNamedAreAdmins, FirstSeed
<1>6. ASSUME NEW u \in Account, SignUp(u) PROVE NamedInv'
  <2>1. OnlyNamedAreAdmins'
    BY <1>t, <1>n, <1>6, SMTT(60) DEF SignUp, OnlyNamedAreAdmins
  <2>2. QED
    BY <1>n, <1>6, <2>1, SMTT(60) DEF SignUp, seeding, syncing, NamedInv
<1>7. CASE UNCHANGED syncVars
  BY <1>n, <1>7 DEF syncVars, NamedInv, OnlyNamedAreAdmins
<1>8. QED
  BY <1>1, <1>2, <1>3, <1>4, <1>5, <1>6, <1>7, SMTT(60) DEF SyncNext, SyncStep

\* However many portals start at once, whatever calls fail and whenever portals
\* are restarted, syncAdminsOnce and seedAll make nobody an administrator but the
\* holders of the configured addresses and whom the users file names.
THEOREM NobodyElsePromoted == SyncSpec => []OnlyNamedAreAdmins
<1>1. SyncInit => NamedInv
  <2>1. ASSUME SyncInit PROVE OnlyNamedAreAdmins
    BY <2>1, SMTT(60) DEF SyncInit, OnlyNamedAreAdmins, Absent
  <2>2. ASSUME SyncInit PROVE \A p \in Portal : todo[p] = {} /\ (seedPc[p] = "upsert" => DevMode)
    BY <2>2, SMTT(60) DEF SyncInit, FirstSeed
  <2>3. QED
    BY <2>1, <2>2, SMTT(60) DEF NamedInv
<1>2. NamedInv => OnlyNamedAreAdmins
  BY SMTT(60) DEF NamedInv
<1>3. QED
  BY <1>1, <1>2, SyncTypeCorrect, NamedStep, PTL DEF SyncSpec

-----------------------------------------------------------------------------
(* The safe half of ListedBecomeAdmins: what a sync that succeeds achieves. *)

\* Address e had an account when the portals started.
Had(e) == \E u \in Present : EmailOf[u] = e

\* An account of address e is an administrator.
Raised(e) == \E u \in Account : EmailOf[u] = e /\ role[u] = "admin"

\* The users file does not make a listed person a member.
SeedsKeepAdmins == DevMode => \A u \in Seeded : EmailOf[u] \in Listed => SeedRole[u] = "admin"

\* Accounts do not vanish, and as long as no update of an attempt has failed,
\* every listed address is raised already or its turn is still to come.
RaisedInv ==
  /\ \A u \in Present : role[u] # Absent
  /\ \A p \in Portal : seedPc[p] = "upsert" => DevMode
  /\ \A p \in Portal : \A i \in DOMAIN AdminEmails :
       syncPc[p] = "update" /\ ~failed[p] /\ Had(AdminEmails[i]) =>
         \/ Raised(AdminEmails[i])
         \/ \E x \in todo[p] : x[1] = i /\ EmailOf[x[2]] = AdminEmails[i]

\* An address that is raised stays raised, whatever the portals do.
LEMMA RaisedStays ==
  ASSUME SeedsKeepAdmins, SyncTypeOK, RaisedInv, [SyncNext]_syncVars
  PROVE  /\ \A e \in Listed : Raised(e) => Raised(e)'
         /\ \A u \in Present : role'[u] # Absent
         /\ \A p \in Portal : seedPc'[p] = "upsert" => DevMode
<1> DEFINE Goal == /\ \A e \in Listed : Raised(e) => Raised(e)'
                   /\ \A u \in Present : role'[u] # Absent
                   /\ \A p \in Portal : seedPc'[p] = "upsert" => DevMode
<1> SUFFICES Goal
  BY SMTT(60)
<1>t. /\ role \in [Account -> Role \cup {Absent}]
      /\ seedPc \in [Portal -> {"upsert", "done"}]
      /\ \A p \in Portal : seedPc[p] = "upsert" => seedNext[p] \in DOMAIN SeedUsers
      /\ todo \in [Portal -> SUBSET (Nat \X Account)]
      /\ Present \subseteq Account
  BY SyncAssumption, SMTT(60) DEF SyncTypeOK
<1>n. /\ \A u \in Present : role[u] # Absent
      /\ \A p \in Portal : seedPc[p] = "upsert" => DevMode
  BY SMTT(60) DEF RaisedInv
<1>c. ASSUME NEW u \in Account, NEW r \in Role,
             role' = role \/ role' = [role EXCEPT ![u] = r],
             EmailOf[u] \in Listed /\ role[u] = "admin" => r = "admin"
      PROVE  /\ \A e \in Listed : Raised(e) => Raised(e)'
             /\ \A v \in Present : role'[v] # Absent
  <2>1. \A e \in Listed : Raised(e) => Raised(e)'
    BY <1>t, <1>c, SMTT(60) DEF Raised
  <2>2. \A v \in Present : role'[v] # Absent
    BY <1>t, <1>n, <1>c, SMTT(60) DEF Role, Absent
  <2>3. QED
    BY <2>1, <2>2, SMTT(60)
<1>s. ASSUME role' = role, seedPc' = seedPc PROVE Goal
  BY <1>n, <1>s, SMTT(60) DEF Raised
<1>1. ASSUME NEW p \in Portal, UpsertUser(p) PROVE Goal
  <2> DEFINE u == SeedUsers[seedNext[p]]
  <2>1. seedPc[p] = "upsert" /\ (NextSeed(p) \/ RetrySeed(p))
    BY <1>1, ZenonT(60) DEF UpsertUser
  <2>2. DevMode /\ u \in Seeded /\ u \in Account /\ SeedRole[u] \in Role
    <3>1. seedNext[p] \in DOMAIN SeedUsers
      BY <1>t, <2>1
    <3>2. QED
      BY <1>n, <2>1, <3>1, SyncAssumption DEF Seeded
  <2>3. role' = role \/ role' = [role EXCEPT ![u] = SeedRole[u]]
    BY <1>1, ZenonT(60) DEF UpsertUser
  <2>4. EmailOf[u] \in Listed => SeedRole[u] = "admin"
    BY <2>2 DEF SeedsKeepAdmins
  <2>5. \A q \in Portal : seedPc'[q] = "upsert" => seedPc[q] = "upsert"
    BY <1>t, <2>1, ZenonT(60) DEF NextSeed, RetrySeed
  <2> HIDE DEF u
  <2>6. QED
    BY <1>n, <1>c, <2>2, <2>3, <2>4, <2>5, SMTT(60)
<1>2. ASSUME NEW p \in Portal, RegisterService(p) \/ EndAttempt(p) \/ AdminListUsers(p)
      PROVE  Goal
  BY <1>s, <1>2, ZenonT(60) DEF RegisterService, EndAttempt, AdminListUsers, seeding
<1>3. ASSUME NEW p \in Portal, AdminUpdateUserRole(p) PROVE Goal
  <2>1. PICK first \in todo[p] :
          /\ role' = [role EXCEPT ![first[2]] = "admin"] \/ role' = role
          /\ seedPc' = seedPc
    BY <1>3, SMTT(60) DEF AdminUpdateUserRole, seeding
  <2>2. first[2] \in Account /\ "admin" \in Role
    BY <1>t, SMTT(60) DEF Role
  <2>3. QED
    BY <1>n, <1>c, <2>1, <2>2, ZenonT(60)
<1>4. ASSUME NEW p \in Portal, Restart(p) PROVE Goal
  <2>1. role' = role /\ seedPc' = [seedPc EXCEPT ![p] = FirstSeed]
    BY <1>4 DEF Restart
  <2>2. QED
    BY <1>t, <1>n, <2>1, SMTT(60) DEF Raised, FirstSeed
<1>5. ASSUME NEW u \in Account, SignUp(u) PROVE Goal
  <2>1. role[u] = Absent /\ role' = [role EXCEPT ![u] = "member"] /\ seedPc' = seedPc
    BY <1>5, SMTT(60) DEF SignUp, seeding
  <2>2. QED
    BY <1>n, <1>c, <2>1, ZenonT(60) DEF Role, Absent
<1>6. CASE UNCHANGED syncVars
  BY <1>s, <1>6, SMTT(60) DEF syncVars
<1>7. QED
  BY <1>1, <1>2, <1>3, <1>4, <1>5, <1>6, SMTT(60) DEF SyncNext, SyncStep

\* Every step keeps the promise of the running attempts.
LEMMA RaisedStep ==
  ASSUME SeedsKeepAdmins, SyncTypeOK, RaisedInv, [SyncNext]_syncVars
  PROVE  RaisedInv'
<1> DEFINE Promise(p, i) == syncPc[p] = "update" /\ ~failed[p] /\ Had(AdminEmails[i]) =>
                              \/ Raised(AdminEmails[i])
                              \/ \E x \in todo[p] : x[1] = i /\ EmailOf[x[2]] = AdminEmails[i]
<1>t. /\ syncPc \in [Portal -> {"register", "list", "update", "done"}]
      /\ todo \in [Portal -> SUBSET (Nat \X Account)]
      /\ failed \in [Portal -> BOOLEAN]
      /\ role \in [Account -> Role \cup {Absent}]
  BY SMTT(60) DEF SyncTypeOK
<1>n. \A p \in Portal : \A i \in DOMAIN AdminEmails : Promise(p, i)
  BY SMTT(60) DEF RaisedInv
<1>l. \A i \in DOMAIN AdminEmails : AdminEmails[i] \in Email /\ AdminEmails[i] \in Listed
  BY SyncAssumption, SMTT(60) DEF Listed
<1>k. /\ \A e \in Listed : Raised(e) => Raised(e)'
      /\ \A u \in Present : role'[u] # Absent
      /\ \A p \in Portal : seedPc'[p] = "upsert" => DevMode
  BY RaisedStays, SMTT(60)
<1> SUFFICES ASSUME NEW q \in Portal, NEW i \in DOMAIN AdminEmails PROVE Promise(q, i)'
  BY <1>k, ZenonT(60) DEF RaisedInv, Had
<1> DEFINE e == AdminEmails[i]
<1>s. ASSUME \/ syncPc'[q] = syncPc[q] /\ failed'[q] = failed[q] /\ todo'[q] = todo[q]
             \/ syncPc'[q] # "update"
             \/ failed'[q]
      PROVE  Promise(q, i)'
  BY <1>n, <1>l, <1>k, <1>s DEF Had
<1>1. ASSUME NEW p \in Portal, UpsertUser(p) PROVE Promise(q, i)'
  BY <1>s, <1>1, ZenonT(60) DEF UpsertUser, syncing
<1>2. ASSUME NEW p \in Portal, RegisterService(p) \/ EndAttempt(p) PROVE Promise(q, i)'
  <2>1. CASE q = p
    <3>1. syncPc'[q] # "update"
      BY <1>t, <1>2, <2>1, ZenonT(60) DEF RegisterService, EndAttempt, RetrySync
    <3>2. QED
      BY <1>s, <3>1
  <2>2. CASE q # p
    <3>1. syncPc'[q] = syncPc[q] /\ failed'[q] = failed[q] /\ todo'[q] = todo[q]
      BY <1>t, <1>2, <2>2, ZenonT(60) DEF RegisterService, EndAttempt, RetrySync
    <3>2. QED
      BY <1>s, <3>1
  <2>3. QED
    BY <2>1, <2>2, ZenonT(60)
<1>3. ASSUME NEW p \in Portal, AdminListUsers(p) PROVE Promise(q, i)'
  <2>1. CASE Fails /\ RetrySync(p, "list") /\ UNCHANGED <<todo, failed>>
    <3>1. syncPc'[q] = syncPc[q] \/ syncPc'[q] # "update"
      BY <1>t, <2>1, SMTT(60) DEF RetrySync
    <3>2. QED
      BY <1>s, <2>1, <3>1, ZenonT(60)
  <2>2. ASSUME NEW emailToUser \in [Email -> Account], NEW places \in SUBSET DOMAIN AdminEmails,
               \A f \in Email : Holders(f) # {} => emailToUser[f] \in Holders(f),
               places = {j \in DOMAIN AdminEmails :
                           /\ Holders(AdminEmails[j]) # {}
                           /\ role[emailToUser[AdminEmails[j]]] # "admin"},
               todo' = [todo EXCEPT ![p] = {<<j, emailToUser[AdminEmails[j]]>> : j \in places}],
               failed' = [failed EXCEPT ![p] = FALSE],
               syncPc' = [syncPc EXCEPT ![p] = "update"]
        PROVE  Promise(q, i)'
    <3>1. CASE q # p
      BY <1>s, <1>t, <2>2, <3>1, ZenonT(60)
    <3>2. CASE q = p /\ Had(e)
      <4>1. Holders(e) # {}
        <5>1. PICK u \in Present : EmailOf[u] = e
          BY <3>2, ZenonT(60) DEF Had
        <5>2. u \in Account /\ role[u] # Absent
          BY SyncAssumption, ZenonT(60) DEF RaisedInv
        <5>3. QED
          BY <5>1, <5>2 DEF Holders
      <4>2. emailToUser[e] \in Account /\ EmailOf[emailToUser[e]] = e
        BY <1>l, <2>2, <4>1, ZenonT(60) DEF Holders
      <4>3. CASE role[emailToUser[e]] = "admin"
        <5>1. Raised(e)
          BY <4>2, <4>3, SMTT(60) DEF Raised
        <5>2. QED
          BY <1>k, <1>l, <5>1, ZenonT(60)
      <4>4. CASE role[emailToUser[e]] # "admin"
        <5>1. i \in places
          BY <2>2, <4>1, <4>4, ZenonT(60)
        <5>2. <<i, emailToUser[e]>> \in todo'[q]
          BY <1>t, <2>2, <3>2, <5>1, SMTT(60)
        <5>3. QED
          BY <4>2, <5>2, SMTT(60)
      <4>5. QED
        BY <4>3, <4>4, ZenonT(60)
    <3>3. CASE q = p /\ ~Had(e)
      BY <3>3, SMTT(60) DEF Had
    <3>4. QED
      BY <3>1, <3>2, <3>3, ZenonT(60)
  <2>3. QED
    BY <1>3, <2>1, <2>2, Listing, ZenonT(60)
<1>4. ASSUME NEW p \in Portal, AdminUpdateUserRole(p) PROVE Promise(q, i)'
  <2>1. CASE q # p
    <3>1. syncPc'[q] = syncPc[q] /\ failed'[q] = failed[q] /\ todo'[q] = todo[q]
      BY <1>t, <1>4, <2>1, ZenonT(60) DEF AdminUpdateUserRole
    <3>2. QED
      BY <1>s, <3>1
  <2>2. CASE q = p
    <3>1. PICK first \in todo[p] :
            /\ \/ role' = [role EXCEPT ![first[2]] = "admin"] /\ failed' = failed
               \/ failed' = [failed EXCEPT ![p] = TRUE]
            /\ todo' = [todo EXCEPT ![p] = @ \ {first}]
            /\ syncPc' = syncPc
      BY <1>4, ZenonT(60) DEF AdminUpdateUserRole
    <3>2. CASE failed' = [failed EXCEPT ![p] = TRUE]
      BY <1>s, <1>t, <2>2, <3>2, ZenonT(60)
    <3>3. CASE role' = [role EXCEPT ![first[2]] = "admin"] /\ failed' = failed
      <4>1. SUFFICES ASSUME syncPc[p] = "update", ~failed[p], Had(e), ~Raised(e)
                     PROVE  \/ Raised(e)'
                            \/ \E x \in todo'[p] : x[1] = i /\ EmailOf[x[2]] = e
        BY <1>k, <1>l, <2>2, <3>1, <3>3, ZenonT(60) DEF Had
      <4>2. PICK x \in todo[p] : x[1] = i /\ EmailOf[x[2]] = e
        BY <1>n, <4>1, SMTT(60)
      <4>3. CASE x = first
        <5>1. first[2] \in Account
          BY <1>t, SMTT(60)
        <5>2. role'[first[2]] = "admin"
          BY <1>t, <3>3, <5>1, SMTT(60)
        <5>3. QED
          BY <4>2, <4>3, <5>1, <5>2, SMTT(60) DEF Raised
      <4>4. CASE x # first
        BY <1>t, <3>1, <4>2, <4>4, SMTT(60)
      <4>5. QED
        BY <4>3, <4>4, ZenonT(60)
    <3>4. QED
      BY <3>1, <3>2, <3>3, ZenonT(60)
  <2>3. QED
    BY <2>1, <2>2, SMTT(60)
<1>5. ASSUME NEW p \in Portal, Restart(p) PROVE Promise(q, i)'
  <2>1. CASE q = p
    <3>1. syncPc'[q] # "update"
      BY <1>t, <1>5, <2>1, SMTT(60) DEF Restart, FirstSync
    <3>2. QED
      BY <1>s, <3>1
  <2>2. CASE q # p
    <3>1. syncPc'[q] = syncPc[q] /\ failed'[q] = failed[q] /\ todo'[q] = todo[q]
      BY <1>t, <1>5, <2>2 DEF Restart
    <3>2. QED
      BY <1>s, <3>1
  <2>3. QED
    BY <2>1, <2>2, SMTT(60)
<1>6. ASSUME NEW u \in Account, SignUp(u) PROVE Promise(q, i)'
  BY <1>s, <1>6, ZenonT(60) DEF SignUp, syncing
<1>7. CASE UNCHANGED syncVars
  BY <1>s, <1>7, ZenonT(60) DEF syncVars
<1> HIDE DEF Promise
<1>8. QED
  BY <1>1, <1>2, <1>3, <1>4, <1>5, <1>6, <1>7, SMTT(60) DEF SyncNext, SyncStep

\* An attempt of syncAdminsOnce that returns without an error leaves every listed
\* address that had an account with an administrator, and an address that has one
\* keeps it: the part of ListedBecomeAdmins that is left once an attempt succeeds.
SyncAchieves ==
  [][/\ \A p \in Portal : EndAttempt(p) /\ ~failed[p] => \A e \in Listed : Had(e) => Raised(e)
     /\ \A e \in Listed : Raised(e) => Raised(e)']_syncVars

\* If the users file makes no listed person a member, an attempt of syncAdminsOnce
\* that succeeds has done what SyncAdmins is for, and no portal undoes it.
THEOREM SuccessfulSync == ASSUME SeedsKeepAdmins PROVE SyncSpec => SyncAchieves
<1> DEFINE Act == /\ \A p \in Portal : EndAttempt(p) /\ ~failed[p] =>
                                         \A e \in Listed : Had(e) => Raised(e)
                  /\ \A e \in Listed : Raised(e) => Raised(e)'
<1>1. SyncInit => RaisedInv
  <2>1. ASSUME SyncInit
        PROVE  \A p \in Portal : syncPc[p] # "update" /\ (seedPc[p] = "upsert" => DevMode)
    BY <2>1, SMTT(60) DEF SyncInit, FirstSync, FirstSeed
  <2>2. ASSUME SyncInit PROVE \A u \in Present : role[u] # Absent
    BY <2>2, SyncAssumption DEF SyncInit, Absent
  <2>3. QED
    BY <2>1, <2>2, ZenonT(60) DEF RaisedInv
<1>2. SyncTypeOK /\ RaisedInv /\ [SyncNext]_syncVars => RaisedInv'
  BY RaisedStep, SMTT(60)
<1>3. ASSUME SyncTypeOK, RaisedInv, [SyncNext]_syncVars PROVE Act
  <2>1. ASSUME NEW p \in Portal, EndAttempt(p), ~failed[p], NEW e \in Listed, Had(e)
        PROVE  Raised(e)
    <3>1. PICK i \in DOMAIN AdminEmails : e = AdminEmails[i]
      BY SMTT(60) DEF Listed
    <3>2. syncPc[p] = "update" /\ todo[p] = {}
      BY <2>1, SMTT(60) DEF EndAttempt
    <3>3. QED
      BY <1>3, <2>1, <3>1, <3>2, SMTT(60) DEF RaisedInv
  <2>2. \A e \in Listed : Raised(e) => Raised(e)'
    BY <1>3, RaisedStays, SMTT(60)
  <2>3. QED
    BY <2>1, <2>2, SMTT(60)
<1>4. SyncTypeOK /\ RaisedInv /\ [SyncNext]_syncVars => [Act]_syncVars
  BY <1>3
<1>5. QED
  BY <1>1, <1>2, <1>4, SyncTypeCorrect, PTL DEF SyncSpec, SyncAchieves
=============================================================================
