----------------------------- MODULE AdminSync -----------------------------
(***************************************************************************)
(* What a portal does to vire-server's user table when it starts.          *)
(*                                                                         *)
(* app.New starts up to two goroutines and waits for neither:              *)
(*                                                                         *)
(*   - seed.DevUsers (development mode only) upserts the users of          *)
(*     import/users.json, in order, each with the role the file gives it;  *)
(*   - seed.RegisterService followed by seed.SyncAdmins lists the users    *)
(*     and raises those named in VIRE_ADMIN_USERS to the admin role.       *)
(*                                                                         *)
(* Each of the three retries a failed attempt, up to `Attempts` times, and *)
(* then gives up without stopping the portal.  Several portals may start   *)
(* against one vire-server, and a portal may be restarted at any point.    *)
(* A call may fail before vire-server acts on it or after (lost answer).   *)
(***************************************************************************)
EXTENDS Naturals, Sequences, FiniteSets

CONSTANTS
    Portal,       \* portal instances
    Account,      \* every account that may ever exist
    Email,
    EmailOf,      \* [Account -> Email]: several accounts may share an address
    Admins,       \* accounts that are administrators to begin with
    Present,      \* accounts vire-server holds to begin with
    AdminEmails,  \* the addresses of VIRE_ADMIN_USERS, in order
    DevMode,      \* whether portals seed development users
    SeedUsers,    \* the accounts of import/users.json, in order
    SeedRole,     \* [Account -> Role]: the role the file gives each
    Attempts,     \* seedRetryAttempts
    MaxFaults,    \* bound: calls that fail
    MaxRestarts   \* bound: restarts of portals

Role == {"admin", "member"}
Absent == "absent"

ASSUME SyncAssumption ==
    /\ EmailOf \in [Account -> Email]
    /\ Admins \subseteq Present /\ Present \subseteq Account
    /\ AdminEmails \in Seq(Email)
    /\ DevMode \in BOOLEAN
    /\ SeedUsers \in Seq(Account) /\ SeedRole \in [Account -> Role]
    /\ Attempts \in Nat \ {0}
    /\ MaxFaults \in Nat /\ MaxRestarts \in Nat

VARIABLES
    role,      \* [Account -> Role \cup {Absent}]: vire-server's user table
    seedPc,    \* [Portal -> step of the seeding goroutine]
    seedTry,   \* its attempt
    seedNext,  \* the index in SeedUsers it upserts next
    syncPc,    \* [Portal -> step of the registration and sync goroutine]
    syncTry,   \* its attempt
    todo,      \* the places of VIRE_ADMIN_USERS the running attempt has still to
               \* come to, each with the account it has to promote there
    failed,    \* an update of the running attempt failed
    faults,    \* calls that failed so far
    restarts   \* restarts so far

seeding == <<seedPc, seedTry, seedNext>>
syncing == <<syncPc, syncTry, todo, failed>>
syncVars == <<role, seedPc, seedTry, seedNext, syncPc, syncTry, todo, failed,
              faults, restarts>>

SyncTypeOK ==
    /\ role \in [Account -> Role \cup {Absent}]
    /\ seedPc \in [Portal -> {"upsert", "done"}]
    /\ seedTry \in [Portal -> 1..Attempts]
    /\ seedNext \in [Portal -> Nat]
    /\ \A p \in Portal : seedPc[p] = "upsert" => seedNext[p] \in DOMAIN SeedUsers
    /\ syncPc \in [Portal -> {"register", "list", "update", "done"}]
    /\ syncTry \in [Portal -> 1..Attempts]
    /\ todo \in [Portal -> SUBSET (Nat \X Account)]
    /\ failed \in [Portal -> BOOLEAN]
    /\ faults \in 0..MaxFaults
    /\ restarts \in 0..MaxRestarts

(* DevUsers returns at once when the users file is empty. *)
FirstSeed == IF DevMode /\ SeedUsers # <<>> THEN "upsert" ELSE "done"

(* Without VIRE_ADMIN_USERS (or a service key) there is no sync goroutine. *)
FirstSync == IF AdminEmails # <<>> THEN "register" ELSE "done"

SyncInit ==
    /\ role = [u \in Account |-> IF u \in Admins THEN "admin"
                              ELSE IF u \in Present THEN "member" ELSE Absent]
    /\ seedPc = [p \in Portal |-> FirstSeed]
    /\ seedTry = [p \in Portal |-> 1]
    /\ seedNext = [p \in Portal |-> 1]
    /\ syncPc = [p \in Portal |-> FirstSync]
    /\ syncTry = [p \in Portal |-> 1]
    /\ todo = [p \in Portal |-> {}]
    /\ failed = [p \in Portal |-> FALSE]
    /\ faults = 0
    /\ restarts = 0

(* The outcome of one call: answered, or failed at the cost of one fault. *)
Replied == faults' = faults
Fails == faults < MaxFaults /\ faults' = faults + 1

-----------------------------------------------------------------------------
(* seedWithRetry and seedAll.                                              *)

(* The first failing upsert ends the attempt; the next starts at the first *)
(* user again.                                                             *)
RetrySeed(p) ==
    IF seedTry[p] < Attempts
    THEN /\ seedTry' = [seedTry EXCEPT ![p] = @ + 1]
         /\ seedNext' = [seedNext EXCEPT ![p] = 1]
         /\ UNCHANGED seedPc
    ELSE /\ seedPc' = [seedPc EXCEPT ![p] = "done"]
         /\ UNCHANGED <<seedTry, seedNext>>

NextSeed(p) ==
    /\ IF seedNext[p] < Len(SeedUsers)
       THEN /\ seedNext' = [seedNext EXCEPT ![p] = @ + 1]
            /\ UNCHANGED seedPc
       ELSE /\ seedPc' = [seedPc EXCEPT ![p] = "done"]
            /\ UNCHANGED seedNext
    /\ UNCHANGED seedTry

UpsertUser(p) ==
    LET u == SeedUsers[seedNext[p]]
        applied == role' = [role EXCEPT ![u] = SeedRole[u]]
    IN /\ seedPc[p] = "upsert"
       /\ \/ Replied /\ applied /\ NextSeed(p)
          \/ Fails /\ (applied \/ UNCHANGED role) /\ RetrySeed(p)
       /\ UNCHANGED <<syncing, restarts>>

-----------------------------------------------------------------------------
(* RegisterService, SyncAdmins, syncAdminsWithRetry and syncAdminsOnce.    *)

(* RetrySync as it would be with one attempt too few. *)
RetrySyncOnceLess(p, step) ==
    IF syncTry[p] + 1 < Attempts
    THEN /\ syncTry' = [syncTry EXCEPT ![p] = @ + 1]
         /\ syncPc' = [syncPc EXCEPT ![p] = step]
    ELSE /\ syncPc' = [syncPc EXCEPT ![p] = "done"]
         /\ UNCHANGED syncTry

(* An attempt failed: the same step again, or give up. *)
RetrySync(p, step) ==
    IF syncTry[p] < Attempts
    THEN /\ syncTry' = [syncTry EXCEPT ![p] = @ + 1]
         /\ syncPc' = [syncPc EXCEPT ![p] = step]
    ELSE /\ syncPc' = [syncPc EXCEPT ![p] = "done"]
         /\ UNCHANGED syncTry

RegisterService(p) ==
    /\ syncPc[p] = "register"
    /\ \/ /\ Replied
          /\ syncPc' = [syncPc EXCEPT ![p] = "list"]
          /\ syncTry' = [syncTry EXCEPT ![p] = 1]
       \/ Fails /\ RetrySync(p, "register")
    /\ UNCHANGED <<role, seeding, todo, failed, restarts>>

(* Holders as it would be if the map were not keyed by the address. *)
HoldersOfAny(e) == {u \in Account : role[u] # Absent}

Holders(e) == {u \in Account : role[u] # Absent /\ EmailOf[u] = e}

(* AdminListUsers and the emailToUser map: of the accounts that share an   *)
(* address the one vire-server lists last wins, which may be any of them.  *)
(* An address without an account, or whose account is an administrator     *)
(* already, is skipped.                                                    *)
AdminListUsers(p) ==
    /\ syncPc[p] = "list"
    /\ \/ /\ Replied
          /\ \E emailToUser \in [Email -> Account] :
               /\ \A e \in Email : Holders(e) # {} => emailToUser[e] \in Holders(e)
               /\ LET Wanted(e) == Holders(e) # {} /\ role[emailToUser[e]] # "admin"
                      places == {i \in DOMAIN AdminEmails : Wanted(AdminEmails[i])}
                  IN todo' = [todo EXCEPT ![p] =
                                {<<i, emailToUser[AdminEmails[i]]>> : i \in places}]
          /\ failed' = [failed EXCEPT ![p] = FALSE]
          /\ syncPc' = [syncPc EXCEPT ![p] = "update"]
          /\ UNCHANGED syncTry
       \/ Fails /\ RetrySync(p, "list") /\ UNCHANGED <<todo, failed>>
    /\ UNCHANGED <<role, seeding, restarts>>

(* One PATCH, for the first place left.  A failure is remembered and the   *)
(* loop goes on.                                                           *)
AdminUpdateUserRole(p) ==
    \E first \in todo[p] :
        LET applied == role' = [role EXCEPT ![first[2]] = "admin"]
        IN /\ syncPc[p] = "update"
           /\ \A other \in todo[p] : first[1] <= other[1]
           /\ \/ Replied /\ applied /\ UNCHANGED failed
              \/ /\ Fails /\ (applied \/ UNCHANGED role)
                 /\ failed' = [failed EXCEPT ![p] = TRUE]
           /\ todo' = [todo EXCEPT ![p] = @ \ {first}]
           /\ UNCHANGED <<seeding, syncPc, syncTry, restarts>>

(* The end of an attempt: listed again if an update failed, else over. *)
EndAttempt(p) ==
    /\ syncPc[p] = "update" /\ todo[p] = {}
    /\ IF failed[p] THEN RetrySync(p, "list")
       ELSE syncPc' = [syncPc EXCEPT ![p] = "done"] /\ UNCHANGED syncTry
    /\ UNCHANGED <<role, seeding, todo, failed, faults, restarts>>

-----------------------------------------------------------------------------
(* Somebody signs up at vire-server. *)
SignUp(u) ==
    /\ role[u] = Absent
    /\ role' = [role EXCEPT ![u] = "member"]
    /\ UNCHANGED <<seeding, syncing, faults, restarts>>

(* A portal is stopped at any point and started again. *)
Restart(p) ==
    /\ restarts < MaxRestarts
    /\ restarts' = restarts + 1
    /\ seedPc' = [seedPc EXCEPT ![p] = FirstSeed]
    /\ seedTry' = [seedTry EXCEPT ![p] = 1]
    /\ seedNext' = [seedNext EXCEPT ![p] = 1]
    /\ syncPc' = [syncPc EXCEPT ![p] = FirstSync]
    /\ syncTry' = [syncTry EXCEPT ![p] = 1]
    /\ todo' = [todo EXCEPT ![p] = {}]
    /\ failed' = [failed EXCEPT ![p] = FALSE]
    /\ UNCHANGED <<role, faults>>

SyncStep(p) ==
    RegisterService(p) \/ AdminListUsers(p) \/ AdminUpdateUserRole(p) \/ EndAttempt(p)

SyncNext ==
    \/ \E p \in Portal : UpsertUser(p) \/ SyncStep(p) \/ Restart(p)
    \/ \E u \in Account : SignUp(u)

SyncSpec == SyncInit /\ [][SyncNext]_syncVars

(* Both goroutines run, and every call carries a 30-second timeout. *)
SyncFairSpec ==
    SyncSpec /\ \A p \in Portal : WF_syncVars(UpsertUser(p)) /\ WF_syncVars(SyncStep(p))

-----------------------------------------------------------------------------
(* Who may be an administrator: who was one to begin with, the holder of   *)
(* an address of VIRE_ADMIN_USERS, and in development mode whom the users  *)
(* file makes one.  Neither a stale listing, a retry nor two portals at    *)
(* once ever promotes anybody else (syncAdminsOnce).                       *)
Listed == {AdminEmails[i] : i \in DOMAIN AdminEmails}
Seeded == {SeedUsers[i] : i \in DOMAIN SeedUsers}

OnlyNamedAreAdmins ==
    \A u \in Account : role[u] = "admin" =>
        \/ u \in Admins
        \/ EmailOf[u] \in Listed
        \/ DevMode /\ u \in Seeded /\ SeedRole[u] = "admin"

(* SyncAdmins "ensures the given email addresses have the admin role":     *)
(* every address of VIRE_ADMIN_USERS that had an account when the portals  *)
(* started ends up, for good, with an account that is an administrator,    *)
(* as long as fewer than Attempts calls fail for each portal there is, no  *)
(* account of the address is seeded, and although portals restart.         *)
ListedBecomeAdmins ==
    \A e \in Listed :
        (\E u \in Present : EmailOf[u] = e) =>
            <>[](\E u \in Account : EmailOf[u] = e /\ role[u] = "admin")
=============================================================================
