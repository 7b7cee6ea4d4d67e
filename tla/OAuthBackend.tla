---------------------------- MODULE OAuthBackend ----------------------------
(***************************************************************************)
(* What a call to vire-server's internal OAuth API can come to, as the     *)
(* portal's stores see it (internal/auth/backend.go).                      *)
(*                                                                         *)
(* A write that fails is logged and otherwise ignored by every store, so   *)
(* the only thing that matters is whether vire-server applied it: an       *)
(* error answer for a write that was applied (the 5 second client timeout  *)
(* fired first) looks to the program like a write that succeeded.  A read  *)
(* that fails is treated by every store as "not found".                    *)
(*                                                                         *)
(* SaveResults is the set of results a write may have (TRUE: applied), and *)
(* ReadResults the set of results a read may have (TRUE: answered).  The   *)
(* choice {TRUE} is a reliable backend, BOOLEAN one that may fail at any   *)
(* call, and {FALSE} a portal configured without a backend.                *)
(*                                                                         *)
(* The portal keeps its stores in memory: each of them starts empty when   *)
(* the process is restarted.                                               *)
(***************************************************************************)
EXTENDS Naturals

CONSTANTS SaveResults, ReadResults,
          Req,          \* the requests the portal serves at the same time
          MaxRestarts   \* bound on the number of portal restarts

ASSUME BackendAssumption == SaveResults \subseteq BOOLEAN /\ ReadResults \subseteq BOOLEAN

ASSUME RestartAssumption == MaxRestarts \in Nat

VARIABLE restarts       \* how often the portal has been restarted

\* Every write is applied: the hypothesis of the properties that span restarts.
ReliableSaves == SaveResults = {TRUE}

ReliableReads == ReadResults = {TRUE}
=============================================================================
