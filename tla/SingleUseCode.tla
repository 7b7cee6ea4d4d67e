--------------------------- MODULE SingleUseCode ---------------------------
(***************************************************************************)
(* What the authorization-code endpoint promises, with no stores, requests *)
(* or restarts in sight: a code is spent for good before a token response  *)
(* is issued for it, and at most one response ever is.  CodeStore          *)
(* implements this when the backend applies every write.                   *)
(***************************************************************************)
EXTENDS Naturals

CONSTANT Code

VARIABLES live,      \* codes that may still be redeemed
          spent,     \* codes redeemed or burnt, durably
          answers    \* token responses issued for each code

absVars == <<live, spent, answers>>

AbsInit == live = {} /\ spent = {} /\ answers = [c \in Code |-> 0]

Issue(c) ==
  /\ c \notin live \cup spent
  /\ live' = live \cup {c}
  /\ UNCHANGED <<spent, answers>>

Spend(c) ==
  /\ c \in live
  /\ live' = live \ {c}
  /\ spent' = spent \cup {c}
  /\ UNCHANGED answers

Respond(c) ==
  /\ c \in spent
  /\ answers[c] = 0
  /\ answers' = [answers EXCEPT ![c] = 1]
  /\ UNCHANGED <<live, spent>>

AbsNext == \E c \in Code : Issue(c) \/ Spend(c) \/ Respond(c)

AbsSpec == AbsInit /\ [][AbsNext]_absVars
=============================================================================
