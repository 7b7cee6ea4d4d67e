---------------------------- MODULE MCAdminSync ----------------------------
(* Instances of AdminSync for TLC. *)
EXTENDS AdminSync

CONSTANTS p1, p2, ann, bob, cy, dee, annMail, bobMail

(* ann and dee share an address, and so do bob and cy, as the two accounts *)
(* of the repository's own import/users.json do.                           *)
SharedEmail == [u \in Account |-> IF u \in {ann, dee} THEN annMail ELSE bobMail]

(* One address is to be an administrator; it may be configured twice. *)
AnnTwice == <<annMail, annMail>>

AnnSeeded == <<ann>>
SeedTwo == <<bob, cy>>
MemberRoles == [u \in Account |-> "member"]
CyAdmin == [u \in Account |-> IF u = cy THEN "admin" ELSE "member"]
=============================================================================
