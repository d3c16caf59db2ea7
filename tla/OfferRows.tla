------------------------------ MODULE OfferRows ------------------------------
(***************************************************************************)
(* Funding offers of industry partners on solution pods: the rows of       *)
(* industry_supports and funded_project_comments, and what each handler    *)
(* checks (Guard) and writes (Effect).                                     *)
(*                                                                         *)
(* Two generations of endpoints share the table.  The current ones make,   *)
(* withdraw and answer offers; the legacy ones (/industry/support) record  *)
(* an intent on any pod and set any status.  LegacyPods are the pods on    *)
(* whose behalf somebody still uses the legacy endpoints.                  *)
(*                                                                         *)
(* Left out: terms, company names, notifications and the audit log; who    *)
(* answers an offer (the lead of the pod or an administrator; for legacy   *)
(* updates also its mentor and its university), since the row keeps no     *)
(* trace of it; the approval of the partner's own account.                 *)
(***************************************************************************)
EXTENDS Naturals, FiniteSets

CONSTANTS
  Partners,    \* approved industry accounts
  Pods,
  LegacyPods,
  OfferIds     \* bounds the number of rows of industry_supports

ASSUME LegacyAssumption == LegacyPods \subseteq Pods
ASSUME OfferIdsAssumption == IsFiniteSet(OfferIds)

RequestStatus == {"pending", "approved", "rejected", "withdrawn"}
NoOffer == [status |-> "none"]
Offer == [partner : Partners, pod : Pods, status : RequestStatus]

VARIABLES
  vetted,     \* pods in a faculty-approved status (pilot, completed)
  offer,      \* rows of industry_supports, NoOffer for an unused id
  comments,   \* funded_project_comments: who commented on which pod
  funded      \* history: who ever had an offer accepted on which pod

rows == <<vetted, offer, comments, funded>>

RowsTypeOK ==
  /\ vetted \subseteq Pods
  /\ offer \in [OfferIds -> Offer \cup {NoOffer}]
  /\ comments \subseteq Partners \X Pods
  /\ funded \subseteq Partners \X Pods

RowsInit ==
  /\ vetted = {}
  /\ offer = [o \in OfferIds |-> NoOffer]
  /\ comments = {} /\ funded = {}

Having(u, p, s) == {o \in OfferIds : offer[o] = [partner |-> u, pod |-> p, status |-> s]}

-----------------------------------------------------------------------------
(* Making an offer *)

\* Mutant of OfferGuard: no duplicate check.
OfferGuard_Repeated(u, p) == p \in vetted

\* The query for a pending offer expects at most one row; it fails the request
\* as surely when there are two.
OfferGuard(u, p) == p \in vetted /\ Having(u, p, "pending") = {}

OfferEffect(u, p, o) ==
  /\ offer[o] = NoOffer
  /\ offer' = [offer EXCEPT ![o] = [partner |-> u, pod |-> p, status |-> "pending"]]
  /\ UNCHANGED <<vetted, comments, funded>>

-----------------------------------------------------------------------------
(* Withdrawing, answering, legacy status updates: one write *)

\* Mutant of OpenOffer: every offer can be answered and withdrawn.
OpenOffer_Any(o) == offer[o] # NoOffer

OpenOffer(o) == offer[o].status = "pending"

\* "accepted" and "declined" as the table spells them.
AnswerStatus(decision) == IF decision = "accepted" THEN "approved" ELSE "rejected"

\* Assigning the status that was loaded writes nothing.
StatusEffect(o, status, seen) ==
  /\ offer' = IF status = seen THEN offer ELSE [offer EXCEPT ![o].status = status]
  /\ funded' = IF offer'[o].status = "approved"
               THEN funded \cup {<<offer[o].partner, offer[o].pod>>} ELSE funded
  /\ UNCHANGED <<vetted, comments>>

-----------------------------------------------------------------------------
(* The funder's view of a pod *)

\* Mutant of FunderAccess: any offer of the partner will do.
FunderAccess_AnyOffer(u, p) ==
  \E o \in OfferIds, s \in RequestStatus : o \in Having(u, p, s)

\* has_accepted_offer: the query expects at most one row and fails on two.
FunderAccess(u, p) == Cardinality(Having(u, p, "approved")) = 1

CommentEffect(u, p) ==
  /\ comments' = comments \cup {<<u, p>>}
  /\ UNCHANGED <<vetted, offer, funded>>

\* A faculty review that brings the pod into, or takes it out of, the statuses
\* shown to industry (PodRows!ReviewEffect).
VettingEffect(p, approve) ==
  /\ vetted' = IF approve THEN vetted \cup {p} ELSE vetted \ {p}
  /\ UNCHANGED <<offer, comments, funded>>
=============================================================================
