---------------------------- MODULE OfferContract ----------------------------
(***************************************************************************)
(* Funding offers with every handler in one step: what the handlers keep   *)
(* when one request is served at a time.                                   *)
(***************************************************************************)
EXTENDS OfferRows

\* POST /industry/offers, and the legacy POST /industry/support
MakeOffer(u, p) ==
  /\ OfferGuard(u, p) \/ p \in LegacyPods
  /\ \E o \in OfferIds : OfferEffect(u, p, o)

\* PATCH /industry/offers/{id}/withdraw, by the partner who made it
Withdraw(o) == OpenOffer(o) /\ StatusEffect(o, "withdrawn", offer[o].status)

\* PATCH /student/funding-offers/{id}/respond
Respond(o, decision) ==
  OpenOffer(o) /\ StatusEffect(o, AnswerStatus(decision), offer[o].status)

\* PATCH /industry/support/{id}/status, to any status
LegacyUpdate(o, status) ==
  /\ offer[o] # NoOffer /\ offer[o].pod \in LegacyPods
  /\ StatusEffect(o, status, offer[o].status)

\* POST /industry/funded-projects/{id}/comments
Comment(u, p) == FunderAccess(u, p) /\ CommentEffect(u, p)

\* POST /faculty/projects/{id}/reviews
Vet(p, approve) == VettingEffect(p, approve)

Next ==
  \/ \E u \in Partners, p \in Pods : MakeOffer(u, p) \/ Comment(u, p)
  \/ \E o \in OfferIds : Withdraw(o)
  \/ \E o \in OfferIds, d \in {"accepted", "declined"} : Respond(o, d)
  \/ \E o \in OfferIds, s \in RequestStatus : LegacyUpdate(o, s)
  \/ \E p \in Pods, approve \in BOOLEAN : Vet(p, approve)

Spec == RowsInit /\ [][Next]_rows

-----------------------------------------------------------------------------
\* An offer that was answered or withdrawn keeps its status for good
\* (OFFER_NOT_PENDING, OFFER_ALREADY_RESPONDED): a partner cannot take back an
\* accepted offer, a lead cannot accept a withdrawn one.
AnswersAreFinal ==
  [][\A o \in OfferIds :
       offer[o].status \in {"approved", "rejected", "withdrawn"}
         /\ offer[o].pod \notin LegacyPods => offer'[o] = offer[o]]_rows

\* A partner whose offer on a pod stands accepted gets the funder's view of the
\* pod ("Check if this industry user has an APPROVED offer on the given pod").
FundersHaveAccess ==
  \A u \in Partners, p \in Pods \ LegacyPods :
    Having(u, p, "approved") # {} => FunderAccess(u, p)
=============================================================================
