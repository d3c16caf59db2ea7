---------------------------- MODULE OfferWorkflow ----------------------------
(***************************************************************************)
(* The offer handlers as they run: each loads and checks, and commits what *)
(* it decided later, possibly after other requests have committed.         *)
(***************************************************************************)
EXTENDS OfferRows

CONSTANT Workers   \* sessions that may be in flight at the same time

\* The connection pool of the database engine is bounded.
ASSUME WorkersAssumption == IsFiniteSet(Workers)

VARIABLE request

vars == <<rows, request>>

Idle == [op |-> "idle"]

Request ==
  [op : {"offer", "comment"}, partner : Partners, pod : Pods]
  \cup [op : {"status"}, offer : OfferIds, status : RequestStatus, seen : RequestStatus]
  \cup [op : {"vet"}, pod : Pods, approve : BOOLEAN]

TypeOK == RowsTypeOK /\ request \in [Workers -> Request \cup {Idle}]

Init == RowsInit /\ request = [w \in Workers |-> Idle]

-----------------------------------------------------------------------------
(* Load and check *)

Load(w, r) ==
  /\ request[w] = Idle
  /\ request' = [request EXCEPT ![w] = r]
  /\ UNCHANGED rows

BeginOffer(w, u, p) ==
  OfferGuard(u, p) /\ Load(w, [op |-> "offer", partner |-> u, pod |-> p])

\* Legacy: nothing but the existence of the pod is checked.
BeginIntent(w, u, p) ==
  p \in LegacyPods /\ Load(w, [op |-> "offer", partner |-> u, pod |-> p])

LoadStatus(w, o, status) ==
  Load(w, [op |-> "status", offer |-> o, status |-> status, seen |-> offer[o].status])

\* Mutant of BeginWithdraw: the status is not looked at.
BeginWithdraw_Any(w, o) == offer[o] # NoOffer /\ LoadStatus(w, o, "withdrawn")

BeginWithdraw(w, o) == OpenOffer(o) /\ LoadStatus(w, o, "withdrawn")

BeginRespond(w, o, decision) == OpenOffer(o) /\ LoadStatus(w, o, AnswerStatus(decision))

BeginLegacyUpdate(w, o, status) ==
  /\ offer[o] # NoOffer /\ offer[o].pod \in LegacyPods
  /\ LoadStatus(w, o, status)

BeginComment(w, u, p) ==
  FunderAccess(u, p) /\ Load(w, [op |-> "comment", partner |-> u, pod |-> p])

BeginVet(w, p, approve) == Load(w, [op |-> "vet", pod |-> p, approve |-> approve])

-----------------------------------------------------------------------------
(* Write and commit, or roll back *)

Done(w) == request' = [request EXCEPT ![w] = Idle]

FinishOffer(w) ==
  /\ request[w].op = "offer"
  /\ \E o \in OfferIds : OfferEffect(request[w].partner, request[w].pod, o)
  /\ Done(w)

FinishStatus(w) ==
  /\ request[w].op = "status"
  /\ StatusEffect(request[w].offer, request[w].status, request[w].seen)
  /\ Done(w)

FinishComment(w) ==
  /\ request[w].op = "comment"
  /\ CommentEffect(request[w].partner, request[w].pod)
  /\ Done(w)

FinishVet(w) ==
  /\ request[w].op = "vet"
  /\ VettingEffect(request[w].pod, request[w].approve)
  /\ Done(w)

Rollback(w) == request[w] # Idle /\ Done(w) /\ UNCHANGED rows

-----------------------------------------------------------------------------
Begin(w) ==
  \/ \E u \in Partners, p \in Pods :
       BeginOffer(w, u, p) \/ BeginIntent(w, u, p) \/ BeginComment(w, u, p)
  \/ \E o \in OfferIds : BeginWithdraw(w, o)
  \/ \E o \in OfferIds, d \in {"accepted", "declined"} : BeginRespond(w, o, d)
  \/ \E o \in OfferIds, s \in RequestStatus : BeginLegacyUpdate(w, o, s)
  \/ \E p \in Pods, approve \in BOOLEAN : BeginVet(w, p, approve)

Finish(w) == FinishOffer(w) \/ FinishStatus(w) \/ FinishComment(w) \/ FinishVet(w)

Next == \E w \in Workers : Begin(w) \/ Finish(w) \/ Rollback(w)

Spec == Init /\ [][Next]_vars

-----------------------------------------------------------------------------
(* What holds however requests overlap *)

\* Whoever commented on a pod as its funder had an offer accepted on it, even
\* if a late withdrawal or a legacy update has changed the offer since.
CommentsFromFunders == comments \subseteq funded

\* Overlapping requests can leave a partner with several pending offers on a
\* pod, but never with more than there are sessions: a request that commits
\* late was checked before the first of them was there.
PendingWithinSessions ==
  \A u \in Partners, p \in Pods \ LegacyPods :
    Cardinality(Having(u, p, "pending")) <= Cardinality(Workers)

-----------------------------------------------------------------------------
(* What the handlers promise and keep as long as requests do not overlap *)

Contract == INSTANCE OfferContract

\* With a single session every behaviour is one of OfferContract.
ImplementsOfferContract == Contract!Spec

\* The promises by name.
AnswersAreFinal == Contract!AnswersAreFinal
FundersHaveAccess == Contract!FundersHaveAccess
=============================================================================
