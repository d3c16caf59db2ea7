------------------------- MODULE OfferWorkflow_proofs -------------------------
(***************************************************************************)
(* Proofs about the offer handlers with any number of overlapping          *)
(* requests, partners, pods and offers.                                    *)
(***************************************************************************)
EXTENDS OfferWorkflow, FiniteSetTheorems, TLAPS

-----------------------------------------------------------------------------
(* Types *)

\* What a request in flight carries, by handler.
LEMMA RequestFields ==
  ASSUME NEW r \in Request \cup {Idle}
  PROVE  /\ r.op \in {"offer", "comment"} => r.partner \in Partners /\ r.pod \in Pods
         /\ r.op = "status" => /\ r.offer \in OfferIds /\ r.status \in RequestStatus
                               /\ r.seen \in RequestStatus
         /\ r.op = "vet" => r.pod \in Pods /\ r.approve \in BOOLEAN
  BY DEF Request, Idle

LEMMA OfferFields ==
  ASSUME NEW x \in Offer \cup {NoOffer}
  PROVE  x # NoOffer => /\ x \in Offer /\ x.status \in RequestStatus
                        /\ x.partner \in Partners /\ x.pod \in Pods
  BY DEF Offer

\* The offer whose status a request is about to write is there, and stays.
\* Without this a status could be written to an unused id, which is no offer.
OffersInFlight ==
  \A w \in Workers : request[w].op = "status" => offer[request[w].offer] # NoOffer

\* The load step: the request loaded is typed, a status request has found its
\* offer, a comment request has found an accepted offer.
Loaded(r) ==
  /\ r \in Request
  /\ r.op = "status" => offer[r.offer] # NoOffer
  /\ r.op = "comment" =>
       \E o \in OfferIds :
         offer[o] = [partner |-> r.partner, pod |-> r.pod, status |-> "approved"]

LEMMA StatusLoaded ==
  ASSUME TypeOK, NEW w \in Workers, NEW o \in OfferIds, NEW s \in RequestStatus,
         offer[o] # NoOffer, LoadStatus(w, o, s)
  PROVE  \E r : Loaded(r) /\ request' = [request EXCEPT ![w] = r] /\ UNCHANGED rows
<1> DEFINE r == [op |-> "status", offer |-> o, status |-> s, seen |-> offer[o].status]
<1>1. offer[o].status \in RequestStatus
  BY OfferFields DEF TypeOK, RowsTypeOK
<1>2. Loaded(r)
  BY <1>1 DEF Loaded, Request
<1>. QED
  BY <1>2 DEF LoadStatus, Load

LEMMA AccessLoaded ==
  ASSUME NEW u \in Partners, NEW p \in Pods, FunderAccess(u, p)
  PROVE  \E o \in OfferIds : offer[o] = [partner |-> u, pod |-> p, status |-> "approved"]
<1>1. Cardinality({}) # 1
  <2>1. Cardinality({}) = 0
    BY FS_EmptySet
  <2>. QED
    BY <2>1
<1>2. Having(u, p, "approved") # {}
  BY <1>1 DEF FunderAccess
<1>. QED
  BY <1>2 DEF Having

LEMMA BeginLoads ==
  ASSUME TypeOK, NEW w \in Workers, Begin(w)
  PROVE  \E r : Loaded(r) /\ request' = [request EXCEPT ![w] = r] /\ UNCHANGED rows
<1>1. ASSUME NEW u \in Partners, NEW p \in Pods, BeginOffer(w, u, p) \/ BeginIntent(w, u, p)
      PROVE  \E r : Loaded(r) /\ request' = [request EXCEPT ![w] = r] /\ UNCHANGED rows
  <2> DEFINE r == [op |-> "offer", partner |-> u, pod |-> p]
  <2>1. Loaded(r)
    BY DEF Loaded, Request
  <2>. QED
    BY <1>1, <2>1 DEF BeginOffer, BeginIntent, Load
<1>2. ASSUME NEW u \in Partners, NEW p \in Pods, BeginComment(w, u, p)
      PROVE  \E r : Loaded(r) /\ request' = [request EXCEPT ![w] = r] /\ UNCHANGED rows
  <2> DEFINE r == [op |-> "comment", partner |-> u, pod |-> p]
  <2>1. \E o \in OfferIds : offer[o] = [partner |-> u, pod |-> p, status |-> "approved"]
    BY <1>2, AccessLoaded DEF BeginComment
  <2>2. Loaded(r)
    BY <2>1 DEF Loaded, Request
  <2>. QED
    BY <1>2, <2>2 DEF BeginComment, Load
<1>3. ASSUME NEW o \in OfferIds, BeginWithdraw(w, o)
      PROVE  \E r : Loaded(r) /\ request' = [request EXCEPT ![w] = r] /\ UNCHANGED rows
  BY <1>3, StatusLoaded DEF BeginWithdraw, OpenOffer, NoOffer, RequestStatus
<1>4. ASSUME NEW o \in OfferIds, NEW d \in {"accepted", "declined"}, BeginRespond(w, o, d)
      PROVE  \E r : Loaded(r) /\ request' = [request EXCEPT ![w] = r] /\ UNCHANGED rows
  <2>1. AnswerStatus(d) \in RequestStatus
    BY DEF AnswerStatus, RequestStatus
  <2>. QED
    BY <1>4, <2>1, StatusLoaded DEF BeginRespond, OpenOffer, NoOffer
<1>5. ASSUME NEW o \in OfferIds, NEW s \in RequestStatus, BeginLegacyUpdate(w, o, s)
      PROVE  \E r : Loaded(r) /\ request' = [request EXCEPT ![w] = r] /\ UNCHANGED rows
  BY <1>5, StatusLoaded DEF BeginLegacyUpdate
<1>6. ASSUME NEW p \in Pods, NEW approve \in BOOLEAN, BeginVet(w, p, approve)
      PROVE  \E r : Loaded(r) /\ request' = [request EXCEPT ![w] = r] /\ UNCHANGED rows
  <2> DEFINE r == [op |-> "vet", pod |-> p, approve |-> approve]
  <2>1. Loaded(r)
    BY DEF Loaded, Request
  <2>. QED
    BY <1>6, <2>1 DEF BeginVet, Load
<1>. QED
  BY <1>1, <1>2, <1>3, <1>4, <1>5, <1>6 DEF Begin

\* The commit of a request that has loaded r.
CommitOf(r) ==
  \/ r.op = "offer" /\ \E o \in OfferIds : OfferEffect(r.partner, r.pod, o)
  \/ r.op = "status" /\ StatusEffect(r.offer, r.status, r.seen)
  \/ r.op = "comment" /\ CommentEffect(r.partner, r.pod)
  \/ r.op = "vet" /\ VettingEffect(r.pod, r.approve)

LEMMA FinishCommits ==
  ASSUME NEW w \in Workers, Finish(w)
  PROVE  CommitOf(request[w]) /\ Done(w)
  BY DEF Finish, FinishOffer, FinishStatus, FinishComment, FinishVet, CommitOf

\* A commit keeps the rows typed and removes no offer.
LEMMA CommitTyped ==
  ASSUME RowsTypeOK, NEW r \in Request \cup {Idle}, CommitOf(r),
         r.op = "status" => offer[r.offer] # NoOffer
  PROVE  RowsTypeOK' /\ \A o \in OfferIds : offer[o] # NoOffer => offer'[o] # NoOffer
<1>1. CASE r.op = "offer" /\ \E o \in OfferIds : OfferEffect(r.partner, r.pod, o)
  <2>1. PICK o \in OfferIds : OfferEffect(r.partner, r.pod, o)
    BY <1>1
  <2>2. [partner |-> r.partner, pod |-> r.pod, status |-> "pending"] \in Offer
    BY <1>1, RequestFields DEF Offer, RequestStatus
  <2>. QED
    BY <2>1, <2>2 DEF OfferEffect, RowsTypeOK, NoOffer, Offer
<1>2. CASE r.op = "status" /\ StatusEffect(r.offer, r.status, r.seen)
  <2>1. r.offer \in OfferIds /\ r.status \in RequestStatus
    BY <1>2, RequestFields
  <2>2. offer[r.offer] \in Offer
    BY <1>2, <2>1, OfferFields DEF RowsTypeOK
  <2>3. [offer[r.offer] EXCEPT !.status = r.status] \in Offer
    BY <2>1, <2>2 DEF Offer
  <2>4. offer' = offer \/ offer' = [offer EXCEPT ![r.offer] = [offer[r.offer] EXCEPT !.status = r.status]]
    BY <1>2 DEF StatusEffect
  <2>5. \A x \in Offer : x # NoOffer
    BY DEF Offer, NoOffer, RequestStatus
  <2>6. /\ offer' \in [OfferIds -> Offer \cup {NoOffer}]
        /\ \A o \in OfferIds : offer[o] # NoOffer => offer'[o] # NoOffer
    BY <2>1, <2>3, <2>4, <2>5 DEF RowsTypeOK
  <2>7. <<offer[r.offer].partner, offer[r.offer].pod>> \in Partners \X Pods
    BY <2>2 DEF Offer
  <2>. QED
    BY <1>2, <2>6, <2>7 DEF StatusEffect, RowsTypeOK
<1>3. CASE r.op = "comment" /\ CommentEffect(r.partner, r.pod)
  BY <1>3, RequestFields DEF CommentEffect, RowsTypeOK
<1>4. CASE r.op = "vet" /\ VettingEffect(r.pod, r.approve)
  BY <1>4, RequestFields DEF VettingEffect, RowsTypeOK
<1>. QED
  BY <1>1, <1>2, <1>3, <1>4 DEF CommitOf

-----------------------------------------------------------------------------
(* Comments *)

\* CommentsFromFunders is not inductive: a comment in flight has passed the
\* access check, and an accepted offer lets the next one pass.
IInv ==
  /\ TypeOK /\ OffersInFlight
  /\ \A o \in OfferIds :
       offer[o].status = "approved" => <<offer[o].partner, offer[o].pod>> \in funded
  /\ \A w \in Workers :
       request[w].op = "comment" => <<request[w].partner, request[w].pod>> \in funded
  /\ comments \subseteq funded

LEMMA IInvInit == Init => IInv
<1>. SUFFICES ASSUME Init PROVE IInv
  OBVIOUS
<1>1. RowsTypeOK
  BY DEF Init, RowsInit, RowsTypeOK
<1>2. \A w \in Workers : request[w] = Idle
  BY DEF Init
<1>3. TypeOK
  BY <1>1 DEF Init, TypeOK
<1>. QED
  BY <1>2, <1>3 DEF Init, RowsInit, Idle, NoOffer, IInv, OffersInFlight

\* A commit takes no funder away and adds what it approves or comments.
LEMMA CommitFunded ==
  ASSUME IInv, NEW r \in Request \cup {Idle}, CommitOf(r),
         r.op = "status" => offer[r.offer] # NoOffer,
         r.op = "comment" => <<r.partner, r.pod>> \in funded
  PROVE  /\ funded \subseteq funded' /\ comments' \subseteq funded'
         /\ \A o \in OfferIds :
              offer'[o].status = "approved" => <<offer'[o].partner, offer'[o].pod>> \in funded'
<1> USE DEF IInv, TypeOK, RowsTypeOK
<1>1. CASE r.op = "offer" /\ \E o \in OfferIds : OfferEffect(r.partner, r.pod, o)
  BY <1>1 DEF OfferEffect
<1>2. CASE r.op = "status" /\ StatusEffect(r.offer, r.status, r.seen)
  <2>1. r.offer \in OfferIds /\ offer[r.offer] \in Offer
    BY <1>2, RequestFields, OfferFields
  <2>2. /\ funded \subseteq funded' /\ comments' = comments
        /\ offer'[r.offer].status = "approved" =>
             <<offer[r.offer].partner, offer[r.offer].pod>> \in funded'
    BY <1>2 DEF StatusEffect
  <2>3. \/ offer' = offer
        \/ offer' = [offer EXCEPT ![r.offer] = [offer[r.offer] EXCEPT !.status = r.status]]
    BY <1>2 DEF StatusEffect
  <2>4. \A o \in OfferIds \ {r.offer} : offer'[o] = offer[o]
    BY <2>3
  <2>5. /\ offer'[r.offer].partner = offer[r.offer].partner
        /\ offer'[r.offer].pod = offer[r.offer].pod
    BY <2>1, <2>3 DEF Offer
  <2>. QED
    BY <2>2, <2>4, <2>5
<1>3. CASE r.op = "comment" /\ CommentEffect(r.partner, r.pod)
  BY <1>3 DEF CommentEffect
<1>4. CASE r.op = "vet" /\ VettingEffect(r.pod, r.approve)
  BY <1>4 DEF VettingEffect
<1>. QED
  BY <1>1, <1>2, <1>3, <1>4 DEF CommitOf

LEMMA IInvStep == IInv /\ [Next]_vars => IInv'
<1>. SUFFICES ASSUME IInv, [Next]_vars PROVE IInv'
  OBVIOUS
<1>1. ASSUME NEW w \in Workers, Begin(w) PROVE IInv'
  <2>1. PICK r : Loaded(r) /\ request' = [request EXCEPT ![w] = r] /\ UNCHANGED rows
    BY <1>1, BeginLoads DEF IInv
  <2>2. r.op = "comment" => <<r.partner, r.pod>> \in funded
    BY <2>1 DEF Loaded, IInv
  <2>3. TypeOK'
    BY <2>1 DEF IInv, TypeOK, RowsTypeOK, Loaded, rows
  <2>4. OffersInFlight'
    BY <2>1 DEF IInv, TypeOK, OffersInFlight, Loaded, rows
  <2>. QED
    BY <2>1, <2>2, <2>3, <2>4 DEF IInv, TypeOK, rows
<1>2. ASSUME NEW w \in Workers, Finish(w) PROVE IInv'
  <2>1. CommitOf(request[w]) /\ Done(w)
    BY <1>2, FinishCommits
  <2>2. /\ request[w] \in Request \cup {Idle} /\ RowsTypeOK
        /\ request[w].op = "status" => offer[request[w].offer] # NoOffer
        /\ request[w].op = "comment" => <<request[w].partner, request[w].pod>> \in funded
    BY DEF IInv, TypeOK, OffersInFlight
  <2>3. RowsTypeOK' /\ \A o \in OfferIds : offer[o] # NoOffer => offer'[o] # NoOffer
    BY <2>1, <2>2, CommitTyped
  <2>4. /\ funded \subseteq funded' /\ comments' \subseteq funded'
        /\ \A o \in OfferIds :
             offer'[o].status = "approved" => <<offer'[o].partner, offer'[o].pod>> \in funded'
    BY <2>1, <2>2, CommitFunded
  <2>5. /\ request' \in [Workers -> Request \cup {Idle}] /\ request'[w] = Idle
        /\ \A v \in Workers \ {w} : request'[v] = request[v]
    BY <2>1 DEF Done, IInv, TypeOK
  <2>6. OffersInFlight'
    <3>. SUFFICES ASSUME NEW v \in Workers, request'[v].op = "status"
                  PROVE  offer'[request'[v].offer] # NoOffer
      BY DEF OffersInFlight
    <3>1. request'[v] = request[v]
      BY <2>5 DEF Idle
    <3>2. request[v] \in Request \cup {Idle} /\ request[v].op = "status"
      BY <3>1 DEF IInv, TypeOK
    <3>3. request[v].offer \in OfferIds /\ offer[request[v].offer] # NoOffer
      BY <3>2, RequestFields DEF IInv, OffersInFlight
    <3>. QED
      BY <2>3, <3>1, <3>3
  <2>7. \A v \in Workers :
          request'[v].op = "comment" => <<request'[v].partner, request'[v].pod>> \in funded'
    BY <2>4, <2>5 DEF IInv, Idle
  <2>. QED
    BY <2>3, <2>4, <2>5, <2>6, <2>7 DEF IInv, TypeOK
<1>3. ASSUME NEW w \in Workers, Rollback(w) PROVE IInv'
  BY <1>3 DEF Rollback, Done, Idle, IInv, TypeOK, RowsTypeOK, OffersInFlight, rows
<1>4. CASE UNCHANGED vars
  BY <1>4 DEF vars, rows, IInv, TypeOK, RowsTypeOK, OffersInFlight
<1>. QED
  BY <1>1, <1>2, <1>3, <1>4 DEF Next

\* However requests overlap, offers, comments and requests in flight hold
\* values of their types.
THEOREM TypeCorrect == Spec => []TypeOK
<1>1. IInv => TypeOK
  BY DEF IInv
<1>. QED
  BY <1>1, IInvInit, IInvStep, PTL DEF Spec

\* Only a partner who had an offer accepted on a pod ever commented on it,
\* whatever withdrawals, answers and legacy updates overlap with the comment.
THEOREM OnlyFundersComment == Spec => []CommentsFromFunders
<1>1. IInv => CommentsFromFunders
  BY DEF IInv, CommentsFromFunders
<1>. QED
  BY <1>1, IInvInit, IInvStep, PTL DEF Spec

-----------------------------------------------------------------------------
(* Pending offers *)

\* The sessions about to insert an offer of u on p.
Offering(u, p) ==
  {w \in Workers : request[w].op = "offer" /\ request[w].partner = u /\ request[w].pod = p}

\* PendingWithinSessions is not inductive: every session that has passed the
\* duplicate check will add its offer, so it counts already.  And only a legacy
\* update reopens an offer, so none is reopened on the other pods.
PendingInv ==
  /\ IInv
  /\ \A w \in Workers :
       request[w].op = "status" /\ request[w].status = "pending"
         => offer[request[w].offer].pod \in LegacyPods
  /\ \A u \in Partners, p \in Pods \ LegacyPods :
       Cardinality(Having(u, p, "pending")) + Cardinality(Offering(u, p))
         <= Cardinality(Workers)

LEMMA OneMore ==
  ASSUME NEW S, NEW x, IsFiniteSet(S)
  PROVE  Cardinality(S \cup {x}) <= Cardinality(S) + 1 /\ IsFiniteSet(S \cup {x})
<1>1. /\ IsFiniteSet(S \cup {x}) /\ Cardinality(S) \in Nat
      /\ Cardinality(S \cup {x}) = IF x \in S THEN Cardinality(S) ELSE Cardinality(S) + 1
  BY FS_AddElement, FS_CardinalityType
<1>. QED
  BY <1>1

LEMMA FiniteSides ==
  ASSUME NEW u, NEW p
  PROVE  /\ IsFiniteSet(Having(u, p, "pending")) /\ IsFiniteSet(Offering(u, p))
         /\ Cardinality(Having(u, p, "pending")) \in Nat
         /\ Cardinality(Offering(u, p)) \in Nat /\ Cardinality(Workers) \in Nat
         /\ Cardinality(Offering(u, p)) <= Cardinality(Workers)
<1>1. Having(u, p, "pending") \subseteq OfferIds /\ Offering(u, p) \subseteq Workers
  BY DEF Having, Offering
<1>. QED
  BY <1>1, OfferIdsAssumption, WorkersAssumption, FS_Subset, FS_CardinalityType

\* The bound survives a step after which there are no more pending offers and no
\* more sessions about to make one.
LEMMA BoundKept ==
  ASSUME NEW u, NEW p,
         Cardinality(Having(u, p, "pending")) + Cardinality(Offering(u, p))
           <= Cardinality(Workers),
         Having(u, p, "pending")' \subseteq Having(u, p, "pending"),
         Offering(u, p)' \subseteq Offering(u, p)
  PROVE  Cardinality(Having(u, p, "pending")') + Cardinality(Offering(u, p)')
           <= Cardinality(Workers)
<1>1. /\ Cardinality(Having(u, p, "pending")') <= Cardinality(Having(u, p, "pending"))
      /\ Cardinality(Offering(u, p)') <= Cardinality(Offering(u, p))
      /\ IsFiniteSet(Having(u, p, "pending")') /\ IsFiniteSet(Offering(u, p)')
  BY FiniteSides, FS_Subset
<1>2. Cardinality(Having(u, p, "pending")') \in Nat /\ Cardinality(Offering(u, p)') \in Nat
  BY <1>1, FS_CardinalityType
<1>. QED
  BY <1>1, <1>2, FiniteSides

LEMMA PendingInit == Init => PendingInv
<1>. SUFFICES ASSUME Init PROVE PendingInv
  OBVIOUS
<1>1. \A u \in Partners, p \in Pods : Having(u, p, "pending") = {}
  BY DEF Init, RowsInit, Having, NoOffer
<1>2. \A w \in Workers : request[w] = Idle
  BY DEF Init
<1>3. \A u \in Partners, p \in Pods : Offering(u, p) = {}
  BY <1>2 DEF Offering, Idle
<1>. QED
  BY <1>1, <1>2, <1>3, IInvInit, FiniteSides, FS_EmptySet DEF PendingInv, Idle

\* What the load step has made sure of for a request that reopens an offer, and
\* for one that makes one.
Checked(r) ==
  /\ r.op = "status" /\ r.status = "pending" => offer[r.offer].pod \in LegacyPods
  /\ r.op = "offer" => OfferGuard(r.partner, r.pod) \/ r.pod \in LegacyPods

LEMMA BeginChecked ==
  ASSUME TypeOK, NEW w \in Workers, Begin(w)
  PROVE  \E r : Checked(r) /\ request' = [request EXCEPT ![w] = r] /\ request[w] = Idle
<1> DEFINE Goal == \E r : Checked(r) /\ request' = [request EXCEPT ![w] = r] /\ request[w] = Idle
<1>1. ASSUME NEW u \in Partners, NEW p \in Pods, BeginOffer(w, u, p) \/ BeginIntent(w, u, p)
      PROVE  Goal
  <2> DEFINE r == [op |-> "offer", partner |-> u, pod |-> p]
  <2>1. request' = [request EXCEPT ![w] = r] /\ request[w] = Idle
    BY <1>1 DEF BeginOffer, BeginIntent, Load
  <2>2. Checked(r)
    BY <1>1 DEF BeginOffer, BeginIntent, Checked
  <2>. QED
    BY <2>1, <2>2
<1>2. ASSUME NEW u \in Partners, NEW p \in Pods, BeginComment(w, u, p) PROVE Goal
  BY <1>2 DEF BeginComment, Load, Checked
<1>3. ASSUME NEW o \in OfferIds, NEW s \in RequestStatus,
             s # "pending" \/ offer[o].pod \in LegacyPods, LoadStatus(w, o, s)
      PROVE  Goal
  BY <1>3 DEF LoadStatus, Load, Checked
<1>4. ASSUME NEW o \in OfferIds, BeginWithdraw(w, o) PROVE Goal
  BY <1>3, <1>4 DEF BeginWithdraw, RequestStatus
<1>5. ASSUME NEW o \in OfferIds, NEW d \in {"accepted", "declined"}, BeginRespond(w, o, d)
      PROVE  Goal
  BY <1>3, <1>5 DEF BeginRespond, AnswerStatus, RequestStatus
<1>6. ASSUME NEW o \in OfferIds, NEW s \in RequestStatus, BeginLegacyUpdate(w, o, s)
      PROVE  Goal
  BY <1>3, <1>6 DEF BeginLegacyUpdate
<1>7. ASSUME NEW p \in Pods, NEW approve \in BOOLEAN, BeginVet(w, p, approve) PROVE Goal
  BY <1>7 DEF BeginVet, Load, Checked
<1>. QED
  BY <1>1, <1>2, <1>4, <1>5, <1>6, <1>7 DEF Begin

LEMMA BeginKeepsBound ==
  ASSUME PendingInv, NEW w \in Workers, Begin(w), IInv'
  PROVE  PendingInv'
<1>0. TypeOK
  BY DEF PendingInv, IInv
<1>1. PICK r : Checked(r) /\ request' = [request EXCEPT ![w] = r] /\ request[w] = Idle
  BY <1>0, BeginChecked
<1>2. UNCHANGED rows
  BY BeginLoads DEF PendingInv, IInv
<1>3. /\ DOMAIN request = Workers /\ request'[w] = r
      /\ \A v \in Workers \ {w} : request'[v] = request[v]
  BY <1>1 DEF PendingInv, IInv, TypeOK
<1>4. \A v \in Workers :
        request'[v].op = "status" /\ request'[v].status = "pending"
          => offer'[request'[v].offer].pod \in LegacyPods
  BY <1>1, <1>2, <1>3 DEF PendingInv, Checked, rows
<1>5. ASSUME NEW u \in Partners, NEW p \in Pods \ LegacyPods
      PROVE  Cardinality(Having(u, p, "pending")') + Cardinality(Offering(u, p)')
               <= Cardinality(Workers)
  <2>1. Having(u, p, "pending")' = Having(u, p, "pending")
    BY <1>2 DEF Having, rows
  <2>2. CASE r.op = "offer" /\ r.partner = u /\ r.pod = p
    <3>1. Having(u, p, "pending") = {}
      BY <1>1, <2>2 DEF OfferGuard, Checked
    <3>2. Offering(u, p)' \subseteq Workers
      BY DEF Offering
    <3>3. Cardinality(Offering(u, p)') \in Nat
          /\ Cardinality(Offering(u, p)') <= Cardinality(Workers)
      BY <3>2, WorkersAssumption, FS_Subset, FS_CardinalityType
    <3>. QED
      BY <2>1, <3>1, <3>3, FS_EmptySet, FiniteSides
  <2>3. CASE ~(r.op = "offer" /\ r.partner = u /\ r.pod = p)
    <3>1. Offering(u, p)' \subseteq Offering(u, p)
      BY <1>3, <2>3 DEF Offering
    <3>. QED
      BY <2>1, <3>1, BoundKept DEF PendingInv
  <2>. QED
    BY <2>2, <2>3
<1>. QED
  BY <1>4, <1>5 DEF PendingInv

\* A status update that reopens nothing leaves no more offers pending.
LEMMA StatusKeepsPending ==
  ASSUME TypeOK, NEW r \in Request, r.op = "status", offer[r.offer] # NoOffer,
         StatusEffect(r.offer, r.status, r.seen),
         NEW u \in Partners, NEW p \in Pods \ LegacyPods,
         r.status = "pending" => offer[r.offer].pod \in LegacyPods
  PROVE  Having(u, p, "pending")' \subseteq Having(u, p, "pending")
<1>1. r.offer \in OfferIds /\ offer[r.offer] \in Offer
  BY RequestFields, OfferFields DEF TypeOK, RowsTypeOK
<1>2. \/ offer' = offer
      \/ offer' = [offer EXCEPT ![r.offer] = [offer[r.offer] EXCEPT !.status = r.status]]
  BY DEF StatusEffect
<1>3. ASSUME NEW o \in OfferIds,
             offer'[o] = [partner |-> u, pod |-> p, status |-> "pending"]
      PROVE  offer[o] = [partner |-> u, pod |-> p, status |-> "pending"]
  <2>1. CASE o # r.offer \/ offer' = offer
    BY <1>2, <1>3, <2>1 DEF TypeOK, RowsTypeOK
  <2>2. CASE o = r.offer /\ offer' # offer
    <3>1. offer'[o] = [offer[o] EXCEPT !.status = r.status]
      BY <1>1, <1>2, <2>2 DEF TypeOK, RowsTypeOK
    <3>2. r.status = "pending" /\ offer[o].pod = p
      BY <1>1, <1>3, <2>2, <3>1 DEF Offer
    <3>. QED
      BY <2>2, <3>2
  <2>. QED
    BY <2>1, <2>2
<1>. QED
  BY <1>3 DEF Having

\* No status update changes the pod of an offer.
LEMMA CommitKeepsPods ==
  ASSUME TypeOK, NEW r \in Request \cup {Idle}, CommitOf(r),
         r.op = "status" => offer[r.offer] # NoOffer,
         NEW o \in OfferIds, offer[o] # NoOffer
  PROVE  offer'[o].pod = offer[o].pod
<1>1. CASE r.op = "status" /\ StatusEffect(r.offer, r.status, r.seen)
  <2>1. r.offer \in OfferIds /\ offer[r.offer] \in Offer
    BY <1>1, RequestFields, OfferFields DEF TypeOK, RowsTypeOK
  <2>2. \/ offer' = offer
        \/ offer' = [offer EXCEPT ![r.offer] = [offer[r.offer] EXCEPT !.status = r.status]]
    BY <1>1 DEF StatusEffect
  <2>. QED
    BY <2>1, <2>2 DEF TypeOK, RowsTypeOK, Offer
<1>2. CASE r.op = "offer" /\ \E x \in OfferIds : OfferEffect(r.partner, r.pod, x)
  BY <1>2 DEF OfferEffect, TypeOK, RowsTypeOK
<1>. QED
  BY <1>1, <1>2 DEF CommitOf, CommentEffect, VettingEffect

LEMMA FinishKeepsBound ==
  ASSUME PendingInv, NEW w \in Workers, Finish(w), IInv'
  PROVE  PendingInv'
<1> DEFINE r == request[w]
<1>1. CommitOf(r) /\ Done(w)
  BY FinishCommits
<1>2. /\ r \in Request \cup {Idle} /\ TypeOK
      /\ r.op = "status" => offer[r.offer] # NoOffer
      /\ r.op = "status" /\ r.status = "pending" => offer[r.offer].pod \in LegacyPods
  BY DEF PendingInv, IInv, TypeOK, OffersInFlight
<1>3. request'[w] = Idle /\ \A v \in Workers \ {w} : request'[v] = request[v]
  BY <1>1 DEF Done, PendingInv, IInv, TypeOK
<1>4. ASSUME NEW v \in Workers, request'[v].op = "status", request'[v].status = "pending"
      PROVE  offer'[request'[v].offer].pod \in LegacyPods
  <2>1. request'[v] = request[v]
    BY <1>3, <1>4 DEF Idle
  <2>2. request[v].offer \in OfferIds /\ offer[request[v].offer] # NoOffer
    BY <1>4, <2>1, RequestFields DEF PendingInv, IInv, TypeOK, OffersInFlight
  <2>3. offer'[request[v].offer].pod = offer[request[v].offer].pod
    BY <1>1, <1>2, <2>2, CommitKeepsPods
  <2>. QED
    BY <1>4, <2>1, <2>3 DEF PendingInv
<1>5. ASSUME NEW u \in Partners, NEW p \in Pods \ LegacyPods
      PROVE  Cardinality(Having(u, p, "pending")') + Cardinality(Offering(u, p)')
               <= Cardinality(Workers)
  <2>0. Cardinality(Having(u, p, "pending")) + Cardinality(Offering(u, p))
          <= Cardinality(Workers)
    BY DEF PendingInv
  <2>1. Offering(u, p)' \subseteq Offering(u, p)
    BY <1>3 DEF Offering, Idle
  <2>2. CASE r.op = "offer" /\ \E o \in OfferIds : OfferEffect(r.partner, r.pod, o)
    <3>1. PICK o \in OfferIds : OfferEffect(r.partner, r.pod, o)
      BY <2>2
    <3>2. offer' = [offer EXCEPT ![o] = [partner |-> r.partner, pod |-> r.pod, status |-> "pending"]]
      BY <3>1 DEF OfferEffect
    <3>3. CASE r.partner = u /\ r.pod = p
      <4>1. Having(u, p, "pending")' \subseteq Having(u, p, "pending") \cup {o}
        BY <3>2 DEF Having, PendingInv, IInv, TypeOK, RowsTypeOK
      <4>2. Cardinality(Having(u, p, "pending") \cup {o})
              <= Cardinality(Having(u, p, "pending")) + 1
            /\ IsFiniteSet(Having(u, p, "pending") \cup {o})
        BY FiniteSides, OneMore
      <4>3. Cardinality(Having(u, p, "pending")')
              <= Cardinality(Having(u, p, "pending") \cup {o})
            /\ IsFiniteSet(Having(u, p, "pending")')
        BY <4>1, <4>2, FS_Subset
      <4>4. Offering(u, p)' \subseteq Offering(u, p) \ {w} /\ w \in Offering(u, p)
        BY <1>3, <2>2, <3>3 DEF Offering, Idle
      <4>5. Cardinality(Offering(u, p) \ {w}) = Cardinality(Offering(u, p)) - 1
            /\ IsFiniteSet(Offering(u, p) \ {w})
        BY <4>4, FiniteSides, FS_RemoveElement
      <4>6. Cardinality(Offering(u, p)') <= Cardinality(Offering(u, p) \ {w})
            /\ IsFiniteSet(Offering(u, p)')
        BY <4>4, <4>5, FS_Subset
      <4>7. /\ Cardinality(Having(u, p, "pending")') \in Nat
            /\ Cardinality(Offering(u, p)') \in Nat
            /\ Cardinality(Having(u, p, "pending") \cup {o}) \in Nat
        BY <4>2, <4>3, <4>6, FS_CardinalityType
      <4>. QED
        BY <2>0, <4>2, <4>3, <4>5, <4>6, <4>7, FiniteSides
    <3>4. CASE ~(r.partner = u /\ r.pod = p)
      <4>1. Having(u, p, "pending")' \subseteq Having(u, p, "pending")
        BY <3>2, <3>4 DEF Having, PendingInv, IInv, TypeOK, RowsTypeOK
      <4>. QED
        BY <2>0, <2>1, <4>1, BoundKept
    <3>. QED
      BY <3>3, <3>4
  <2>3. CASE r.op = "status" /\ StatusEffect(r.offer, r.status, r.seen)
    <3>1. r \in Request
      BY <1>2, <2>3 DEF Idle
    <3>2. Having(u, p, "pending")' \subseteq Having(u, p, "pending")
      BY <1>2, <2>3, <3>1, StatusKeepsPending
    <3>. QED
      BY <2>0, <2>1, <3>2, BoundKept
  <2>4. CASE offer' = offer
    <3>1. Having(u, p, "pending")' \subseteq Having(u, p, "pending")
      BY <2>4 DEF Having
    <3>. QED
      BY <2>0, <2>1, <3>1, BoundKept
  <2>. QED
    BY <1>1, <2>2, <2>3, <2>4 DEF CommitOf, CommentEffect, VettingEffect
<1>. QED
  BY <1>4, <1>5 DEF PendingInv

LEMMA PendingStep == PendingInv /\ [Next]_vars => PendingInv'
<1>. SUFFICES ASSUME PendingInv, [Next]_vars PROVE PendingInv'
  OBVIOUS
<1>0. IInv'
  BY IInvStep DEF PendingInv
<1>1. ASSUME NEW w \in Workers, Begin(w) PROVE PendingInv'
  BY <1>0, <1>1, BeginKeepsBound
<1>2. ASSUME NEW w \in Workers, Finish(w) PROVE PendingInv'
  BY <1>0, <1>2, FinishKeepsBound
<1>3. ASSUME UNCHANGED rows,
             \A v \in Workers : request'[v] = request[v] \/ request'[v] = Idle
      PROVE  PendingInv'
  <2>1. \A v \in Workers :
          request'[v].op = "status" /\ request'[v].status = "pending"
            => offer'[request'[v].offer].pod \in LegacyPods
    BY <1>3 DEF PendingInv, Idle, rows
  <2>2. ASSUME NEW u \in Partners, NEW p \in Pods \ LegacyPods
        PROVE  /\ Having(u, p, "pending")' \subseteq Having(u, p, "pending")
               /\ Offering(u, p)' \subseteq Offering(u, p)
    BY <1>3 DEF Having, Offering, Idle, rows
  <2>3. \A u \in Partners, p \in Pods \ LegacyPods :
          Cardinality(Having(u, p, "pending")') + Cardinality(Offering(u, p)')
            <= Cardinality(Workers)
    BY <2>2, BoundKept DEF PendingInv
  <2>. QED
    BY <1>0, <2>1, <2>3 DEF PendingInv
<1>4. ASSUME NEW w \in Workers, Rollback(w) PROVE PendingInv'
  BY <1>3, <1>4 DEF Rollback, Done, PendingInv, IInv, TypeOK
<1>5. CASE UNCHANGED vars
  BY <1>3, <1>5 DEF vars
<1>. QED
  BY <1>1, <1>2, <1>4, <1>5 DEF Next

\* However requests overlap, a partner has at most as many pending offers on a
\* pod as there are sessions: the duplicate check, late as its answer may be
\* used, keeps every later request from adding to them.
THEOREM PendingBounded == Spec => []PendingWithinSessions
<1>1. PendingInv => PendingWithinSessions
  BY FiniteSides DEF PendingInv, PendingWithinSessions
<1>. QED
  BY <1>1, PendingInit, PendingStep, PTL DEF Spec

-----------------------------------------------------------------------------
(* With one session, whatever the number of partners, pods and offers, the *)
(* two-step offer handlers implement the atomic ones of OfferContract.     *)

OneSession == \A v, w \in Workers : v = w

\* What a request has checked and loaded still holds when it commits.
Fresh(r) ==
  /\ r.op = "offer" => OfferGuard(r.partner, r.pod) \/ r.pod \in LegacyPods
  /\ r.op = "status" =>
       /\ r.seen = offer[r.offer].status
       /\ \/ OpenOffer(r.offer) /\ r.status \in {"withdrawn", "approved", "rejected"}
          \/ offer[r.offer] # NoOffer /\ offer[r.offer].pod \in LegacyPods
  /\ r.op = "comment" => FunderAccess(r.partner, r.pod)

SerialInv == IInv /\ \A w \in Workers : Fresh(request[w])

LEMMA BeginFresh ==
  ASSUME NEW w \in Workers, Begin(w)
  PROVE  \E r : Fresh(r) /\ request' = [request EXCEPT ![w] = r]
<1> DEFINE Goal == \E r : Fresh(r) /\ request' = [request EXCEPT ![w] = r]
<1>1. ASSUME NEW u \in Partners, NEW p \in Pods, BeginOffer(w, u, p) \/ BeginIntent(w, u, p)
      PROVE  Goal
  BY <1>1 DEF BeginOffer, BeginIntent, Load, Fresh
<1>2. ASSUME NEW u \in Partners, NEW p \in Pods, BeginComment(w, u, p) PROVE Goal
  BY <1>2 DEF BeginComment, Load, Fresh
<1>3. ASSUME NEW o \in OfferIds, NEW s \in RequestStatus, LoadStatus(w, o, s),
             \/ OpenOffer(o) /\ s \in {"withdrawn", "approved", "rejected"}
             \/ offer[o] # NoOffer /\ offer[o].pod \in LegacyPods
      PROVE  Goal
  BY <1>3 DEF LoadStatus, Load, Fresh
<1>4. ASSUME NEW o \in OfferIds, BeginWithdraw(w, o) PROVE Goal
  BY <1>3, <1>4 DEF BeginWithdraw, RequestStatus
<1>5. ASSUME NEW o \in OfferIds, NEW d \in {"accepted", "declined"}, BeginRespond(w, o, d)
      PROVE  Goal
  BY <1>3, <1>5 DEF BeginRespond, AnswerStatus, RequestStatus
<1>6. ASSUME NEW o \in OfferIds, NEW s \in RequestStatus, BeginLegacyUpdate(w, o, s)
      PROVE  Goal
  BY <1>3, <1>6 DEF BeginLegacyUpdate
<1>7. ASSUME NEW p \in Pods, NEW approve \in BOOLEAN, BeginVet(w, p, approve) PROVE Goal
  BY <1>7 DEF BeginVet, Load, Fresh
<1>. QED
  BY <1>1, <1>2, <1>4, <1>5, <1>6, <1>7 DEF Begin

\* The contract counts offers as the handlers do.
LEMMA SameCount ==
  ASSUME NEW S
  PROVE  Contract!Cardinality(S) = Cardinality(S)
  BY DEF Contract!Cardinality, Cardinality

\* The commit of a request whose check still holds is one handler of the contract.
LEMMA CommitIsHandler ==
  ASSUME TypeOK, NEW r \in Request \cup {Idle}, Fresh(r), CommitOf(r)
  PROVE  Contract!Next
<1>1. CASE r.op = "offer" /\ \E o \in OfferIds : OfferEffect(r.partner, r.pod, o)
  <2>1. Contract!MakeOffer(r.partner, r.pod)
    BY <1>1 DEF Fresh, Contract!MakeOffer, Contract!OfferGuard, OfferGuard, Contract!Having,
       Having, Contract!OfferEffect, OfferEffect, Contract!NoOffer, NoOffer
  <2>. QED
    BY <1>1, <2>1, RequestFields DEF Contract!Next
<1>2. CASE r.op = "status" /\ StatusEffect(r.offer, r.status, r.seen)
  <2>1. r.offer \in OfferIds /\ r.status \in RequestStatus /\ r.seen = offer[r.offer].status
    BY <1>2, RequestFields DEF Fresh
  <2>2. Contract!StatusEffect(r.offer, r.status, offer[r.offer].status)
    BY <1>2, <2>1 DEF StatusEffect, Contract!StatusEffect
  <2>3. CASE OpenOffer(r.offer) /\ r.status = "withdrawn"
    <3>1. Contract!Withdraw(r.offer)
      BY <2>2, <2>3 DEF Contract!Withdraw, Contract!OpenOffer, OpenOffer
    <3>. QED
      BY <2>1, <3>1 DEF Contract!Next
  <2>4. ASSUME NEW d \in {"accepted", "declined"},
               OpenOffer(r.offer), r.status = AnswerStatus(d)
        PROVE  Contract!Next
    <3>1. Contract!Respond(r.offer, d)
      BY <2>2, <2>4 DEF Contract!Respond, Contract!OpenOffer, OpenOffer, AnswerStatus,
         Contract!AnswerStatus
    <3>. QED
      BY <2>1, <3>1 DEF Contract!Next
  <2>5. CASE offer[r.offer] # NoOffer /\ offer[r.offer].pod \in LegacyPods
    <3>1. Contract!LegacyUpdate(r.offer, r.status)
      BY <2>2, <2>5 DEF Contract!LegacyUpdate, Contract!NoOffer, NoOffer
    <3>. QED
      BY <2>1, <3>1 DEF Contract!Next, Contract!RequestStatus, RequestStatus
  <2>6. \/ OpenOffer(r.offer) /\ r.status \in {"withdrawn", "approved", "rejected"}
        \/ offer[r.offer] # NoOffer /\ offer[r.offer].pod \in LegacyPods
    BY <1>2 DEF Fresh
  <2>7. AnswerStatus("accepted") = "approved" /\ AnswerStatus("declined") = "rejected"
    BY DEF AnswerStatus
  <2>. QED
    BY <2>3, <2>4, <2>5, <2>6, <2>7
<1>3. CASE r.op = "comment" /\ CommentEffect(r.partner, r.pod)
  <2>1. Contract!Comment(r.partner, r.pod)
    BY <1>3, SameCount DEF Fresh, Contract!Comment, Contract!FunderAccess, FunderAccess, Contract!Having,
       Having, Contract!CommentEffect, CommentEffect
  <2>. QED
    BY <1>3, <2>1, RequestFields DEF Contract!Next
<1>4. CASE r.op = "vet" /\ VettingEffect(r.pod, r.approve)
  <2>1. Contract!Vet(r.pod, r.approve)
    BY <1>4 DEF Contract!Vet, Contract!VettingEffect, VettingEffect
  <2>. QED
    BY <1>4, <2>1, RequestFields DEF Contract!Next
<1>. QED
  BY <1>1, <1>2, <1>3, <1>4 DEF CommitOf

LEMMA SameRowsFresh ==
  ASSUME UNCHANGED rows, NEW r, Fresh(r)
  PROVE  Fresh(r)'
  BY DEF rows, Fresh, OfferGuard, OpenOffer, FunderAccess, Having

LEMMA SerialStep ==
  ASSUME OneSession, SerialInv, [Next]_vars
  PROVE  SerialInv' /\ (Contract!Next \/ UNCHANGED rows)
<1>0. TypeOK /\ IInv'
  BY IInvStep DEF SerialInv, IInv
<1>1. ASSUME NEW w \in Workers, Begin(w)
      PROVE  SerialInv' /\ UNCHANGED rows
  <2>1. PICK r : Fresh(r) /\ request' = [request EXCEPT ![w] = r]
    BY <1>1, BeginFresh
  <2>2. UNCHANGED rows
    BY <1>0, <1>1, BeginLoads
  <2>3. Fresh(r)'
    BY <2>1, <2>2, SameRowsFresh
  <2>4. \A v \in Workers : request'[v] = r
    BY <1>0, <2>1 DEF OneSession, TypeOK
  <2>5. \A v \in Workers : Fresh(request[v])'
    BY <2>3, <2>4 DEF Fresh
  <2>. QED
    BY <1>0, <2>2, <2>5 DEF SerialInv
<1>2. ASSUME NEW w \in Workers, Done(w)
      PROVE  \A v \in Workers : Fresh(request[v])'
  <2>1. \A v \in Workers : request'[v] = Idle
    BY <1>0, <1>2 DEF OneSession, TypeOK, Done
  <2>. QED
    BY <2>1 DEF Fresh, Idle
<1>3. ASSUME NEW w \in Workers, Finish(w)
      PROVE  SerialInv' /\ Contract!Next
  <2>1. CommitOf(request[w]) /\ Done(w)
    BY <1>3, FinishCommits
  <2>2. request[w] \in Request \cup {Idle} /\ Fresh(request[w])
    BY <1>0 DEF SerialInv, TypeOK
  <2>. QED
    BY <1>0, <1>2, <2>1, <2>2, CommitIsHandler DEF SerialInv
<1>4. ASSUME NEW w \in Workers, Rollback(w)
      PROVE  SerialInv' /\ UNCHANGED rows
  BY <1>0, <1>2, <1>4 DEF Rollback, SerialInv
<1>5. CASE UNCHANGED vars
  <2>1. UNCHANGED rows /\ request' = request
    BY <1>5 DEF vars
  <2>2. \A w \in Workers : Fresh(request[w])'
    BY <2>1, SameRowsFresh DEF SerialInv, Fresh
  <2>. QED
    BY <1>0, <2>1, <2>2 DEF SerialInv
<1>. QED
  BY <1>1, <1>3, <1>4, <1>5 DEF Next

LEMMA SerialInit == Init => SerialInv /\ Contract!RowsInit
<1>1. Init => \A w \in Workers : Fresh(request[w])
  BY DEF Init, Fresh, Idle
<1>2. Init => Contract!RowsInit
  BY DEF Init, RowsInit, Contract!RowsInit, Contract!NoOffer, NoOffer
<1>. QED
  BY <1>1, <1>2, IInvInit DEF SerialInv

\* One request at a time, the offer handlers of both generations behave as if
\* each were one step: a failure between the two halves cannot be told from an
\* execution of OfferContract.
THEOREM SerialImplementsContract ==
  ASSUME OneSession
  PROVE  Spec => ImplementsOfferContract
<1>1. SerialInv /\ [Next]_vars => SerialInv' /\ [Contract!Next]_rows
  BY SerialStep
<1>2. SerialInv /\ [Next]_vars => SerialInv' /\ [Contract!Next]_(Contract!rows)
  BY <1>1 DEF Contract!rows, rows
<1>. QED
  BY <1>2, SerialInit, PTL DEF Spec, ImplementsOfferContract, Contract!Spec

\* A handler of the contract leaves an answered or withdrawn offer as it is,
\* unless the legacy endpoints are used on its pod.
LEMMA HandlersKeepAnswers ==
  ASSUME TypeOK, Contract!Next, NEW o \in OfferIds,
         offer[o].status \in {"approved", "rejected", "withdrawn"},
         offer[o].pod \notin LegacyPods
  PROVE  offer'[o] = offer[o]
<1> USE DEF TypeOK, RowsTypeOK
<1>1. ASSUME NEW u \in Partners, NEW p \in Pods, Contract!MakeOffer(u, p)
      PROVE  offer'[o] = offer[o]
  BY <1>1 DEF Contract!MakeOffer, Contract!OfferEffect, Contract!NoOffer
<1>2. ASSUME NEW x \in OfferIds, NEW s, Contract!StatusEffect(x, s, offer[x].status),
             Contract!OpenOffer(x) \/ offer[x].pod \in LegacyPods
      PROVE  offer'[o] = offer[o]
  BY <1>2 DEF Contract!StatusEffect, Contract!OpenOffer
<1>3. ASSUME NEW x \in OfferIds, Contract!Withdraw(x) PROVE offer'[o] = offer[o]
  BY <1>2, <1>3 DEF Contract!Withdraw
<1>4. ASSUME NEW x \in OfferIds, NEW d \in {"accepted", "declined"}, Contract!Respond(x, d)
      PROVE  offer'[o] = offer[o]
  BY <1>2, <1>4 DEF Contract!Respond
<1>5. ASSUME NEW x \in OfferIds, NEW s \in RequestStatus, Contract!LegacyUpdate(x, s)
      PROVE  offer'[o] = offer[o]
  BY <1>2, <1>5 DEF Contract!LegacyUpdate
<1>6. ASSUME NEW u \in Partners, NEW p \in Pods, Contract!Comment(u, p)
      PROVE  offer'[o] = offer[o]
  BY <1>6 DEF Contract!Comment, Contract!CommentEffect
<1>7. ASSUME NEW p \in Pods, NEW approve \in BOOLEAN, Contract!Vet(p, approve)
      PROVE  offer'[o] = offer[o]
  BY <1>7 DEF Contract!Vet, Contract!VettingEffect
<1>. QED
  BY <1>1, <1>3, <1>4, <1>5, <1>6, <1>7 DEF Contract!Next, Contract!RequestStatus, RequestStatus

\* One request at a time, an answer is final: an accepted offer cannot be taken
\* back, a withdrawn one cannot be accepted.
THEOREM SerialAnswersFinal ==
  ASSUME OneSession
  PROVE  Spec => AnswersAreFinal
<1> DEFINE Kept == \A o \in OfferIds :
             offer[o].status \in {"approved", "rejected", "withdrawn"}
               /\ offer[o].pod \notin LegacyPods => offer'[o] = offer[o]
<1>1. SerialInv /\ [Next]_vars => SerialInv' /\ [Kept]_(Contract!rows)
  <2> SUFFICES ASSUME SerialInv, [Next]_vars PROVE SerialInv' /\ [Kept]_(Contract!rows)
    OBVIOUS
  <2>1. SerialInv' /\ (Contract!Next \/ UNCHANGED rows)
    BY SerialStep
  <2>2. TypeOK
    BY DEF SerialInv, IInv
  <2>3. CASE Contract!Next
    BY <2>1, <2>2, <2>3, HandlersKeepAnswers
  <2>. QED
    BY <2>1, <2>3 DEF rows, Contract!rows
<1>. QED
  BY <1>1, SerialInit, PTL DEF Spec, AnswersAreFinal, Contract!AnswersAreFinal
=============================================================================
