------------------------------ MODULE PodWorkspace ------------------------------
(* A lead's workspace of one solution pod (ProjectWorkspacePage): the stored  *)
(* pod, its funding offers and its impact report; the three queries the page  *)
(* shows them from; and the five mutations, each of which has one request at  *)
(* most under way, while those of different mutations overlap.  Mentors,      *)
(* partners and the operator act on the rows meanwhile.                       *)
(*                                                                            *)
(* The new member's id and the impact report are typed when they are sent;    *)
(* the update's text is kept, because the page keeps it after a failure.      *)
EXTENDS Naturals, Sequences, FiniteSets, QueryCache
LOCAL INSTANCE SequencesExt

CONSTANTS
  StartStages,   \* statuses the pod may have when the page is opened
  Offers,
  Milestones,    \* what the lead may write into an update
  Impacts,       \* impact reports of 20 characters and more
  Nil,           \* no text, no review, no report
  MaxRequests,   \* bound on the requests of the page; then no more is typed
  MaxElsewhere   \* bound on the steps of others

Mutations == {"submit", "update", "member", "answer", "impact"}

VARIABLES
  pod,        \* the stored pod: status, verdicts of its reviews, updates, members
  offer,      \* its offers: "pending", "approved", "rejected", or "withdrawn"
  impact,     \* its impact report
  queries,    \* pod-detail, pod-funding-offers and pod-impact-report
  milestone,  \* the form of an update
  requests,   \* the request of each mutation
  tries, elsewhere,  \* requests begun, steps of others
  missed,     \* something was stored and its answer lost, or not looked for
  overrun     \* an older pod was put over a newer one, or after it

stored == <<pod, offer, impact>>
counters == <<tries, elsewhere>>
workspaceVars == <<stored, queries, milestone, requests, counters, missed, overrun>>

Idle == [stage |-> "idle"]
Off == [Opened EXCEPT !.fetch = "idle"]

(* What the three queries are answered with.                                  *)
PodSays ==
  [status : StartStages \cup {"review", "in_progress", "pilot", "completed", "rejected"},
   first : {Nil, "approved", "changes_requested", "rejected"}, reviews : Nat,
   updates : Nat, members : Nat]
OffersSay == UNION {[S -> {"pending", "approved", "rejected"}] : S \in SUBSET Offers}
WorkspaceAnswers == PodSays \cup OffersSay \cup Impacts \cup {Nil}

ASSUME WorkspaceAssumption == NoData \notin WorkspaceAnswers

WorkspaceInit ==
  /\ \E s \in StartStages :
       pod = [status |-> s, updates |-> 0, members |-> 1,
              verdicts |-> IF s \in {"pilot", "completed"} THEN <<"approved">> ELSE <<>>]
  /\ offer \in [Offers -> {"pending", "withdrawn"}] /\ impact = Nil
  /\ queries = [pod |-> Opened, offers |-> Off, impact |-> Off]
  /\ milestone = [open |-> FALSE, text |-> Nil]
  /\ requests = [m \in Mutations |-> Idle]
  /\ tries = 0 /\ elsewhere = 0 /\ missed = FALSE /\ overrun = FALSE
-------------------------------------------------------------------------------
(* What the server answers.  The reviews of a pod come in no stated order, so *)
(* the one listed first may be any of them.                                   *)
PodAnswers ==
  {[status |-> pod.status, first |-> v, reviews |-> Len(pod.verdicts),
    updates |-> pod.updates, members |-> pod.members] :
     v \in IF pod.verdicts = <<>> THEN {Nil} ELSE ToSet(pod.verdicts)}

OfferAnswer == [o \in {o \in Offers : offer[o] # "withdrawn"} |-> offer[o]]

(* The query of the offers waits for the pod to show who is a member, that of *)
(* the report for a pod far enough.                                           *)
Enabled(k, shown) ==
  \/ k = "pod"
  \/ /\ shown # NoData
     /\ k = "impact" => shown.status \in {"pilot", "completed"}

(* The pod in the cache has changed: what it enables is fetched, unless it is *)
(* there already and less than a minute old.                                  *)
Enabling(old, new, young) ==
  [k \in DOMAIN new |->
     IF ~Enabled(k, old["pod"].data) /\ Enabled(k, new["pod"].data)
        /\ new[k].fetch = "idle" /\ ~(young /\ new[k].data # NoData)
     THEN Refetch(new[k]) ELSE new[k]]

Invalidated(keys) ==
  RefetchAll(queries, {k \in keys : Enabled(k, queries["pod"].data)})

AskPod ==
  /\ Asked(queries["pod"])
  /\ \E a \in PodAnswers : queries' = [queries EXCEPT !["pod"] = Reads(@, a)]
  /\ UNCHANGED <<stored, milestone, requests, counters, missed, overrun>>

ShowPod ==
  /\ Answered(queries["pod"])
  /\ \E young \in BOOLEAN : queries' =
       Enabling(queries, [queries EXCEPT !["pod"] = Shows(@)], young)
  /\ UNCHANGED <<stored, milestone, requests, counters, missed, overrun>>

FetchOffers ==
  /\ \/ Asked(queries["offers"])
        /\ queries' = [queries EXCEPT !["offers"] = Reads(@, OfferAnswer)]
     \/ Answered(queries["offers"]) /\ queries' = [queries EXCEPT !["offers"] = Shows(@)]
  /\ UNCHANGED <<stored, milestone, requests, counters, missed, overrun>>

(* Without a report the answer is "not found", which is not asked again.      *)
FetchImpact ==
  /\ \/ Asked(queries["impact"])
        /\ queries' = [queries EXCEPT !["impact"] = Reads(@, impact)]
     \/ Answered(queries["impact"])
        /\ queries' = [queries EXCEPT !["impact"] = IF @.seen = Nil THEN Misses(@) ELSE Shows(@)]
  /\ UNCHANGED <<stored, milestone, requests, counters, missed, overrun>>

FetchLost(k) ==
  /\ queries[k].fetch # "idle"
  /\ queries' = [queries EXCEPT ![k] = Misses(@)]
  /\ missed' = (missed \/ k = "impact")
  /\ UNCHANGED <<stored, milestone, requests, counters, overrun>>
-------------------------------------------------------------------------------
(* A pod that could not be read again gives way to "Pod Not Found".           *)
PageUp == queries["pod"].data # NoData /\ ~queries["pod"].failed
Page == queries["pod"].data

(* What its parts show.                                                       *)
LatestReview == Page.first
EngineeringLog == Page.updates
TeamRoster == Page.members
ReviewStatus == Page.status
ReportOnPage == queries["impact"].data

OpenMilestone ==
  /\ PageUp /\ ~milestone.open /\ tries < MaxRequests
  /\ milestone' = [milestone EXCEPT !.open = TRUE]
  /\ UNCHANGED <<stored, queries, requests, counters, missed, overrun>>

WriteMilestone(t) ==
  /\ PageUp /\ milestone.open /\ t # milestone.text /\ tries < MaxRequests
  /\ milestone' = [milestone EXCEPT !.text = t]
  /\ UNCHANGED <<stored, queries, requests, counters, missed, overrun>>

CancelMilestone ==
  /\ PageUp /\ milestone.open
  /\ milestone' = [milestone EXCEPT !.open = FALSE]
  /\ UNCHANGED <<stored, queries, requests, counters, missed, overrun>>

Busy(m) == requests[m] # Idle

Send(m, what) ==
  /\ PageUp /\ ~Busy(m)
  /\ tries < MaxRequests /\ tries' = tries + 1
  /\ requests' = [requests EXCEPT ![m] = [stage |-> "sent", what |-> what, answer |-> NoData]]
  /\ UNCHANGED <<stored, queries, milestone, elsewhere, missed, overrun>>

CanSubmitForReview(p) == p.status \in {"planning", "in_progress", "prototype"}

SubmitForReview == PageUp /\ CanSubmitForReview(Page) /\ Send("submit", Nil)

(* The banner of a pod whose listed review asks for changes.                  *)
Resubmit == PageUp /\ LatestReview = "changes_requested" /\ Page.status = "in_progress"
            /\ Send("submit", Nil)

PublishUpdate == milestone.open /\ milestone.text # Nil /\ Send("update", milestone.text)

AddMember == Send("member", Nil)

PendingOffers ==
  LET shown == queries["offers"].data
  IN  IF shown = NoData THEN {} ELSE {o \in DOMAIN shown : shown[o] = "pending"}

RespondToOffer(o, decision) == o \in PendingOffers /\ Send("answer", <<o, decision>>)

(* With a report on the page the form edits it.                               *)
SubmitImpact(text) ==
  /\ PageUp /\ Page.status = "completed"
  /\ Send("impact", [text |-> text, edits |-> ReportOnPage # NoData])
-------------------------------------------------------------------------------
(* The handlers: some load and check first, and write and commit later.  A    *)
(* request the server refuses ends as a failed one.                           *)
At(m, stage) == requests[m] # Idle /\ requests[m].stage = stage

Moves(m, stage, a) ==
  /\ requests' = [requests EXCEPT ![m].stage = stage, ![m].answer = a]
  /\ UNCHANGED <<queries, milestone, counters, missed, overrun>>
Checks(m, a) == At(m, "sent") /\ Moves(m, "checked", a) /\ UNCHANGED stored
Stores(m, a) == Moves(m, "stored", a)

UnderReview(p) == [p EXCEPT !.status = "review"]

(* The answer is the pod as it was loaded, under review.                      *)
CheckSubmission ==
  /\ CanSubmitForReview(pod)
  /\ \E a \in PodAnswers : Checks("submit", UnderReview(a))

(* Whatever was decided since.                                                *)
StoreSubmission ==
  /\ At("submit", "checked")
  /\ pod' = UnderReview(pod)
  /\ Stores("submit", requests["submit"].answer) /\ UNCHANGED <<offer, impact>>

StoreUpdate ==
  /\ At("update", "sent")
  /\ pod' = [pod EXCEPT !.updates = @ + 1]
  /\ Stores("update", NoData) /\ UNCHANGED <<offer, impact>>

StoreMember ==
  /\ At("member", "sent")
  /\ pod' = [pod EXCEPT !.members = @ + 1]
  /\ Stores("member", NoData) /\ UNCHANGED <<offer, impact>>

CheckAnswer == Checks("answer", NoData) /\ offer[requests["answer"].what[1]] = "pending"

(* Though the partner withdrew it since.                                      *)
StoreAnswer ==
  /\ At("answer", "checked")
  /\ LET w == requests["answer"].what IN offer' = [offer EXCEPT ![w[1]] = w[2]]
  /\ Stores("answer", NoData) /\ UNCHANGED <<pod, impact>>

(* POST wants a completed pod without a report, PATCH a report.               *)
CheckImpact ==
  /\ Checks("impact", NoData)
  /\ IF requests["impact"].what.edits THEN impact # Nil
     ELSE pod.status = "completed" /\ impact = Nil

(* A pod has one report: its column is unique.                                *)
StoreImpact ==
  /\ At("impact", "checked") /\ (requests["impact"].what.edits \/ impact = Nil)
  /\ impact' = requests["impact"].what.text
  /\ Stores("impact", NoData) /\ UNCHANGED <<pod, offer>>
-------------------------------------------------------------------------------
Answers(m) == requests[m] # Idle /\ requests[m].stage = "stored"
Over(m) == requests' = [requests EXCEPT ![m] = Idle]

(* A fetch in its first attempt is not begun anew.                            *)
Unheard(k) == queries[k].fetch # "idle" /\ queries[k].data = NoData

(* The answer takes the place of the cached pod; no fetch is given up or      *)
(* begun.  "overrun" says that it, or the fetch under way, is behind.         *)
SubmissionShown ==
  /\ Answers("submit") /\ Over("submit")
  /\ \E young \in BOOLEAN : queries' =
       Enabling(queries, SetData(queries, {"pod"}, requests["submit"].answer), young)
  /\ overrun' = (\/ overrun
                 \/ requests["submit"].answer \notin PodAnswers
                 \/ Answered(queries["pod"]) /\ queries["pod"].seen \notin PodAnswers)
  /\ UNCHANGED <<stored, milestone, counters, missed>>

\* Mutant of Updated: the pod is not fetched again.
Updated_NotRefetched ==
  /\ Answers("update") /\ Over("update")
  /\ milestone' = [open |-> FALSE, text |-> Nil]
  /\ UNCHANGED <<stored, queries, counters, missed, overrun>>

(* The form is emptied and closed, whatever was typed since.                  *)
Updated ==
  /\ Answers("update") /\ Over("update")
  /\ queries' = Invalidated({"pod"})
  /\ milestone' = [open |-> FALSE, text |-> Nil]
  /\ UNCHANGED <<stored, counters, missed, overrun>>

MemberAdded ==
  /\ Answers("member") /\ Over("member")
  /\ queries' = Invalidated({"pod"})
  /\ UNCHANGED <<stored, milestone, counters, missed, overrun>>

OfferAnswered ==
  /\ Answers("answer") /\ Over("answer")
  /\ queries' = Invalidated({"offers", "pod"})
  /\ UNCHANGED <<stored, milestone, counters, missed, overrun>>

(* A first look for the report is not begun anew, nor is one begun for a pod  *)
(* that shows no longer far enough.                                           *)
ImpactSaved ==
  /\ Answers("impact") /\ Over("impact")
  /\ queries' = Invalidated({"impact", "pod"})
  /\ missed' = (missed \/ Unheard("impact") \/ ~Enabled("impact", Page))
  /\ UNCHANGED <<stored, milestone, counters, overrun>>

(* Refused, lost, or its answer lost: a message, and nothing else.  (A        *)
(* request the page gives up and the server stores later is one whose answer  *)
(* is lost.)                                                                  *)
RequestFails(m) ==
  /\ Busy(m) /\ Over(m)
  /\ missed' = (missed \/ requests[m].stage = "stored")
  /\ UNCHANGED <<stored, queries, milestone, counters, overrun>>
-------------------------------------------------------------------------------
(* Others.                                                                    *)
Elsewhere ==
  /\ elsewhere < MaxElsewhere /\ elsewhere' = elsewhere + 1
  /\ UNCHANGED <<queries, milestone, requests, tries, missed, overrun>>

AfterReview ==
  [approved |-> "pilot", changes_requested |-> "in_progress", rejected |-> "rejected"]

(* A mentor may review a pod whatever its status.  The review writes none     *)
(* when it loaded, at any time before, the status it implies.                 *)
ReviewedElsewhere(verdict) ==
  /\ Elsewhere
  /\ \E s \in {AfterReview[verdict], pod.status} :
       pod' = [pod EXCEPT !.status = s, !.verdicts = Append(@, verdict)]
  /\ UNCHANGED <<offer, impact>>

(* No code completes a pod: the operator does.                                *)
CompletedElsewhere ==
  /\ Elsewhere /\ pod.status = "pilot"
  /\ pod' = [pod EXCEPT !.status = "completed"]
  /\ UNCHANGED <<offer, impact>>

(* The partner's request may have found the offer pending at any time before. *)
WithdrawnElsewhere(o) ==
  /\ Elsewhere /\ offer[o] # "withdrawn"
  /\ offer' = [offer EXCEPT ![o] = "withdrawn"]
  /\ UNCHANGED <<pod, impact>>
-------------------------------------------------------------------------------
WorkspaceNext ==
  \/ AskPod \/ ShowPod \/ FetchOffers \/ FetchImpact
  \/ \E k \in DOMAIN queries : FetchLost(k)
  \/ OpenMilestone \/ CancelMilestone \/ PublishUpdate
  \/ \E t \in Milestones \cup {Nil} : WriteMilestone(t)
  \/ SubmitForReview \/ Resubmit \/ AddMember
  \/ \E o \in Offers, d \in {"approved", "rejected"} : RespondToOffer(o, d)
  \/ \E t \in Impacts : SubmitImpact(t)
  \/ CheckSubmission \/ CheckAnswer \/ CheckImpact
  \/ StoreSubmission \/ StoreUpdate \/ StoreMember \/ StoreAnswer \/ StoreImpact
  \/ SubmissionShown \/ Updated \/ MemberAdded \/ OfferAnswered \/ ImpactSaved
  \/ \E m \in Mutations : RequestFails(m)
  \/ \E v \in DOMAIN AfterReview : ReviewedElsewhere(v)
  \/ CompletedElsewhere
  \/ \E o \in Offers : WithdrawnElsewhere(o)

WorkspaceSpec == WorkspaceInit /\ [][WorkspaceNext]_workspaceVars
-------------------------------------------------------------------------------
AtRest ==
  /\ \A m \in Mutations : ~Busy(m)
  /\ \A k \in DOMAIN queries : queries[k].fetch = "idle"
  /\ PageUp /\ ~queries["offers"].failed /\ ~missed

(* The five mutations overlap each other and the fetches they and the page    *)
(* begin.  When nothing is under way any more, the page shows what the lead   *)
(* did: updates, members, answered offers, the report, and that the pod is    *)
(* under review; unless an answer was lost, a report was saved during the     *)
(* page's first look for one or when the pod shown was not far enough, or a   *)
(* submission's answer, which is a copy of the pod put into the cache,        *)
(* crossed another change.                                                    *)
OwnChangesShown ==
  AtRest =>
    /\ ~overrun => /\ EngineeringLog = pod.updates /\ TeamRoster = pod.members
                   /\ pod.status = "review" => ReviewStatus = "review"
    /\ \A o \in Offers : offer[o] \in {"approved", "rejected"}
                         => queries["offers"].data[o] = offer[o]
    /\ ReviewStatus = "completed" /\ impact # Nil => ReportOnPage = impact

(* The review the page presents as the latest is the latest, once it has read *)
(* them all.                                                                  *)
FeedbackIsLatest ==
  Page # NoData /\ Page.reviews = Len(pod.verdicts) /\ pod.verdicts # <<>>
  => LatestReview = Last(pod.verdicts)
===============================================================================
