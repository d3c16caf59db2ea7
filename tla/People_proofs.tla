----------------------------- MODULE People_proofs -----------------------------
(* The own profile page, the mentor's dashboard and the invitations of a      *)
(* faculty member, for any number of pods, calls, links and universities: the *)
(* pages at rest show what is stored, no suggestion is about another pod, and *)
(* one acceptance of an invitation stands.                                    *)
EXTENDS ProfilePage, MentorDesk, FacultyInvitations, TLAPS, FiniteSetTheorems

(* A query whose answers are in D, and what refetching it does: with data to  *)
(* show it always starts a new fetch.                                         *)
QueriesOf(D) ==
  [data : D \cup {NoData}, failed : BOOLEAN, fetch : {"idle", "asked", "read"},
   seen : D \cup {NoData}]

LEMMA Refetched ==
  ASSUME NEW D, NEW q \in QueriesOf(D), Answered(q) => q.seen \in D
  PROVE  /\ Refetch(q) \in QueriesOf(D)
         /\ Answered(Refetch(q)) => Refetch(q).seen \in D
         /\ Refetch(q).data = q.data
         /\ Refetch(q) = q \/ Asked(Refetch(q))
         /\ q.data # NoData => Asked(Refetch(q))
<1>1. CASE q.fetch # "idle" /\ q.data = NoData
  BY <1>1 DEF Refetch
<1>2. CASE ~(q.fetch # "idle" /\ q.data = NoData)
  <2> DEFINE failing == q.failed /\ q.data # NoData
  <2>1. failing \in BOOLEAN
    OBVIOUS
  <2>2. Refetch(q) = [q EXCEPT !.fetch = "asked", !.seen = NoData, !.failed = failing]
    BY <1>2 DEF Refetch, QueriesOf
  <2> HIDE DEF failing
  <2> QED BY <2>1, <2>2 DEF QueriesOf, Answered, Asked
<1> QED BY <1>1, <1>2
-------------------------------------------------------------------------------
Pods == Mentored \cup {Nobody}
Analyses == [pod : Mentored, n : Nat, live : BOOLEAN]

(* A live analysis is one the open assistant asked for, so that its answer,   *)
(* and what the assistant holds of earlier answers, is about its own pod.     *)
AboutOwnPod ==
  /\ spent \in Nat
  /\ assistant \in [pod : Pods, loading : BOOLEAN, about : Pods]
  /\ analyses \subseteq Analyses
  /\ assistant.about \in {Nobody, assistant.pod}
  /\ \A c \in analyses : c.live => c.pod = assistant.pod
-------------------------------------------------------------------------------
LEMMA AboutInit == MentorInit => AboutOwnPod
BY DEF MentorInit, AboutOwnPod, Shut, Pods, Analyses

LEMMA AboutNext == AboutOwnPod /\ [MentorNext]_mentorVars => AboutOwnPod'
<1> SUFFICES ASSUME AboutOwnPod, [MentorNext]_mentorVars PROVE AboutOwnPod'
  OBVIOUS
<1> USE MentorAssumption
<1>1. ASSUME UNCHANGED <<assistant, analyses>>, spent' \in Nat
      PROVE  AboutOwnPod'
  BY <1>1 DEF AboutOwnPod
<1>2. ASSUME LeaveAssistant, UNCHANGED spent
      PROVE  AboutOwnPod'
  BY <1>2 DEF LeaveAssistant, AboutOwnPod, Shut, Pods, Analyses
<1>3. ASSUME NEW p \in Mentored, FetchAIReview(p), assistant'.pod = p,
             assistant' \in [pod : Pods, loading : BOOLEAN, about : Pods],
             assistant'.about \in {Nobody, p},
             \A c \in analyses : c.live => c.pod = p
      PROVE  AboutOwnPod'
  <2> DEFINE new == [pod |-> p, n |-> spent, live |-> TRUE]
  <2>1. spent \in Nat /\ spent' \in Nat /\ analyses' = analyses \cup {new}
    BY <1>3 DEF FetchAIReview, AboutOwnPod
  <2>2. new \in Analyses /\ new.pod = p
    BY <2>1 DEF Analyses
  <2> HIDE DEF new
  <2>3. analyses' \subseteq Analyses
    BY <2>1, <2>2 DEF AboutOwnPod
  <2>4. \A c \in analyses' : c.live => c.pod = p
    BY <1>3, <2>1, <2>2
  <2> QED BY <1>3, <2>1, <2>3, <2>4 DEF AboutOwnPod
<1>4. ASSUME NEW p \in Mentored, OpenAssistant(p)
      PROVE  AboutOwnPod'
  <2>1. \A c \in analyses : ~c.live
    BY <1>4 DEF OpenAssistant, AboutOwnPod, Analyses
  <2>2. assistant' = [pod |-> p, loading |-> TRUE, about |-> Nobody] /\ FetchAIReview(p)
    BY <1>4 DEF OpenAssistant
  <2> QED BY <1>3, <2>1, <2>2 DEF Pods
<1>5. CASE Reanalyze
  <2>1. assistant.pod \in Mentored /\ FetchAIReview(assistant.pod)
    BY <1>5 DEF Reanalyze, AboutOwnPod, Pods
  <2>2. /\ assistant' \in [pod : Pods, loading : BOOLEAN, about : Pods]
        /\ assistant'.pod = assistant.pod /\ assistant'.about = assistant.about
    BY <1>5 DEF Reanalyze, AboutOwnPod
  <2> QED BY <1>3, <2>1, <2>2 DEF AboutOwnPod
<1>6. ASSUME NEW c \in analyses, AnalysisShown(c)
      PROVE  AboutOwnPod'
  BY <1>6 DEF AnalysisShown, AboutOwnPod, Pods, Analyses
<1>7. ASSUME NEW c \in analyses, AnalysisFails(c)
      PROVE  AboutOwnPod'
  BY <1>7 DEF AnalysisFails, AboutOwnPod, Pods, Analyses
<1>8. CASE UNCHANGED mentorVars
  BY <1>1, <1>8 DEF mentorVars, assistantVars, AboutOwnPod
<1>9. CASE MentorNext
  <2>1. spent \in Nat
    BY DEF AboutOwnPod
  <2>2. CASE DismissAssistant \/ InsertIntoForm
    BY <1>2, <2>2 DEF DismissAssistant, InsertIntoForm
  <2>3. CASE \/ FetchDashboard \/ DashboardLost \/ CancelReview \/ WriteFeedback \/ Dispatch
             \/ \E t \in {"supervised", "available", "reviews"} : SetActiveTab(t)
    BY <1>1, <2>1, <2>3
    DEF FetchDashboard, DashboardLost, SetActiveTab, CancelReview, WriteFeedback, Dispatch,
        assistantVars
  <2>4. CASE \E p \in Mentored : \/ Adopt(p) \/ OpenReview(p)
                                \/ AdoptedElsewhere(p) \/ Relinquished(p)
    BY <1>1, <2>1, <2>4
    DEF Adopt, AdoptedElsewhere, Relinquished, OpenReview, assistantVars
  <2>5. CASE \E a \in adoptions : \/ CheckAdoption(a) \/ StoreAdoption(a) \/ Adopted(a)
                                 \/ AdoptionOver(a) \/ AdoptionFails(a)
    BY <1>1, <2>1, <2>5
    DEF CheckAdoption, StoreAdoption, Adopted, AdoptionOver, AdoptionFails, assistantVars
  <2>6. CASE \E d \in dispatches : StoreReview(d) \/ Reviewed(d) \/ ReviewFails(d)
    BY <1>1, <2>1, <2>6 DEF StoreReview, Reviewed, ReviewFails, assistantVars
  <2> QED
    BY <1>4, <1>6, <1>7, <1>9, <1>5, <2>2, <2>3, <2>4, <2>5, <2>6 DEF MentorNext
<1> QED BY <1>8, <1>9

(* For any number of analyses and whatever their answers' order: the          *)
(* assistant never writes into a pod's review about another pod.              *)
THEOREM SuggestionsApart == MentorSpec => SuggestionsOfPod
<1>1. ASSUME AboutOwnPod, MentorNext, NEW p \in draft' \ draft
      PROVE  form' = p
  <2>1. CASE WriteFeedback
    BY <1>1, <2>1 DEF WriteFeedback, OnForm
  <2>2. CASE InsertIntoForm
    BY <1>1, <2>2 DEF InsertIntoForm, AboutOwnPod
  <2>3. CASE \E d \in dispatches : Reviewed(d)
    BY <1>1, <2>3 DEF Reviewed
  <2>4. CASE UNCHANGED draft
    BY <1>1, <2>4
  <2> QED
    BY <1>1, <2>1, <2>2, <2>3, <2>4
    DEF MentorNext, reviewVars, FetchDashboard, DashboardLost, SetActiveTab, Adopt,
        CheckAdoption, StoreAdoption, Adopted, AdoptionOver, AdoptionFails,
        AdoptedElsewhere, Relinquished, OpenReview, OpenAssistant, CancelReview, Dispatch, StoreReview, ReviewFails, FetchAIReview,
        Reanalyze, DismissAssistant, AnalysisShown, AnalysisFails
<1> DEFINE Apart == \A p \in draft' \ draft : form' = p
<1>2. AboutOwnPod /\ [MentorNext]_mentorVars => [Apart]_mentorVars
  BY <1>1
<1> QED BY <1>2, AboutInit, AboutNext, PTL DEF MentorSpec, SuggestionsOfPod
-------------------------------------------------------------------------------
(* The dashboard's query, and what its answers must show.                     *)
Dashboards == QueriesOf(DashboardAnswers)

Reflects(d) ==
  /\ d \in DashboardAnswers
  /\ \A p \in Mentored : mentorOf[p] = "me" => p \in d.assigned \ d.available
  /\ d.log = reviewed

Stores ==
  /\ mentorOf \in [Mentored -> {"none", "me", "other"}]
  /\ reviewed \in [Mentored -> Nat]

QueryTyped ==
  /\ dashboard \in Dashboards
  /\ Answered(dashboard) => dashboard.seen \in DashboardAnswers

Travelling ==
  /\ adoptions \subseteq [pod : Mentored, n : Nat, stage : {"sent", "checked", "stored", "again"}]
  /\ dispatches \subseteq [pod : Mentored, n : Nat, stage : {"sent", "stored"}]
  /\ form \in Pods

(* Nothing is sent from a page that has shown no list yet, so that the fetch  *)
(* that follows a success is never held back by a first one.                  *)
Loaded ==
  adoptions # {} \/ dispatches # {} \/ form # Nobody \/ assistant.pod # Nobody
  => dashboard.data # NoData

Unshown ==
  \/ \E a \in adoptions : a.stage = "stored"
  \/ \E d \in dispatches : d.stage = "stored"

Current ==
  \/ unanswered \/ Unshown
  \/ Asked(dashboard)
  \/ Answered(dashboard) /\ Reflects(dashboard.seen)
  \/ dashboard.fetch = "idle" /\ (dashboard.failed \/ Reflects(dashboard.data))

DeskInv == AboutOwnPod /\ Stores /\ QueryTyped /\ Travelling /\ Loaded /\ Current

LEMMA AnswerReflects == ASSUME Stores PROVE Reflects(DashboardAnswer)
BY DEF Stores, Reflects, DashboardAnswer, DashboardAnswers

LEMMA DeskInit == MentorInit => DeskInv
<1> SUFFICES ASSUME MentorInit PROVE DeskInv
  OBVIOUS
<1>1. AboutOwnPod
  BY AboutInit
<1>2. Stores
  BY DEF MentorInit, Stores
<1>3. QueryTyped /\ Asked(dashboard)
  BY DEF MentorInit, QueryTyped, Dashboards, QueriesOf, Opened, Answered, Asked
<1>4. Travelling /\ Loaded
  BY DEF MentorInit, Travelling, Loaded, Pods, Shut
<1> QED BY <1>1, <1>2, <1>3, <1>4 DEF DeskInv, Current

LEMMA StoresNext ==
  ASSUME Stores, Travelling, [MentorNext]_mentorVars
  PROVE  Stores'
<1>1. ASSUME NEW a \in adoptions, StoreAdoption(a)
      PROVE  Stores'
  BY <1>1 DEF StoreAdoption, Stores, Travelling
<1>2. ASSUME NEW d \in dispatches, StoreReview(d)
      PROVE  Stores'
  BY <1>2 DEF StoreReview, Stores, Travelling
<1>3. ASSUME NEW p \in Mentored, AdoptedElsewhere(p) \/ Relinquished(p)
      PROVE  Stores'
  BY <1>3 DEF AdoptedElsewhere, Relinquished, Stores
<1>4. ASSUME UNCHANGED supervision
      PROVE  Stores'
  BY <1>4 DEF supervision, Stores
<1> QED
  BY <1>1, <1>2, <1>3, <1>4
  DEF MentorNext, mentorVars, FetchDashboard, DashboardLost, SetActiveTab, Adopt,
      CheckAdoption, Adopted, AdoptionOver, AdoptionFails, OpenReview, OpenAssistant, CancelReview,
      WriteFeedback, Dispatch, Reviewed, ReviewFails, FetchAIReview, Reanalyze,
      DismissAssistant, InsertIntoForm, AnalysisShown, AnalysisFails

(* What a step does to the query of the dashboard.                            *)
FetchedAgain ==
  (\E a \in adoptions : Adopted(a)) \/ (\E d \in dispatches : Reviewed(d))

LEMMA QuerySteps ==
  ASSUME [MentorNext]_mentorVars
  PROVE  \/ FetchDashboard \/ DashboardLost
         \/ FetchedAgain /\ dashboard' = Refetch(dashboard)
         \/ UNCHANGED dashboard
BY DEF MentorNext, mentorVars, FetchedAgain, CheckAdoption, StoreAdoption,
       AdoptedElsewhere, Relinquished, StoreReview, SetActiveTab, Adopt, Adopted, AdoptionOver, AdoptionFails, OpenReview,
       OpenAssistant, CancelReview, WriteFeedback, Dispatch, Reviewed, ReviewFails,
       FetchAIReview, Reanalyze, DismissAssistant, InsertIntoForm, AnalysisShown,
       AnalysisFails

LEMMA QueryNext ==
  ASSUME Stores, QueryTyped, [MentorNext]_mentorVars
  PROVE  QueryTyped' /\ (dashboard.data # NoData => dashboard'.data # NoData)
<1>1. CASE FetchDashboard
  <2>1. DashboardAnswer \in DashboardAnswers
    BY AnswerReflects DEF Reflects
  <2>2. CASE Asked(dashboard) /\ dashboard' = Reads(dashboard, DashboardAnswer)
    BY <2>1, <2>2 DEF QueryTyped, Dashboards, QueriesOf, Reads, Asked, Answered
  <2>3. CASE Answered(dashboard) /\ dashboard' = Shows(dashboard)
    BY <2>3, DashboardAssumption DEF QueryTyped, Dashboards, QueriesOf, Shows, Answered
  <2> QED BY <1>1, <2>2, <2>3 DEF FetchDashboard
<1>2. CASE DashboardLost
  BY <1>2 DEF DashboardLost, QueryTyped, Dashboards, QueriesOf, Misses, Answered
<1>3. CASE dashboard' = Refetch(dashboard)
  BY <1>3, Refetched DEF QueryTyped, Dashboards
<1>4. CASE UNCHANGED dashboard
  BY <1>4 DEF QueryTyped
<1> QED BY <1>1, <1>2, <1>3, <1>4, QuerySteps

LEMMA TravellingNext ==
  ASSUME AboutOwnPod, QueryTyped, Travelling, [MentorNext]_mentorVars
  PROVE  Travelling'
<1>1. spent \in Nat
  BY DEF AboutOwnPod
<1>2. Supervised \subseteq Mentored /\ Available \subseteq Mentored
  BY DEF QueryTyped, Dashboards, QueriesOf, DashboardAnswers, Supervised, Available
<1>3. ASSUME NEW p \in Mentored, Adopt(p) PROVE Travelling'
  BY <1>1, <1>3 DEF Adopt, Travelling, reviewVars
<1>4. ASSUME NEW a \in adoptions,
             \/ CheckAdoption(a) \/ StoreAdoption(a) \/ Adopted(a)
             \/ AdoptionOver(a) \/ AdoptionFails(a)
      PROVE  Travelling'
  BY <1>4
  DEF CheckAdoption, StoreAdoption, Adopted, AdoptionOver, AdoptionFails, Moves, Travelling,
      reviewVars
<1>5. CASE Dispatch
  BY <1>1, <1>5 DEF Dispatch, OnForm, Travelling, adoptionVars, Pods
<1>6. ASSUME NEW d \in dispatches, StoreReview(d) \/ Reviewed(d) \/ ReviewFails(d)
      PROVE  Travelling'
  BY <1>6 DEF StoreReview, Reviewed, ReviewFails, Travelling, adoptionVars, Pods
<1>7. ASSUME UNCHANGED <<adoptions, dispatches>>, form' \in Pods
      PROVE  Travelling'
  BY <1>7 DEF Travelling
<1>8. CASE CancelReview \/ InsertIntoForm \/ \E p \in Mentored : OpenReview(p)
  BY <1>2, <1>7, <1>8
  DEF CancelReview, InsertIntoForm, OpenReview, AboutOwnPod, adoptionVars, Pods
<1>9. CASE UNCHANGED <<adoptions, dispatches, form>>
  BY <1>7, <1>9 DEF Travelling
<1> QED
  BY <1>3, <1>4, <1>5, <1>6, <1>8, <1>9
  DEF MentorNext, mentorVars, adoptionVars, reviewVars, AdoptedElsewhere, Relinquished,
      FetchDashboard,
      DashboardLost, SetActiveTab, OpenAssistant, WriteFeedback, FetchAIReview, Reanalyze,
      DismissAssistant, AnalysisShown, AnalysisFails

(* Requests, forms and the assistant come of a list that is on the page, or   *)
(* of one another.                                                            *)
LEMMA LoadedNext ==
  ASSUME AboutOwnPod, Stores, QueryTyped, Loaded, [MentorNext]_mentorVars
  PROVE  Loaded'
<1> USE MentorAssumption
<1>1. dashboard.data # NoData => dashboard'.data # NoData
  BY QueryNext
<1>2. ASSUME dashboard.data # NoData
      PROVE  Loaded'
  BY <1>1, <1>2 DEF Loaded
<1>3. CASE dashboard.data = NoData
  <2>1. adoptions = {} /\ dispatches = {} /\ form = Nobody /\ assistant.pod = Nobody
    BY <1>3 DEF Loaded
  <2>2. assistant.about = Nobody
    BY <2>1 DEF AboutOwnPod
  <2>3. Supervised = {} /\ Available = {}
    BY <1>3 DEF Supervised, Available
  <2>4. UNCHANGED <<adoptions, dispatches, form>> /\ assistant'.pod = Nobody
    <3>1. ASSUME NEW c \in analyses, AnalysisShown(c) \/ AnalysisFails(c)
          PROVE  assistant'.pod = Nobody
      BY <2>1, <3>1 DEF AnalysisShown, AnalysisFails, AboutOwnPod
    <3> QED
      BY <2>1, <2>2, <2>3, <3>1
      DEF MentorNext, mentorVars, adoptionVars, reviewVars, assistantVars, Adopt,
          AdoptedElsewhere, Relinquished, FetchDashboard, DashboardLost, SetActiveTab, OpenReview,
          OpenAssistant, CancelReview, WriteFeedback, Dispatch, FetchAIReview, Reanalyze,
          LeaveAssistant, Shut, DismissAssistant, InsertIntoForm, OnForm, AnalysisShown,
          AnalysisFails
  <2> QED BY <2>1, <2>4 DEF Loaded
<1> QED BY <1>2, <1>3

(* A step that ends a request whose change is stored either fetches again or  *)
(* leaves the change unanswered.                                              *)
LEMMA UnshownNext ==
  ASSUME Travelling, Unshown, [MentorNext]_mentorVars, ~FetchedAgain
  PROVE  unanswered' \/ Unshown'
<1>1. ASSUME NEW b \in adoptions, b.stage = "stored"
      PROVE  unanswered' \/ Unshown'
  <2>1. ASSUME NEW a \in adoptions,
               CheckAdoption(a) \/ StoreAdoption(a) \/ AdoptionOver(a) \/ AdoptionFails(a)
        PROVE  unanswered' \/ b \in adoptions'
    BY <1>1, <2>1 DEF CheckAdoption, StoreAdoption, AdoptionOver, AdoptionFails, Moves
  <2>2. ASSUME NEW p \in Mentored, Adopt(p)
        PROVE  b \in adoptions'
    BY <2>2 DEF Adopt
  <2>3. unanswered' \/ b \in adoptions'
    BY <2>1, <2>2
    DEF MentorNext, mentorVars, adoptionVars, FetchedAgain, AdoptedElsewhere, Relinquished,
        FetchDashboard, DashboardLost, SetActiveTab, OpenReview, OpenAssistant,
        CancelReview, WriteFeedback, Dispatch, StoreReview, ReviewFails, FetchAIReview,
        Reanalyze, DismissAssistant, InsertIntoForm, AnalysisShown, AnalysisFails
  <2> QED BY <1>1, <2>3 DEF Unshown
<1>2. ASSUME NEW e \in dispatches, e.stage = "stored"
      PROVE  unanswered' \/ Unshown'
  <2>1. ASSUME NEW d \in dispatches, StoreReview(d) \/ ReviewFails(d)
        PROVE  unanswered' \/ e \in dispatches'
    BY <1>2, <2>1 DEF StoreReview, ReviewFails
  <2>2. ASSUME Dispatch
        PROVE  e \in dispatches'
    BY <2>2 DEF Dispatch
  <2>3. unanswered' \/ e \in dispatches'
    BY <2>1, <2>2
    DEF MentorNext, mentorVars, reviewVars, FetchedAgain, AdoptedElsewhere, Relinquished,
        Adopt, CheckAdoption, StoreAdoption, AdoptionOver, AdoptionFails, FetchDashboard, DashboardLost,
        SetActiveTab, OpenReview, OpenAssistant, CancelReview, WriteFeedback, Dispatch,
        FetchAIReview, Reanalyze, DismissAssistant, InsertIntoForm, AnalysisShown,
        AnalysisFails
  <2> QED BY <1>2, <2>3 DEF Unshown
<1> QED BY <1>1, <1>2 DEF Unshown

(* Only a request of this mentor changes what the dashboard must show.        *)
LEMMA Reflected ==
  ASSUME Stores, [MentorNext]_mentorVars, ~Unshown', NEW d, Reflects(d)
  PROVE  Reflects(d)'
<1>1. ASSUME UNCHANGED reviewed,
             \A p \in Mentored : mentorOf'[p] = "me" => mentorOf[p] = "me"
      PROVE  Reflects(d)'
  BY <1>1 DEF Reflects
<1>2. ASSUME NEW a \in adoptions, StoreAdoption(a) PROVE FALSE
  <2> DEFINE moved == [a EXCEPT !.stage = "stored"]
  <2>1. moved.stage = "stored" /\ moved \in adoptions'
    BY <1>2 DEF StoreAdoption, Moves
  <2> QED BY <2>1 DEF Unshown
<1>3. ASSUME NEW e \in dispatches, StoreReview(e) PROVE FALSE
  <2> DEFINE moved == [e EXCEPT !.stage = "stored"]
  <2>1. moved.stage = "stored" /\ moved \in dispatches'
    BY <1>3 DEF StoreReview
  <2> QED BY <2>1 DEF Unshown
<1>4. ASSUME NEW p \in Mentored, AdoptedElsewhere(p) \/ Relinquished(p)
      PROVE  Reflects(d)'
  BY <1>1, <1>4 DEF AdoptedElsewhere, Relinquished, Stores
<1> QED
  BY <1>1, <1>2, <1>3, <1>4
  DEF MentorNext, mentorVars, supervision, FetchDashboard, DashboardLost, SetActiveTab,
      Adopt, CheckAdoption, Adopted, AdoptionOver, AdoptionFails, OpenReview, OpenAssistant, CancelReview,
      WriteFeedback, Dispatch, Reviewed, ReviewFails, FetchAIReview, Reanalyze,
      DismissAssistant, InsertIntoForm, AnalysisShown, AnalysisFails

LEMMA UnansweredStays ==
  ASSUME [MentorNext]_mentorVars, unanswered
  PROVE  unanswered'
BY DEF MentorNext, mentorVars, FetchDashboard, DashboardLost, SetActiveTab, Adopt,
       CheckAdoption, StoreAdoption, AdoptedElsewhere, Relinquished, Adopted, AdoptionOver,
       AdoptionFails, OpenReview,
       OpenAssistant, CancelReview, WriteFeedback, Dispatch, StoreReview, Reviewed,
       ReviewFails, FetchAIReview, Reanalyze, DismissAssistant, InsertIntoForm,
       AnalysisShown, AnalysisFails

LEMMA CurrentNext ==
  ASSUME DeskInv, [MentorNext]_mentorVars
  PROVE  Current'
<1>1. Stores /\ QueryTyped /\ Travelling /\ Loaded /\ Current
  BY DEF DeskInv
<1>2. CASE FetchedAgain
  <2>1. dashboard' = Refetch(dashboard)
    BY <1>2 DEF FetchedAgain, Adopted, Reviewed
  <2>2. dashboard.data # NoData
    BY <1>1, <1>2 DEF FetchedAgain, Loaded
  <2> QED BY <1>1, <2>1, <2>2, Refetched DEF QueryTyped, Dashboards, Current
<1>3. CASE unanswered \/ unanswered'
  BY <1>3, UnansweredStays DEF Current
<1>4. CASE Unshown' \/ (Unshown /\ ~FetchedAgain)
  BY <1>1, <1>3, <1>4, UnshownNext DEF Current
<1>5. CASE ~FetchedAgain /\ ~unanswered /\ ~Unshown /\ ~Unshown'
  <2>1. CASE FetchDashboard
    <3>1. Reflects(DashboardAnswer)'
      <4>1. Reflects(DashboardAnswer)
        BY <1>1, AnswerReflects
      <4> QED BY <2>1, <4>1 DEF FetchDashboard, supervision, Reflects, DashboardAnswer
    <3>2. CASE Asked(dashboard) /\ dashboard' = Reads(dashboard, DashboardAnswer)
      <4>1. DashboardAnswer' = DashboardAnswer
        BY <2>1 DEF FetchDashboard, supervision, DashboardAnswer
      <4>2. Answered(dashboard') /\ dashboard'.seen = DashboardAnswer
        BY <1>1, <3>2 DEF QueryTyped, Dashboards, QueriesOf, Reads, Answered
      <4> QED BY <3>1, <4>1, <4>2 DEF Current
    <3>3. CASE Answered(dashboard) /\ dashboard' = Shows(dashboard)
      <4>1. Reflects(dashboard.seen)
        BY <1>1, <1>5, <3>3 DEF Current, Answered, Asked
      <4>2. dashboard'.fetch = "idle" /\ dashboard'.data = dashboard.seen
        BY <3>3 DEF Shows
      <4>3. Reflects(dashboard.data)'
        BY <2>1, <4>1, <4>2 DEF FetchDashboard, supervision, Reflects
      <4> QED BY <4>2, <4>3 DEF Current
    <3> QED BY <2>1, <3>2, <3>3 DEF FetchDashboard
  <2>2. CASE DashboardLost
    BY <1>1, <2>2 DEF DashboardLost, QueryTyped, Dashboards, QueriesOf, Misses, Current
  <2>3. CASE UNCHANGED dashboard
    <3>1. CASE Asked(dashboard)
      BY <2>3, <3>1 DEF Current
    <3>2. CASE Answered(dashboard) /\ Reflects(dashboard.seen)
      <4>1. Reflects(dashboard.seen)'
        BY <1>1, <1>5, <2>3, <3>2, Reflected
      <4> QED BY <2>3, <3>2, <4>1 DEF Current
    <3>3. CASE dashboard.fetch = "idle" /\ (dashboard.failed \/ Reflects(dashboard.data))
      <4>1. Reflects(dashboard.data) => Reflects(dashboard.data)'
        BY <1>1, <1>5, <2>3, Reflected
      <4> QED BY <2>3, <3>3, <4>1 DEF Current
    <3> QED BY <1>1, <1>5, <3>1, <3>2, <3>3 DEF Current
  <2> QED BY <1>5, <2>1, <2>2, <2>3, QuerySteps
<1> QED BY <1>2, <1>3, <1>4, <1>5

(* However adoptions, reviews, refetches and the adoptions and withdrawals of *)
(* others interleave, the dashboard at rest shows what its mentor did.        *)
THEOREM DeskAtRest == MentorSpec => []DashboardKeepsUp
<1>1. DeskInv /\ [MentorNext]_mentorVars => DeskInv'
  <2> SUFFICES ASSUME DeskInv, [MentorNext]_mentorVars PROVE DeskInv'
    OBVIOUS
  <2> USE DEF DeskInv
  <2>1. AboutOwnPod' BY AboutNext
  <2>2. Stores' BY StoresNext
  <2>3. QueryTyped' BY QueryNext
  <2>4. Travelling' BY TravellingNext
  <2>5. Loaded' BY LoadedNext
  <2>6. Current' BY CurrentNext
  <2> QED BY <2>1, <2>2, <2>3, <2>4, <2>5, <2>6
<1>2. DeskInv => DashboardKeepsUp
  BY DashboardAssumption
  DEF DeskInv, Current, Unshown, Reflects, DashboardKeepsUp, Settled, Supervised,
      Available, Log, Asked, Answered
<1> QED BY <1>1, <1>2, DeskInit, PTL DEF MentorSpec
-------------------------------------------------------------------------------
(* The invitations, and what the requests in flight may hold: the row of a    *)
(* request is one that is committed, and no request marks a row accepted.     *)
Invitations ==
  [by : Senders, status : {"pending", "accepted", "revoked", "expired"}, link : Nat,
   lapsed : BOOLEAN]

Ops ==
  {Free} \cup [op : {"insert"}, by : Senders]
         \cup [op : {"renew"}, row : Written, reopens : BOOLEAN]
         \cup [op : {"mark"}, row : Written, status : {"revoked", "expired"}]
         \cup [op : {"accept"}, row : Written]
         \cup {[op |-> "create"]}

Rowed == invitation \in Seq(Invitations) /\ links \in Nat
Handled == handled \in [Requests -> Ops]

IsAccepted(r) == invitation[r].status = "accepted"

(* That no two acceptances stand rests on the account: there is one address,  *)
(* so that an acceptance needs that nobody holds it yet.                      *)
IsStanding(r) == IsAccepted(r) /\ r \notin former
OneOwner ==
  /\ \A r \in Written : IsStanding(r) => holder = invitation[r].by
  /\ \A r, s \in Written : IsStanding(r) /\ IsStanding(s) => r = s

InviteInv == Rowed /\ Handled /\ OneOwner

LEMMA InviteInit == InvitationInit => InviteInv
BY DEF InvitationInit, InviteInv, Rowed, Handled, OneOwner, IsStanding, Written, Ops,
       Invitations

(* What a step does to the rows: one is added, or one is renewed, marked,     *)
(* accepted or lapses, or they stay as they are.                              *)
RowChange ==
  \/ \E w \in Requests :
       CommitInsert(w) \/ CommitRenewal(w) \/ CommitMark(w) \/ CommitAccept(w)
  \/ \E r \in Written : Lapse(r)
  \/ UNCHANGED invitation

LEMMA RowSteps == ASSUME [InvitationNext]_invitationVars PROVE RowChange
BY DEF InvitationNext, invitationVars, RowChange, LoadInvite, LoadResend, LoadRevoke,
       LoadLapsed, LoadAccept, LoadCreate, Loads, CommitCreate, Fails, DeleteAccount

(* The rows stay, each with its university, and are still rows.               *)
LEMMA RowedNext ==
  ASSUME Rowed, Handled, [InvitationNext]_invitationVars
  PROVE  /\ Rowed' /\ Written \subseteq Written'
         /\ \A r \in Written : invitation'[r].by = invitation[r].by
<1>a. links' = links \/ links' = links + 1
  BY DEF InvitationNext, invitationVars, LoadInvite, LoadResend, LoadRevoke,
         LoadLapsed, LoadAccept, LoadCreate, Loads, CommitInsert, CommitRenewal, CommitMark,
         CommitAccept, CommitCreate, Fails, Lapse, NewLink, DeleteAccount
<1>0. links' \in Nat
  BY <1>a DEF Rowed
<1>b. ASSUME NEW r \in Written PROVE invitation[r] \in Invitations
  BY DEF Rowed, Written
<1>1. ASSUME NEW w \in Requests, CommitInsert(w)
      PROVE  /\ Rowed' /\ Written \subseteq Written'
             /\ \A r \in Written : invitation'[r].by = invitation[r].by
  <2> DEFINE new == [by |-> handled[w].by, status |-> "pending", link |-> links',
                     lapsed |-> FALSE]
  <2>1. new \in Invitations
    BY <1>0, <1>1 DEF CommitInsert, Handled, Ops, Free, Invitations
  <2>2. invitation' = Append(invitation, new)
    BY <1>1 DEF CommitInsert
  <2> HIDE DEF new
  <2> QED BY <1>0, <2>1, <2>2 DEF Rowed, Written
<1>2. ASSUME NEW r \in Written, NEW row \in Invitations, row.by = invitation[r].by,
             invitation' = [invitation EXCEPT ![r] = row]
      PROVE  /\ Rowed' /\ Written \subseteq Written'
             /\ \A x \in Written : invitation'[x].by = invitation[x].by
  BY <1>0, <1>2 DEF Rowed, Written
<1>3. ASSUME NEW w \in Requests, CommitRenewal(w)
      PROVE  /\ Rowed' /\ Written \subseteq Written'
             /\ \A x \in Written : invitation'[x].by = invitation[x].by
  <2>1. handled[w].row \in Written /\ handled[w].reopens \in BOOLEAN
    BY <1>3 DEF CommitRenewal, Handled, Ops, Free
  <2> DEFINE i == invitation[handled[w].row]
  <2>2. i \in Invitations
    BY <2>1 DEF Rowed, Written
  <2> HIDE DEF i
  <2>3. Renewed(i, handled[w].reopens) \in Invitations
        /\ Renewed(i, handled[w].reopens).by = i.by
    BY <1>0, <2>1, <2>2 DEF Renewed, Invitations
  <2>4. invitation' = [invitation EXCEPT ![handled[w].row] = Renewed(i, handled[w].reopens)]
    BY <1>3 DEF CommitRenewal, i
  <2> QED BY <1>2, <2>1, <2>3, <2>4 DEF i
<1>4. ASSUME NEW r \in Written, NEW status \in {"accepted", "revoked", "expired"},
             invitation' = [invitation EXCEPT ![r].status = status]
      PROVE  /\ Rowed' /\ Written \subseteq Written'
             /\ \A x \in Written : invitation'[x].by = invitation[x].by
  <2> DEFINE row == [invitation[r] EXCEPT !.status = status]
  <2>1. row \in Invitations /\ row.by = invitation[r].by
    BY <1>b DEF Invitations
  <2>2. invitation' = [invitation EXCEPT ![r] = row]
    BY <1>4
  <2> QED BY <1>2, <2>1, <2>2
<1>5. ASSUME NEW w \in Requests, CommitMark(w) \/ CommitAccept(w)
      PROVE  /\ Rowed' /\ Written \subseteq Written'
             /\ \A x \in Written : invitation'[x].by = invitation[x].by
  <2>1. handled[w].row \in Written
    BY <1>5 DEF CommitMark, CommitAccept, Handled, Ops, Free
  <2>2. CommitMark(w) => handled[w].status \in {"revoked", "expired"}
    BY DEF CommitMark, Handled, Ops, Free
  <2> QED BY <1>4, <1>5, <2>1, <2>2 DEF CommitMark, CommitAccept
<1>6. ASSUME NEW r \in Written, Lapse(r)
      PROVE  /\ Rowed' /\ Written \subseteq Written'
             /\ \A x \in Written : invitation'[x].by = invitation[x].by
  <2> DEFINE row == [invitation[r] EXCEPT !.lapsed = TRUE]
  <2>1. row \in Invitations /\ row.by = invitation[r].by
    BY <1>b DEF Invitations
  <2>2. invitation' = [invitation EXCEPT ![r] = row]
    BY <1>6 DEF Lapse
  <2> QED BY <1>2, <2>1, <2>2
<1>7. CASE UNCHANGED invitation
  BY <1>0, <1>7 DEF Rowed, Written
<1> QED BY <1>1, <1>3, <1>5, <1>6, <1>7, RowSteps DEF RowChange

(* A step that loads leaves the rows and takes up one request, about a row    *)
(* that is not accepted; every other step ends a request or leaves them.      *)
Taken(w, h) ==
  /\ \/ h.op \in {"insert", "create"}
     \/ h.op \in {"renew", "mark", "accept"} /\ ~IsAccepted(h.row)
  /\ UNCHANGED <<invitation, holder>> /\ handled' = [handled EXCEPT ![w] = h]
TakesUp == \E w \in Requests : \E h \in Ops : Taken(w, h)

LEMMA RequestSteps ==
  ASSUME [InvitationNext]_invitationVars
  PROVE  TakesUp \/ (\E w \in Requests : Ends(w)) \/ UNCHANGED handled
<1>1. ASSUME NEW w \in Requests, NEW h \in Ops, Loads(w, h),
             \/ h.op \in {"insert", "create"}
             \/ h.op \in {"renew", "mark", "accept"} /\ ~IsAccepted(h.row)
      PROVE  TakesUp
  BY <1>1 DEF Loads, TakesUp, Taken
<1>2. ASSUME NEW w \in Requests, NEW r \in Written, NEW b \in BOOLEAN, ~IsAccepted(r),
             Loads(w, Renews(r, b))
      PROVE  TakesUp
  <2>1. Renews(r, b) \in Ops /\ Renews(r, b).op = "renew" /\ Renews(r, b).row = r
    BY DEF Renews, Ops
  <2> QED BY <1>1, <1>2, <2>1
<1>3. ASSUME NEW w \in Requests, NEW r \in Written, NEW status \in {"revoked", "expired"},
             ~IsAccepted(r), Loads(w, Marks(r, status))
      PROVE  TakesUp
  <2>1. Marks(r, status) \in Ops /\ Marks(r, status).op = "mark" /\ Marks(r, status).row = r
    BY DEF Marks, Ops
  <2> QED BY <1>1, <1>3, <2>1
<1>4. ASSUME NEW w \in Requests, NEW u \in Senders, LoadInvite(w, u)
      PROVE  TakesUp
  <2>1. CASE Loads(w, [op |-> "insert", by |-> u])
    BY <1>1, <2>1 DEF Ops
  <2>2. ASSUME NEW r \in Written, PendingOf(u) = {r}, Loads(w, Renews(r, FALSE))
        PROVE  TakesUp
    <3>1. ~IsAccepted(r)
      BY <2>2 DEF PendingOf, IsAccepted
    <3> QED BY <1>2, <2>2, <3>1
  <2> QED BY <1>4, <2>1, <2>2 DEF LoadInvite
<1>5. ASSUME NEW w \in Requests, NEW r \in Written, LoadResend(w, r)
      PROVE  TakesUp
  BY <1>2, <1>5 DEF LoadResend, IsAccepted
<1>6. ASSUME NEW w \in Requests, NEW r \in Written, LoadRevoke(w, r) \/ LoadLapsed(w, r)
      PROVE  TakesUp
  BY <1>3, <1>6 DEF LoadRevoke, LoadLapsed, Opens, IsAccepted
<1>7. ASSUME NEW w \in Requests, NEW r \in Written, LoadAccept(w, r)
      PROVE  TakesUp
  BY <1>1, <1>7 DEF LoadAccept, Opens, IsAccepted, Ops
<1>8. ASSUME NEW w \in Requests, LoadCreate(w)
      PROVE  TakesUp
  BY <1>1, <1>8 DEF LoadCreate, Ops
<1> QED
  BY <1>4, <1>5, <1>6, <1>7, <1>8
  DEF InvitationNext, invitationVars, CommitInsert, CommitRenewal, CommitMark,
      CommitAccept, CommitCreate, Fails, Lapse, NewLink, DeleteAccount

LEMMA HandledNext ==
  ASSUME Rowed, Handled, [InvitationNext]_invitationVars
  PROVE  Handled'
<1>1. Ops \subseteq Ops' /\ Free \in Ops'
  <2>1. Written \subseteq Written'
    BY RowedNext
  <2> QED BY <2>1 DEF Ops
<1>2. ASSUME NEW w \in Requests, NEW h \in Ops', handled' = [handled EXCEPT ![w] = h]
      PROVE  Handled'
  <2>1. handled \in [Requests -> Ops']
    BY <1>1 DEF Handled
  <2> QED BY <1>2, <2>1 DEF Handled
<1>3. CASE TakesUp
  BY <1>1, <1>2, <1>3 DEF TakesUp, Taken
<1>4. CASE \E w \in Requests : Ends(w)
  BY <1>1, <1>2, <1>4 DEF Ends
<1>5. CASE UNCHANGED handled
  BY <1>1, <1>5 DEF Handled
<1> QED BY <1>3, <1>4, <1>5, RequestSteps

(* What is accepted after a step was so before, or is the row the step        *)
(* accepted.                                                                  *)
LEMMA AcceptedSteps ==
  ASSUME Rowed, Handled, RowChange, NEW r \in Written', IsAccepted(r)'
  PROVE  \/ r \in Written /\ IsAccepted(r)
         \/ \E w \in Requests : CommitAccept(w) /\ r = handled[w].row
<1>0. \A x \in Written : invitation[x] \in Invitations
  BY DEF Rowed, Written
<1>1. ASSUME NEW w \in Requests, CommitInsert(w)
      PROVE  r \in Written /\ IsAccepted(r)
  <2> DEFINE new == [by |-> handled[w].by, status |-> "pending", link |-> links',
                     lapsed |-> FALSE]
  <2>1. new.status = "pending" /\ invitation' = Append(invitation, new)
    BY <1>1 DEF CommitInsert
  <2> HIDE DEF new
  <2> QED BY <2>1 DEF Rowed, Written, IsAccepted
<1>2. ASSUME NEW w \in Requests, CommitRenewal(w)
      PROVE  r \in Written /\ IsAccepted(r)
  <2> DEFINE i == invitation[handled[w].row]
  <2>1. handled[w].row \in Written
    BY <1>2 DEF CommitRenewal, Handled, Ops, Free
  <2>2. Renewed(i, handled[w].reopens).status \in {"pending", i.status}
    BY <1>0, <2>1 DEF Renewed, Invitations
  <2>3. invitation' = [invitation EXCEPT ![handled[w].row] = Renewed(i, handled[w].reopens)]
    BY <1>2 DEF CommitRenewal
  <2> QED BY <2>1, <2>2, <2>3 DEF Rowed, Written, IsAccepted
<1>3. ASSUME NEW w \in Requests, CommitMark(w)
      PROVE  r \in Written /\ IsAccepted(r)
  <2>1. handled[w].row \in Written /\ handled[w].status \in {"revoked", "expired"}
    BY <1>3 DEF CommitMark, Handled, Ops, Free
  <2> QED BY <1>0, <1>3, <2>1 DEF CommitMark, Rowed, Written, Invitations, IsAccepted
<1>4. ASSUME NEW w \in Requests, CommitAccept(w)
      PROVE  (r \in Written /\ IsAccepted(r)) \/ r = handled[w].row
  <2>1. handled[w].row \in Written
    BY <1>4 DEF CommitAccept, Handled, Ops, Free
  <2> QED BY <1>0, <1>4, <2>1 DEF CommitAccept, Rowed, Written, Invitations, IsAccepted
<1>5. ASSUME NEW x \in Written, Lapse(x)
      PROVE  r \in Written /\ IsAccepted(r)
  BY <1>0, <1>5 DEF Lapse, Rowed, Written, Invitations, IsAccepted
<1>6. CASE UNCHANGED invitation
  BY <1>6 DEF Written, IsAccepted
<1> QED BY <1>1, <1>2, <1>3, <1>4, <1>5, <1>6 DEF RowChange

LEMMA OneOwnerNext ==
  ASSUME InviteInv, [InvitationNext]_invitationVars
  PROVE  OneOwner'
<1> USE DEF InviteInv
<1>0. \A r \in Written : invitation'[r].by = invitation[r].by /\ invitation[r].by \in Senders
  <2>1. \A r \in Written : invitation[r] \in Invitations
    BY DEF Rowed, Written
  <2> QED BY <2>1, RowedNext DEF Invitations
<1>1. ASSUME NEW w \in Requests, CommitAccept(w)
      PROVE  OneOwner'
  <2>1. holder = "none" /\ holder' = invitation[handled[w].row].by
    BY <1>1 DEF CommitAccept, AddressFree
  <2>2. \A r \in Written : ~IsStanding(r)
    BY <1>0, <2>1, SendersAssumption DEF OneOwner
  <2>3. handled[w].row \in Written
    BY <1>1 DEF CommitAccept, Handled, Ops, Free
  <2>4. \A r \in Written' : IsStanding(r)' => r = handled[w].row
    <3> SUFFICES ASSUME NEW r \in Written', IsStanding(r)', r # handled[w].row PROVE FALSE
      OBVIOUS
    <3>1. r \in Written /\ invitation'[r] = invitation[r]
      BY <1>1 DEF CommitAccept, Written, Rowed
    <3>2. r \notin former
      BY <1>1 DEF CommitAccept, IsStanding
    <3> QED BY <2>2, <3>1, <3>2 DEF IsStanding, IsAccepted
  <2> QED BY <1>0, <2>1, <2>3, <2>4 DEF OneOwner
<1>2. ASSUME \A w \in Requests : ~CommitAccept(w), UNCHANGED former,
             UNCHANGED holder \/ holder = "none"
      PROVE  OneOwner'
  <2>1. \A r \in Written' : IsStanding(r)' => r \in Written /\ IsStanding(r)
    BY <1>2, AcceptedSteps, RowSteps DEF IsStanding
  <2>2. holder = "none" => \A r \in Written : ~IsStanding(r)
    BY <1>0, SendersAssumption DEF OneOwner
  <2> QED BY <1>0, <1>2, <2>1, <2>2 DEF OneOwner
<1>3. CASE DeleteAccount
  BY <1>3 DEF DeleteAccount, Accepted, OneOwner, IsStanding, IsAccepted, Written
<1>4. ASSUME \A w \in Requests : ~CommitAccept(w), ~DeleteAccount
      PROVE  UNCHANGED former /\ (UNCHANGED holder \/ holder = "none")
  BY <1>4
  DEF InvitationNext, invitationVars, LoadInvite, LoadResend, LoadRevoke, LoadLapsed,
      LoadAccept, LoadCreate, Loads, CommitInsert, CommitRenewal, CommitMark,
      CommitCreate, AddressFree, Fails, Lapse
<1> QED BY <1>1, <1>2, <1>3, <1>4

LEMMA InviteNext == InviteInv /\ [InvitationNext]_invitationVars => InviteInv'
BY RowedNext, HandledNext, OneOwnerNext DEF InviteInv

(* For any number of universities, requests, links and deletions of the       *)
(* account: one acceptance at most stands, and the account is that of its     *)
(* university.                                                                *)
THEOREM OneAcceptance == InvitationSpec => []AcceptedOwns
<1>1. InviteInv => AcceptedOwns
  <2> SUFFICES ASSUME InviteInv PROVE AcceptedOwns
    OBVIOUS
  <2>1. \A r \in Standing : Standing = {r} /\ holder = invitation[r].by
    BY DEF InviteInv, OneOwner, IsStanding, IsAccepted, Standing, Accepted
  <2>2. Cardinality(Standing) <= 1
    <3>1. CASE Standing = {}
      BY <3>1, FS_EmptySet
    <3>2. CASE \E r \in Standing : TRUE
      <4> PICK r \in Standing : TRUE
        BY <3>2
      <4>1. Cardinality({r}) = 1
        BY FS_Singleton
      <4>2. Standing = {r}
        BY <2>1
      <4> QED BY <4>1, <4>2
    <3> QED BY <3>1, <3>2
  <2> QED BY <2>1, <2>2 DEF AcceptedOwns
<1> QED BY <1>1, InviteInit, InviteNext, PTL DEF InvitationSpec

(* An acceptance that no request in flight can undo is for good.              *)
THEOREM AcceptanceKept == InvitationSpec => AcceptanceLasts
<1>1. ASSUME InviteInv, InvitationNext, NEW r \in Written, AcceptedForGood(r)
      PROVE  AcceptedForGood(r)'
  <2> USE DEF InviteInv
  <2>0. IsAccepted(r) /\ invitation[r] \in Invitations
    BY <1>1 DEF AcceptedForGood, IsAccepted, Rowed, Written
  <2>1. \A w \in Requests : handled[w].op \in {"renew", "mark"} => handled[w].row # r
    BY <1>1 DEF AcceptedForGood
  <2>2. IsAccepted(r)'
    <3>1. ASSUME NEW w \in Requests, CommitInsert(w) PROVE IsAccepted(r)'
      BY <1>1, <2>0, <3>1 DEF CommitInsert, Rowed, Written, IsAccepted
    <3>2. ASSUME NEW w \in Requests, CommitRenewal(w) \/ CommitMark(w)
          PROVE  IsAccepted(r)'
      BY <1>1, <2>0, <2>1, <3>2 DEF CommitRenewal, CommitMark, Written, IsAccepted, Rowed
    <3>3. ASSUME NEW w \in Requests, CommitAccept(w) PROVE IsAccepted(r)'
      BY <1>1, <2>0, <3>3 DEF CommitAccept, Written, IsAccepted, Rowed, Invitations
    <3>4. ASSUME NEW x \in Written, Lapse(x) PROVE IsAccepted(r)'
      BY <1>1, <2>0, <3>4 DEF Lapse, Written, IsAccepted, Rowed, Invitations
    <3>5. CASE UNCHANGED invitation
      BY <2>0, <3>5 DEF IsAccepted
    <3> QED BY <1>1, <3>1, <3>2, <3>3, <3>4, <3>5, RowSteps DEF RowChange
  <2>3. ASSUME NEW w \in Requests, handled'[w].op \in {"renew", "mark"}
        PROVE  handled'[w].row # r
    <3>1. CASE handled'[w] = handled[w]
      BY <2>1, <2>3, <3>1
    <3>2. ASSUME NEW v \in Requests, Ends(v), handled'[w] # handled[w] PROVE FALSE
      BY <1>1, <2>3, <3>2 DEF Ends, Handled, Free
    <3>3. ASSUME NEW v \in Requests, NEW h \in Ops, Taken(v, h), handled'[w] # handled[w]
          PROVE  handled'[w].row # r
      BY <1>1, <2>0, <2>3, <3>3 DEF Taken, Handled
    <3> QED BY <1>1, <3>1, <3>2, <3>3, RequestSteps DEF TakesUp
  <2> QED BY <2>2, <2>3 DEF AcceptedForGood, IsAccepted
<1> DEFINE Kept == \A r \in Written : AcceptedForGood(r) => AcceptedForGood(r)'
<1>2. InviteInv /\ [InvitationNext]_invitationVars => [Kept]_invitationVars
  BY <1>1
<1> QED BY <1>2, InviteInit, InviteNext, PTL DEF InvitationSpec, AcceptanceLasts
-------------------------------------------------------------------------------
(* The profile page: its types, and that a field of the stored profile is     *)
(* under way to every part that shows it.  A call whose change is stored and  *)
(* not yet followed by a refetch is one that still undoes the difference.     *)
Texts == ProfileTexts \cup {Empty}
Photographic == {"patch", "patched", "again"}
Calls ==
  [kind : {"save", "photo"}, stage : {"sent", "stored", "over"} \cup Photographic,
   text : Texts, tags : SUBSET Tags, photo : Photos, answer : Profiles \cup {NoData}]

Sound(c) ==
  /\ c \in Calls
  /\ c.stage \in {"stored", "patched"} => c.answer \in Profiles
  /\ c.stage \in Photographic => c.kind = "photo"

PageTyped ==
  /\ view \in {"citizen", "student", "faculty", "shared"}
  /\ server \in Profiles
  /\ dialog \in [open : BOOLEAN, text : Texts, tags : SUBSET Tags]
CallsTyped == calls \in Seq(Calls) /\ \A i \in DOMAIN calls : Sound(calls[i])
CacheTyped ==
  /\ cache \in [Mounted -> QueriesOf(Profiles)]
  /\ \A k \in Mounted : Answered(cache[k]) => cache[k].seen \in Profiles

Doing(c, f) ==
  /\ c.kind = IF f = "photo" THEN "photo" ELSE "save"
  /\ c.stage \in {"stored", "patch", "patched"}

InSight(f, k) ==
  \/ \E i \in DOMAIN calls : Doing(calls[i], f)
  \/ Asked(cache[k])
  \/ Answered(cache[k]) /\ cache[k].seen[f] = server[f]
  \/ cache[k].fetch = "idle" /\ (cache[k].failed \/ cache[k].data[f] = server[f])

Agrees == unheard \/ \A s \in Shown : InSight(s[1], s[2])

ProfileInv == PageTyped /\ CallsTyped /\ CacheTyped /\ Agrees

(* In every view, what is shown of a field is fetched again by each kind of   *)
(* change to it, and an answer is only put where a fetch follows.             *)
LEMMA ViewFacts ==
  ASSUME PageTyped
  PROVE  /\ Own \in Mounted /\ "bar" \in Mounted
         /\ SaveSets \subseteq SaveRefetches /\ PhotoSets \subseteq PhotoRefetches
         /\ \A s \in Shown :
              /\ s[1] \in {"text", "tags", "photo"} /\ s[2] \in Mounted
              /\ s[1] = "photo" => s[2] \in PhotoRefetches
              /\ s[1] # "photo" => s[2] \in SaveRefetches
<1> USE DEF Own, Mounted, SaveSets, SaveRefetches, PhotoSets, PhotoRefetches, Shown, TopBar
<1>1. CASE view = "citizen"
  BY <1>1 DEF CitizenHeader, CitizenDetails
<1>2. CASE view = "student"
  BY <1>2 DEF StudentHeader, StudentSkills
<1>3. CASE view = "faculty"
  BY <1>3 DEF FacultyHeader
<1>4. CASE view = "shared"
  BY <1>4 DEF SharedHeader
<1> QED BY <1>1, <1>2, <1>3, <1>4 DEF PageTyped

LEMMA ClosedPast ==
  /\ Closed \in [open : BOOLEAN, text : Texts, tags : SUBSET Tags]
  /\ Sound(Past) /\ Past.stage = "over"
BY ProfileAssumption DEF Closed, Past, Call, Sound, Calls, Texts, Photographic

LEMMA ProfileStart == ProfileInit => ProfileInv
<1> SUFFICES ASSUME ProfileInit PROVE ProfileInv
  OBVIOUS
<1>1. PageTyped
  BY ProfileAssumption, ClosedPast DEF ProfileInit, PageTyped, Profiles, Texts
<1>2. CallsTyped
  BY DEF ProfileInit, CallsTyped
<1>3. CacheTyped /\ \A k \in Mounted : Asked(cache[k])
  BY DEF ProfileInit, CacheTyped, Opened, QueriesOf, Answered, Asked
<1>4. Agrees
  BY <1>1, <1>3, ViewFacts DEF Agrees, InSight
<1> QED BY <1>1, <1>2, <1>3, <1>4 DEF ProfileInv

(* The server takes over what a call sends, and only the fields of its kind.  *)
LEMMA PatchedFields ==
  ASSUME PageTyped, NEW c \in Calls
  PROVE  /\ Patched(c) \in Profiles
         /\ c.kind = "photo" => Patched(c).text = server.text /\ Patched(c).tags = server.tags
         /\ c.kind = "save" => Patched(c).photo = server.photo
<1>1. CASE c.kind = "photo"
  BY <1>1 DEF Patched, PageTyped, Profiles, Calls
<1>2. CASE c.kind # "photo"
  <2> DEFINE t == IF c.text = Empty THEN server.text ELSE c.text
             g == IF "tags" \in Fields THEN c.tags ELSE server.tags
  <2>1. t \in Texts /\ g \in SUBSET Tags
    BY DEF PageTyped, Profiles, Calls, Texts
  <2>2. Patched(c) = [server EXCEPT !.text = t, !.tags = g]
    BY <1>2 DEF Patched, PageTyped, Profiles
  <2> HIDE DEF t, g
  <2> QED BY <1>2, <2>1, <2>2 DEF PageTyped, Profiles, Texts
<1> QED BY <1>1, <1>2

LEMMA PageTypedNext ==
  ASSUME PageTyped, CallsTyped, CacheTyped, [ProfileNext]_profileVars
  PROVE  PageTyped'
<1>1. CASE OpenEdit
  <2>1. cache[Own].data \in Profiles
    BY <1>1, ViewFacts DEF OpenEdit, CacheTyped, QueriesOf
  <2> QED BY <1>1, <2>1 DEF OpenEdit, PageTyped, Profiles, Texts
<1>2. ASSUME NEW t \in Texts, EditText(t) PROVE PageTyped'
  BY <1>2 DEF EditText, PageTyped
<1>3. ASSUME NEW g \in Tags, ToggleTag(g) PROVE PageTyped'
  BY <1>3 DEF ToggleTag, PageTyped
<1>4. ASSUME NEW i \in DOMAIN calls, Process(i) PROVE PageTyped'
  <2>1. calls[i] \in Calls
    BY DEF CallsTyped, Sound
  <2> QED BY <1>4, <2>1, PatchedFields DEF Process, PageTyped
<1>5. ASSUME dialog' \in {Closed, dialog}, UNCHANGED <<view, server>> PROVE PageTyped'
  BY <1>5, ClosedPast DEF PageTyped
<1> QED
  BY <1>1, <1>2, <1>3, <1>4, <1>5
  DEF ProfileNext, profileVars, Texts, CancelEdit, SaveProfile, Save, PickPhoto, Settle,
      Saved, Uploaded, PhotoPatched, PhotoSettled, FailCall, Fetch, MissFetch

(* The calls change one at a time, or one is added.                           *)
Added(c) == calls' = Append(calls, c)
Becomes(i, c) == calls' = [calls EXCEPT ![i] = c]

LEMMA CallAdded ==
  ASSUME CallsTyped, NEW c, Sound(c), Added(c)
  PROVE  /\ CallsTyped' /\ DOMAIN calls \subseteq DOMAIN calls'
         /\ \A i \in DOMAIN calls : calls'[i] = calls[i]
BY DEF CallsTyped, Added, Sound

LEMMA CallBecomes ==
  ASSUME CallsTyped, NEW i \in DOMAIN calls, NEW c, Sound(c), Becomes(i, c)
  PROVE  /\ CallsTyped' /\ DOMAIN calls' = DOMAIN calls /\ calls'[i] = c
         /\ \A x \in DOMAIN calls : x # i => calls'[x] = calls[x]
BY DEF CallsTyped, Becomes, Sound

LEMMA Sends ==
  ASSUME PageTyped, SaveProfile \/ \E p \in Photos : PickPhoto(p)
  PROVE  \E c : Sound(c) /\ Added(c)
<1>1. CASE SaveProfile
  <2> DEFINE c == Call("save", dialog, FirstPhoto)
  <2>1. Sound(c)
    BY ProfileAssumption DEF Call, Sound, Calls, PageTyped, Photographic
  <2>2. Added(c)
    BY <1>1 DEF SaveProfile, Save, Added
  <2> QED BY <2>1, <2>2
<1>2. ASSUME NEW p \in Photos, PickPhoto(p) PROVE \E c : Sound(c) /\ Added(c)
  <2> DEFINE c == Call("photo", Closed, p)
  <2>1. Sound(c)
    BY ClosedPast DEF Call, Sound, Calls, Photographic
  <2>2. Added(c)
    BY <1>2 DEF PickPhoto, Added
  <2> QED BY <2>1, <2>2
<1> QED BY <1>1, <1>2

LEMMA Processes ==
  ASSUME PageTyped, CallsTyped, NEW i \in DOMAIN calls, Process(i)
  PROVE  \E c : /\ Sound(c) /\ Becomes(i, c)
                /\ c.kind = calls[i].kind /\ c.stage \in {"stored", "patched"}
<1> DEFINE next == IF calls[i].stage = "sent" THEN "stored" ELSE "patched"
           c == [calls[i] EXCEPT !.answer = server', !.stage = next]
<1>1. Sound(calls[i]) /\ calls[i] \in Calls
  BY DEF CallsTyped, Sound
<1>2. server' \in Profiles
  BY <1>1, PatchedFields DEF Process
<1>3. Sound(c) /\ c.kind = calls[i].kind /\ c.stage = next
  BY <1>1, <1>2 DEF Process, Sound, Calls, Photographic
<1>4. Becomes(i, c)
  BY <1>1 DEF Process, Becomes, CallsTyped, Calls
<1> QED BY <1>3, <1>4

LEMMA Uploads ==
  ASSUME CallsTyped, NEW i \in DOMAIN calls, Uploaded(i), view # "student"
  PROVE  \E c : /\ Sound(c) /\ Becomes(i, c) /\ c.kind = "photo" /\ c.stage = "patch"
<1> DEFINE c == [calls[i] EXCEPT !.stage = "patch", !.answer = NoData]
<1>1. calls[i] \in Calls /\ calls[i].kind = "photo"
  BY DEF CallsTyped, Sound, Uploaded
<1>2. Sound(c) /\ c.kind = "photo" /\ c.stage = "patch"
  BY <1>1 DEF Sound, Calls, Photographic
<1>3. Becomes(i, c)
  BY <1>1 DEF Uploaded, Becomes
<1> QED BY <1>2, <1>3

(* A call whose changes the page has dealt with, or that failed.              *)
LEMMA Finishes ==
  ASSUME CallsTyped, NEW i \in DOMAIN calls,
         \/ Saved(i) \/ PhotoPatched(i) \/ PhotoSettled(i) \/ FailCall(i)
         \/ Uploaded(i) /\ view = "student"
  PROVE  \E c : Sound(c) /\ Becomes(i, c) /\ c.stage \in {"again", "over"}
<1> DEFINE again == [calls[i] EXCEPT !.answer = NoData, !.stage = "again"]
<1>1. Sound(Past) /\ Past.stage = "over"
  BY ClosedPast
<1>2. Sound(calls[i]) /\ calls[i] \in Calls
  BY DEF CallsTyped, Sound
<1>3. calls[i].stage = "patched" => Sound(again) /\ again.stage = "again"
  BY <1>2 DEF Sound, Calls, Photographic
<1>4. CASE PhotoPatched(i)
  <2>1. calls[i].stage = "patched" /\ Becomes(i, IF view = "citizen" THEN Past ELSE again)
    BY <1>4 DEF PhotoPatched, Becomes
  <2> QED BY <1>1, <1>3, <2>1
<1>5. Becomes(i, Past) \/ PhotoPatched(i)
  BY DEF Becomes, Saved, Uploaded, PhotoSettled, FailCall
<1> QED BY <1>1, <1>4, <1>5

LEMMA CallsTypedNext ==
  ASSUME PageTyped, CallsTyped, [ProfileNext]_profileVars
  PROVE  CallsTyped'
<1>1. ASSUME NEW i \in DOMAIN calls, Settle(i) PROVE CallsTyped'
  <2>1. CASE Process(i)
    BY <2>1, Processes, CallBecomes
  <2>2. CASE Uploaded(i)
    <3>1. CASE view = "student"
      BY <2>2, <3>1, Finishes, CallBecomes
    <3>2. CASE view # "student"
      BY <2>2, <3>2, Uploads, CallBecomes
    <3> QED BY <3>1, <3>2
  <2>3. CASE Saved(i) \/ PhotoPatched(i) \/ PhotoSettled(i) \/ FailCall(i)
    <3>1. \E c : Sound(c) /\ Becomes(i, c)
      BY <2>3, Finishes
    <3> QED BY <3>1, CallBecomes
  <2> QED BY <1>1, <2>1, <2>2, <2>3 DEF Settle
<1>2. CASE SaveProfile \/ \E p \in Photos : PickPhoto(p)
  BY <1>2, Sends, CallAdded
<1>3. CASE UNCHANGED calls
  BY <1>3 DEF CallsTyped
<1> QED
  BY <1>1, <1>2, <1>3
  DEF ProfileNext, profileVars, OpenEdit, EditText, ToggleTag, CancelEdit, Fetch, MissFetch

(* What becomes of the queries that an answer is put into and that are then   *)
(* fetched again.                                                             *)
LEMMA CacheRefetched ==
  ASSUME CacheTyped, NEW puts, NEW keys, NEW d, puts # {} => d \in Profiles,
         cache' = RefetchAll(SetData(cache, puts, d), keys), UNCHANGED view
  PROVE  /\ CacheTyped'
         /\ \A k \in Mounted : k \notin puts /\ k \notin keys => cache'[k] = cache[k]
         /\ \A k \in Mounted \cap keys : cache[k].data # NoData => Asked(cache'[k])
         /\ \A k \in Mounted : k \notin puts => cache'[k] = cache[k] \/ Asked(cache'[k])
<1>1. Mounted' = Mounted
  BY DEF Mounted, Own
<1> DEFINE put(k) == IF k \in puts THEN [cache[k] EXCEPT !.data = d, !.failed = FALSE]
                     ELSE cache[k]
<1>2. DOMAIN cache = Mounted /\ \A k \in Mounted : cache[k] \in QueriesOf(Profiles)
  BY DEF CacheTyped
<1>3. \A k \in Mounted : cache'[k] = IF k \in keys THEN Refetch(put(k)) ELSE put(k)
  BY <1>2 DEF RefetchAll, SetData
<1>4. cache' = [k \in Mounted |-> cache'[k]]
  BY <1>2 DEF RefetchAll, SetData
<1>5. ASSUME NEW k \in Mounted
      PROVE  /\ put(k) \in QueriesOf(Profiles)
             /\ Answered(put(k)) => put(k).seen \in Profiles
             /\ cache[k].data # NoData => put(k).data # NoData
  <2>1. CASE k \in puts
    BY <1>2, <2>1, ProfileAssumption DEF QueriesOf, Answered, CacheTyped
  <2>2. CASE k \notin puts
    BY <1>2, <2>2 DEF CacheTyped
  <2> QED BY <2>1, <2>2
<1>6. ASSUME NEW k \in Mounted
      PROVE  /\ cache'[k] \in QueriesOf(Profiles)
             /\ Answered(cache'[k]) => cache'[k].seen \in Profiles
             /\ k \in keys /\ cache[k].data # NoData => Asked(cache'[k])
             /\ cache'[k] = put(k) \/ Asked(cache'[k])
  <2> DEFINE q == put(k)
  <2>1. q \in QueriesOf(Profiles) /\ (Answered(q) => q.seen \in Profiles)
        /\ (cache[k].data # NoData => q.data # NoData)
    BY <1>5
  <2>2. cache'[k] = IF k \in keys THEN Refetch(q) ELSE q
    BY <1>3
  <2> HIDE DEF q
  <2>3. /\ cache'[k] \in QueriesOf(Profiles)
        /\ Answered(cache'[k]) => cache'[k].seen \in Profiles
        /\ k \in keys /\ cache[k].data # NoData => Asked(cache'[k])
        /\ cache'[k] = q \/ Asked(cache'[k])
    BY <2>1, <2>2, Refetched
  <2> QED BY <2>3 DEF q
<1> HIDE DEF put
<1>7. CacheTyped'
  BY <1>1, <1>4, <1>6 DEF CacheTyped
<1> QED BY <1>3, <1>6, <1>7 DEF put

(* The refetches of a step that leaves the data alone.                        *)
LEMMA NothingPut ==
  ASSUME CacheTyped, NEW keys
  PROVE  RefetchAll(cache, keys) = RefetchAll(SetData(cache, {}, NoData), keys)
BY DEF CacheTyped, RefetchAll, SetData

LEMMA CacheTypedNext ==
  ASSUME PageTyped, CallsTyped, CacheTyped, [ProfileNext]_profileVars
  PROVE  CacheTyped'
<1>0. view' = view
  BY DEF ProfileNext, profileVars, OpenEdit, EditText, ToggleTag, CancelEdit, SaveProfile,
         Save, PickPhoto, Settle, Process, Saved, Uploaded, PhotoPatched, PhotoSettled,
         FailCall, Fetch, MissFetch
<1>1. Mounted' = Mounted
  BY <1>0 DEF Mounted, Own
<1>2. ASSUME NEW i \in DOMAIN calls, Saved(i) \/ PhotoPatched(i)
      PROVE  CacheTyped'
  <2>1. calls[i].answer \in Profiles
    BY <1>2 DEF CallsTyped, Sound, Saved, PhotoPatched
  <2> QED BY <1>0, <1>2, <2>1, CacheRefetched DEF Saved, PhotoPatched
<1>3. ASSUME NEW keys, cache' = RefetchAll(cache, keys)
      PROVE  CacheTyped'
  BY <1>0, <1>3, CacheRefetched, NothingPut
<1>4. ASSUME NEW k \in Mounted, NEW q \in QueriesOf(Profiles),
             Answered(q) => q.seen \in Profiles, cache' = [cache EXCEPT ![k] = q]
      PROVE  CacheTyped'
  BY <1>1, <1>4 DEF CacheTyped
<1>5. ASSUME NEW k \in Mounted, Fetch(k) \/ MissFetch(k)
      PROVE  CacheTyped'
  <2>1. cache[k] \in QueriesOf(Profiles) /\ (Answered(cache[k]) => cache[k].seen \in Profiles)
    BY DEF CacheTyped
  <2>2. CASE cache' = [cache EXCEPT ![k] = Reads(@, server)] /\ Asked(cache[k])
    BY <1>4, <2>1, <2>2 DEF PageTyped, Reads, QueriesOf
  <2>3. CASE cache' = [cache EXCEPT ![k] = Shows(@)] /\ Answered(cache[k])
    BY <1>4, <2>1, <2>3 DEF Shows, QueriesOf, Answered
  <2>4. CASE cache' = [cache EXCEPT ![k] = Misses(@)]
    BY <1>4, <2>1, <2>4 DEF Misses, QueriesOf, Answered
  <2> QED BY <1>5, <2>2, <2>3, <2>4 DEF Fetch, MissFetch
<1>6. CASE UNCHANGED cache
  BY <1>1, <1>6 DEF CacheTyped
<1> QED
  BY <1>2, <1>3, <1>5, <1>6
  DEF ProfileNext, profileVars, OpenEdit, EditText, ToggleTag, CancelEdit, SaveProfile,
      Save, PickPhoto, Settle, Process, Uploaded, PhotoSettled, FailCall

(* What is under way for a field stays so until a step that ends its call.    *)
UnderWay(f) == \E i \in DOMAIN calls : Doing(calls[i], f)

(* Of one kind of call, whose end has the queries "keys" fetched again, with  *)
(* nothing missed: the fields of that kind are shown by these queries.        *)
LEMMA EndInSight ==
  ASSUME ProfileInv, NEW i \in DOMAIN calls, NEW c, Sound(c), Becomes(i, c),
         NEW puts, NEW keys, puts \subseteq keys, NEW d, puts # {} => d \in Profiles,
         cache' = RefetchAll(SetData(cache, puts, d), keys),
         UNCHANGED <<view, server>>, ~Unread, NEW s \in Shown,
         Doing(calls[i], s[1]) => s[2] \in keys, InSight(s[1], s[2])
  PROVE  InSight(s[1], s[2])'
<1>1. s[2] \in Mounted /\ cache[s[2]].data # NoData
  BY ViewFacts DEF ProfileInv, Unread
<1>2. CASE s[2] \in keys
  BY <1>1, <1>2, CacheRefetched DEF ProfileInv, InSight
<1>3. CASE s[2] \notin keys
  <2>1. cache'[s[2]] = cache[s[2]]
    BY <1>1, <1>3, CacheRefetched DEF ProfileInv
  <2>2. UnderWay(s[1]) => UnderWay(s[1])'
    BY <1>3, CallBecomes DEF ProfileInv, UnderWay
  <2> QED BY <2>1, <2>2 DEF InSight, UnderWay
<1> QED BY <1>2, <1>3

LEMMA SettleInSight ==
  ASSUME ProfileInv, NEW i \in DOMAIN calls, Settle(i), ~unheard',
         NEW s \in Shown, InSight(s[1], s[2])
  PROVE  InSight(s[1], s[2])'
<1> DEFINE f == s[1]
           k == s[2]
<1>0. PageTyped /\ CallsTyped /\ CacheTyped /\ Sound(calls[i]) /\ k \in Mounted
      /\ f \in {"text", "tags", "photo"}
  BY ViewFacts DEF ProfileInv, CallsTyped
<1>1. CASE Process(i)
  <2>1. PICK c : Sound(c) /\ Becomes(i, c)
                 /\ c.kind = calls[i].kind /\ c.stage \in {"stored", "patched"}
    BY <1>0, <1>1, Processes
  <2>2. DOMAIN calls' = DOMAIN calls /\ calls'[i] = c
        /\ \A x \in DOMAIN calls : x # i => calls'[x] = calls[x]
    BY <1>0, <2>1, CallBecomes
  <2>3. UNCHANGED cache
    BY <1>1 DEF Process
  <2>4. CASE c.kind = IF f = "photo" THEN "photo" ELSE "save"
    BY <2>1, <2>2, <2>4 DEF InSight, Doing
  <2>5. CASE c.kind # IF f = "photo" THEN "photo" ELSE "save"
    <3>1. server'[f] = server[f]
      BY <1>0, <1>1, <2>1, <2>5, PatchedFields DEF Process, Sound, Calls
    <3>2. UnderWay(f) => UnderWay(f)'
      BY <2>1, <2>2, <2>5 DEF UnderWay, Doing
    <3> QED BY <2>3, <3>1, <3>2 DEF InSight, UnderWay
  <2> QED BY <2>4, <2>5
<1>2. CASE Saved(i)
  <2>1. \E c : Sound(c) /\ Becomes(i, c)
    BY <1>0, <1>2, Finishes
  <2>2. /\ cache' = RefetchAll(SetData(cache, SaveSets, calls[i].answer), SaveRefetches)
        /\ calls[i].answer \in Profiles /\ ~Unread /\ UNCHANGED <<view, server>>
    BY <1>0, <1>2 DEF Saved, Sound
  <2>3. SaveSets \subseteq SaveRefetches /\ (Doing(calls[i], f) => k \in SaveRefetches)
    BY <1>0, <1>2, ViewFacts DEF Saved, Doing
  <2> QED BY <2>1, <2>2, <2>3, EndInSight
<1>3. CASE Uploaded(i) /\ view = "student"
  <2>1. \E c : Sound(c) /\ Becomes(i, c)
    BY <1>0, <1>3, Finishes
  <2>2. /\ cache' = RefetchAll(SetData(cache, {}, NoData), PhotoRefetches)
        /\ ~Unread /\ UNCHANGED <<view, server>>
    BY <1>0, <1>3, NothingPut DEF Uploaded
  <2>3. Doing(calls[i], f) => k \in PhotoRefetches
    BY <1>0, <1>3, ViewFacts DEF Uploaded, Doing
  <2> QED BY <2>1, <2>2, <2>3, EndInSight
<1>4. CASE PhotoPatched(i)
  <2>1. \E c : Sound(c) /\ Becomes(i, c)
    BY <1>0, <1>4, Finishes
  <2>2. /\ cache' = RefetchAll(SetData(cache, PhotoSets, calls[i].answer), PhotoRefetches)
        /\ calls[i].answer \in Profiles /\ ~Unread /\ UNCHANGED <<view, server>>
    BY <1>0, <1>4 DEF PhotoPatched, Sound
  <2>3. PhotoSets \subseteq PhotoRefetches /\ (Doing(calls[i], f) => k \in PhotoRefetches)
    BY <1>0, <1>4, ViewFacts DEF PhotoPatched, Doing, Sound, Photographic
  <2> QED BY <2>1, <2>2, <2>3, EndInSight
<1>5. ASSUME NEW c, Sound(c), Becomes(i, c), \A g : Doing(calls[i], g) => Doing(c, g),
             UNCHANGED server, UNCHANGED cache[k] \/ Asked(cache'[k])
      PROVE  InSight(s[1], s[2])'
  <2>1. UnderWay(f) => UnderWay(f)'
    BY <1>0, <1>5, CallBecomes DEF UnderWay
  <2> QED BY <1>5, <2>1 DEF InSight, UnderWay
<1>6. CASE Uploaded(i) /\ view # "student"
  <2>1. PICK c : Sound(c) /\ Becomes(i, c) /\ c.kind = "photo" /\ c.stage = "patch"
    BY <1>0, <1>6, Uploads
  <2>2. calls[i].kind = "photo" /\ UNCHANGED <<server, cache>>
    BY <1>6 DEF Uploaded
  <2> QED BY <1>5, <2>1, <2>2 DEF Doing
<1>7. CASE PhotoSettled(i) \/ FailCall(i)
  <2>1. PICK c : Sound(c) /\ Becomes(i, c)
    BY <1>0, <1>7, Finishes
  <2>2. calls[i].stage \in {"again", "sent"} /\ UNCHANGED server
    BY <1>7 DEF PhotoSettled, FailCall
  <2>3. UNCHANGED cache[k] \/ Asked(cache'[k])
    <3>1. CASE PhotoSettled(i)
      BY <1>0, <3>1, NothingPut, CacheRefetched DEF PhotoSettled
    <3>2. CASE FailCall(i)
      BY <3>2 DEF FailCall
    <3> QED BY <1>7, <3>1, <3>2
  <2> QED BY <1>5, <2>1, <2>2, <2>3 DEF Doing
<1> QED BY <1>1, <1>2, <1>3, <1>4, <1>6, <1>7 DEF Settle

LEMMA FetchInSight ==
  ASSUME ProfileInv, NEW k \in Mounted, Fetch(k) \/ MissFetch(k),
         NEW s \in Shown, InSight(s[1], s[2])
  PROVE  InSight(s[1], s[2])'
<1>0. /\ s[2] \in Mounted /\ cache \in [Mounted -> QueriesOf(Profiles)]
      /\ UNCHANGED <<server, calls>>
  BY ViewFacts DEF ProfileInv, CacheTyped, Fetch, MissFetch
<1>1. CASE k # s[2]
  <2>1. cache'[s[2]] = cache[s[2]]
    BY <1>0, <1>1 DEF Fetch, MissFetch
  <2> QED BY <1>0, <2>1 DEF InSight
<1>2. CASE k = s[2]
  <2> DEFINE q == cache[k]
  <2>1. q \in QueriesOf(Profiles)
    BY <1>0
  <2>2. CASE cache'[k] = Reads(q, server)
    <3>1. Answered(cache'[k]) /\ cache'[k].seen = server
      BY <2>1, <2>2 DEF Reads, QueriesOf, Answered
    <3> QED BY <1>0, <1>2, <3>1 DEF InSight
  <2>3. CASE Answered(q) /\ cache'[k] = Shows(q)
    <3>1. cache'[k].fetch = "idle" /\ cache'[k].data = q.seen
      BY <2>3 DEF Shows
    <3> QED BY <1>0, <1>2, <2>3, <3>1 DEF InSight, Answered, Asked
  <2>4. CASE cache'[k] = Misses(q)
    <3>1. cache'[k].fetch = "idle" /\ cache'[k].failed
      BY <2>1, <2>4 DEF Misses, QueriesOf
    <3> QED BY <1>2, <3>1 DEF InSight
  <2> QED BY <1>0, <2>2, <2>3, <2>4 DEF Fetch, MissFetch
<1> QED BY <1>1, <1>2

LEMMA AgreesNext ==
  ASSUME ProfileInv, [ProfileNext]_profileVars
  PROVE  Agrees'
<1>a. view' = view
  BY DEF ProfileNext, profileVars, OpenEdit, EditText, ToggleTag, CancelEdit, SaveProfile,
         Save, PickPhoto, Settle, Process, Saved, Uploaded, PhotoPatched, PhotoSettled,
         FailCall, Fetch, MissFetch
<1>b. unheard => unheard'
  <2>1. ASSUME NEW i \in DOMAIN calls, Settle(i), unheard PROVE unheard'
    BY <2>1 DEF Settle, Process, Saved, Uploaded, PhotoPatched, PhotoSettled, FailCall
  <2>2. UNCHANGED unheard \/ \E i \in DOMAIN calls : Settle(i)
    BY DEF ProfileNext, profileVars, OpenEdit, EditText, ToggleTag, CancelEdit, SaveProfile,
           Save, PickPhoto, Fetch, MissFetch
  <2> QED BY <2>1, <2>2
<1>0. view' = view /\ (unheard => unheard')
  BY <1>a, <1>b
<1>1. Shown' = Shown
  BY <1>0 DEF Shown, TopBar, CitizenHeader, CitizenDetails, SharedHeader, FacultyHeader,
              StudentHeader, StudentSkills
<1> SUFFICES ASSUME ~unheard', NEW s \in Shown PROVE InSight(s[1], s[2])'
  BY <1>1 DEF Agrees
<1>2. InSight(s[1], s[2])
  BY <1>0 DEF ProfileInv, Agrees
<1>3. CASE \E i \in DOMAIN calls : Settle(i)
  BY <1>2, <1>3, SettleInSight
<1>4. CASE \E k \in Mounted : Fetch(k) \/ MissFetch(k)
  BY <1>2, <1>4, FetchInSight
<1>5. CASE SaveProfile \/ \E p \in Photos : PickPhoto(p)
  <2>1. PICK c : Sound(c) /\ Added(c)
    BY <1>5, Sends DEF ProfileInv
  <2>2. UnderWay(s[1]) => UnderWay(s[1])'
    BY <2>1, CallAdded DEF ProfileInv, UnderWay
  <2>3. UNCHANGED <<server, cache>>
    BY <1>5 DEF SaveProfile, Save, PickPhoto
  <2> QED BY <1>2, <2>2, <2>3 DEF InSight, UnderWay
<1>6. CASE UNCHANGED <<server, cache, calls>>
  BY <1>2, <1>6 DEF InSight
<1> QED
  BY <1>3, <1>4, <1>5, <1>6
  DEF ProfileNext, profileVars, OpenEdit, EditText, ToggleTag, CancelEdit

(* In every view, whatever crosses: when nothing travels any more and nothing *)
(* was missed, the page and the top bar show the stored profile.              *)
THEOREM ProfileAtRest == ProfileSpec => []PageSettles
<1>1. ProfileInv /\ [ProfileNext]_profileVars => ProfileInv'
  BY PageTypedNext, CallsTypedNext, CacheTypedNext, AgreesNext DEF ProfileInv
<1>2. ProfileInv => PageSettles
  <2> SUFFICES ASSUME ProfileInv, Quiet, ~unheard, \A k \in Mounted : Settled(cache[k]),
                      NEW s \in Shown
               PROVE  cache[s[2]].data[s[1]] = server[s[1]]
    BY DEF PageSettles
  <2>1. InSight(s[1], s[2]) /\ s[2] \in Mounted
    BY ViewFacts DEF ProfileInv, Agrees
  <2> QED BY <2>1 DEF InSight, Quiet, Doing, Settled, Asked, Answered
<1> QED BY <1>1, <1>2, ProfileStart, PTL DEF ProfileSpec
===============================================================================
