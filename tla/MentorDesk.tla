------------------------------- MODULE MentorDesk -------------------------------
(* A faculty member's dashboard: the pods they supervise, those that seek a   *)
(* mentor, the reviews they dispatched, the form of a review, and the         *)
(* assistant (AIReviewAssistantModal) that analyses a pod and writes into the *)
(* form.  What a review says is the set of pods its text is about; which      *)
(* decision goes with it is left out.                                         *)
EXTENDS Naturals, FiniteSets, QueryCache

CONSTANTS
  Mentored,      \* pods
  Nobody,        \* no pod
  MaxAsked       \* bound on the adoptions, reviews and analyses of the page

ASSUME MentorAssumption == Nobody \notin Mentored /\ MaxAsked \in Nat

(* What the dashboard's endpoint answers, which is never "no data".           *)
DashboardAnswers ==
  [assigned : SUBSET Mentored, available : SUBSET Mentored, log : [Mentored -> Nat]]
ASSUME DashboardAssumption == NoData \notin DashboardAnswers

VARIABLES
  mentorOf,    \* stored: "none", "me" or "other"
  reviewed,    \* stored: how many reviews of each pod this mentor wrote
  dashboard,   \* the query faculty-dashboard
  activeTab,   \* which of the three lists is shown
  adopting,    \* adoptingId
  adoptions,   \* adoptions under way
  form,        \* reviewModalProject
  draft,       \* feedbackText: the pods it is about
  submitting,  \* isSubmittingReview
  dispatches,  \* reviews under way
  assistant,   \* the assistant's pod, isLoading, and the pod its data is about
  analyses,    \* analyses under way
  spent,       \* requests begun
  unanswered   \* something was stored and its answer lost

supervision == <<mentorOf, reviewed>>
adoptionVars == <<adopting, adoptions>>
reviewVars == <<form, draft, submitting, dispatches>>
assistantVars == <<assistant, analyses>>
mentorVars == <<supervision, dashboard, activeTab, adoptionVars, reviewVars,
                assistantVars, spent, unanswered>>

Shut == [pod |-> Nobody, loading |-> FALSE, about |-> Nobody]

MentorInit ==
  /\ mentorOf \in [Mentored -> {"none", "me"}]
  /\ reviewed = [p \in Mentored |-> 0]
  /\ dashboard = Opened /\ activeTab = "supervised"
  /\ adopting = Nobody /\ adoptions = {}
  /\ form = Nobody /\ draft = {} /\ submitting = FALSE /\ dispatches = {}
  /\ assistant = Shut /\ analyses = {}
  /\ spent = 0
  /\ unanswered = FALSE
-------------------------------------------------------------------------------
(* The three lists of the dashboard; that the log is cut after 15 reviews and *)
(* the offered pods after 30 is left out.                                     *)
DashboardAnswer ==
  [assigned |-> {p \in Mentored : mentorOf[p] = "me"},
   available |-> {p \in Mentored : mentorOf[p] = "none"},
   log |-> reviewed]

FetchDashboard ==
  /\ \/ Asked(dashboard) /\ dashboard' = Reads(dashboard, DashboardAnswer)
     \/ Answered(dashboard) /\ dashboard' = Shows(dashboard)
  /\ UNCHANGED <<supervision, activeTab, adoptionVars, reviewVars, assistantVars, spent, unanswered>>

DashboardLost ==
  /\ dashboard.fetch # "idle" /\ dashboard' = Misses(dashboard)
  /\ UNCHANGED <<supervision, activeTab, adoptionVars, reviewVars, assistantVars, spent, unanswered>>

Supervised == IF dashboard.data = NoData THEN {} ELSE dashboard.data.assigned
Available == IF dashboard.data = NoData THEN {} ELSE dashboard.data.available
Log == IF dashboard.data = NoData THEN [p \in Mentored |-> 0] ELSE dashboard.data.log

(* The review form and the assistant cover the page.                          *)
Uncovered == form = Nobody /\ assistant.pod = Nobody

SetActiveTab(t) ==
  /\ Uncovered /\ activeTab # t /\ activeTab' = t
  /\ UNCHANGED <<supervision, dashboard, adoptionVars, reviewVars, assistantVars,
                 spent, unanswered>>
-------------------------------------------------------------------------------
(* Only the button of the pod adopted last is disabled.                       *)
Adopt(p) ==
  /\ Uncovered /\ activeTab = "available" /\ p \in Available /\ adopting # p
  /\ spent < MaxAsked /\ spent' = spent + 1
  /\ adoptions' = adoptions \cup {[pod |-> p, n |-> spent, stage |-> "sent"]}
  /\ adopting' = p
  /\ UNCHANGED <<supervision, dashboard, activeTab, reviewVars, assistantVars, unanswered>>

Moves(a, stage) == adoptions' = (adoptions \ {a}) \cup {[a EXCEPT !.stage = stage]}

(* Refused when another mentor has the pod; a success at once, with nothing   *)
(* written, when this one has it.                                             *)
CheckAdoption(a) ==
  /\ a.stage = "sent" /\ mentorOf[a.pod] # "other"
  /\ Moves(a, IF mentorOf[a.pod] = "me" THEN "stored" ELSE "checked")
  /\ UNCHANGED <<supervision, dashboard, activeTab, adopting, reviewVars, assistantVars,
                 spent, unanswered>>

(* The mentor is written over whatever was committed since the check.         *)
StoreAdoption(a) ==
  /\ a.stage = "checked"
  /\ mentorOf' = [mentorOf EXCEPT ![a.pod] = "me"]
  /\ Moves(a, "stored")
  /\ UNCHANGED <<reviewed, dashboard, activeTab, adopting, reviewVars, assistantVars,
                 spent, unanswered>>

\* Mutant of Adopted: the dashboard is not fetched again.
Adopted_NotRefetched(a) ==
  /\ a.stage = "stored" /\ Moves(a, "again")
  /\ UNCHANGED <<supervision, dashboard, activeTab, adopting, reviewVars, assistantVars,
                 spent, unanswered>>

Adopted(a) ==
  /\ a.stage = "stored" /\ Moves(a, "again")
  /\ dashboard' = Refetch(dashboard)
  /\ UNCHANGED <<supervision, activeTab, adopting, reviewVars, assistantVars, spent, unanswered>>

(* The awaited refetch has ended, well or not, or another one took over.      *)
AdoptionOver(a) ==
  /\ a.stage = "again" /\ adoptions' = adoptions \ {a}
  /\ activeTab' = "supervised" /\ adopting' = Nobody
  /\ UNCHANGED <<supervision, dashboard, reviewVars, assistantVars, spent, unanswered>>

(* Refused, lost, or its answer lost: the list is left as it is.  (A request  *)
(* the page gives up, and the server stores later, is one whose answer is     *)
(* lost; so is such a review.)                                                *)
AdoptionFails(a) ==
  /\ a.stage # "again" /\ adoptions' = adoptions \ {a}
  /\ adopting' = Nobody
  /\ unanswered' = (unanswered \/ a.stage = "stored")
  /\ UNCHANGED <<supervision, dashboard, activeTab, reviewVars, assistantVars, spent>>

(* Another mentor's adoption, or an administrator's, who may take any pod,    *)
(* commits: over this mentor's, too.                                          *)
AdoptedElsewhere(p) ==
  /\ mentorOf[p] # "other" /\ mentorOf' = [mentorOf EXCEPT ![p] = "other"]
  /\ UNCHANGED <<reviewed, dashboard, activeTab, adoptionVars, reviewVars, assistantVars,
                 spent, unanswered>>

(* The mentor, elsewhere, or an administrator gives the pod back, or the      *)
(* mentor's account is deleted.                                               *)
Relinquished(p) ==
  /\ mentorOf[p] # "none" /\ mentorOf' = [mentorOf EXCEPT ![p] = "none"]
  /\ UNCHANGED <<reviewed, dashboard, activeTab, adoptionVars, reviewVars, assistantVars,
                 spent, unanswered>>
-------------------------------------------------------------------------------
(* "Submit Review" and "Add Guidance" of a supervised pod.  A draft is still  *)
(* there from the pod whose form was opened before.                           *)
OpenReview(p) ==
  /\ Uncovered /\ activeTab = "supervised" /\ p \in Supervised /\ form' = p
  /\ UNCHANGED <<supervision, dashboard, activeTab, adoptionVars, draft, submitting,
                 dispatches, assistantVars, spent, unanswered>>

OnForm == form # Nobody /\ assistant.pod = Nobody

CancelReview ==
  /\ OnForm /\ form' = Nobody
  /\ UNCHANGED <<supervision, dashboard, activeTab, adoptionVars, draft, submitting,
                 dispatches, assistantVars, spent, unanswered>>

WriteFeedback ==
  /\ OnForm /\ \/ form \notin draft /\ draft' = draft \cup {form}
               \/ draft # {} /\ draft' = {}
  /\ UNCHANGED <<supervision, dashboard, activeTab, adoptionVars, form, submitting,
                 dispatches, assistantVars, spent, unanswered>>

Dispatch ==
  /\ OnForm /\ draft # {} /\ ~submitting
  /\ spent < MaxAsked /\ spent' = spent + 1
  /\ dispatches' = dispatches \cup {[pod |-> form, n |-> spent, stage |-> "sent"]}
  /\ submitting' = TRUE
  /\ UNCHANGED <<supervision, dashboard, activeTab, adoptionVars, form, draft,
                 assistantVars, unanswered>>

StoreReview(d) ==
  /\ d.stage = "sent"
  /\ reviewed' = [reviewed EXCEPT ![d.pod] = @ + 1]
  /\ dispatches' = (dispatches \ {d}) \cup {[d EXCEPT !.stage = "stored"]}
  /\ UNCHANGED <<mentorOf, dashboard, activeTab, adoptionVars, form, draft, submitting,
                 assistantVars, spent, unanswered>>

(* Whatever form is open by now is closed and its text is gone.               *)
Reviewed(d) ==
  /\ d.stage = "stored" /\ dispatches' = dispatches \ {d}
  /\ form' = Nobody /\ draft' = {} /\ submitting' = FALSE
  /\ dashboard' = Refetch(dashboard)
  /\ UNCHANGED <<supervision, activeTab, adoptionVars, assistantVars, spent, unanswered>>

ReviewFails(d) ==
  /\ dispatches' = dispatches \ {d} /\ submitting' = FALSE
  /\ unanswered' = (unanswered \/ d.stage = "stored")
  /\ UNCHANGED <<supervision, dashboard, activeTab, adoptionVars, form, draft,
                 assistantVars, spent>>
-------------------------------------------------------------------------------
FetchAIReview(p) ==
  /\ spent < MaxAsked /\ spent' = spent + 1
  /\ analyses' = analyses \cup {[pod |-> p, n |-> spent, live |-> TRUE]}
  /\ UNCHANGED <<supervision, dashboard, activeTab, adoptionVars, reviewVars, unanswered>>

(* From the list, or from the form.                                           *)
OpenAssistant(p) ==
  /\ assistant.pod = Nobody
  /\ \/ Uncovered /\ activeTab = "supervised" /\ p \in Supervised
     \/ form = p
  /\ assistant' = [pod |-> p, loading |-> TRUE, about |-> Nobody]
  /\ FetchAIReview(p)

(* "Re-analyze", and "Try Again" after a failure; the data stays meanwhile.   *)
Reanalyze ==
  /\ assistant.pod # Nobody /\ ~assistant.loading
  /\ assistant' = [assistant EXCEPT !.loading = TRUE]
  /\ FetchAIReview(assistant.pod)

\* Mutant of AnalysisShown: the assistant is kept, hidden, when it is closed.
AnalysisShown_Late(c) ==
  /\ analyses' = analyses \ {c} /\ assistant.pod # Nobody
  /\ assistant' = [assistant EXCEPT !.loading = FALSE, !.about = c.pod]
  /\ UNCHANGED <<supervision, dashboard, activeTab, adoptionVars, reviewVars, spent, unanswered>>

(* The answer reaches the assistant that asked, unless it was closed.         *)
AnalysisShown(c) ==
  /\ analyses' = analyses \ {c}
  /\ assistant' = IF c.live THEN [assistant EXCEPT !.loading = FALSE, !.about = c.pod]
                  ELSE assistant
  /\ UNCHANGED <<supervision, dashboard, activeTab, adoptionVars, reviewVars, spent, unanswered>>

AnalysisFails(c) ==
  /\ analyses' = analyses \ {c}
  /\ assistant' = IF c.live THEN [assistant EXCEPT !.loading = FALSE] ELSE assistant
  /\ UNCHANGED <<supervision, dashboard, activeTab, adoptionVars, reviewVars, spent, unanswered>>

LeaveAssistant == assistant' = Shut /\ analyses' = {[c EXCEPT !.live = FALSE] : c \in analyses}

DismissAssistant ==
  /\ assistant.pod # Nobody /\ LeaveAssistant
  /\ UNCHANGED <<supervision, dashboard, activeTab, adoptionVars, reviewVars, spent, unanswered>>

(* handleApplyAIFeedback: the pod's form is opened and the text appended.     *)
InsertIntoForm ==
  /\ assistant.about # Nobody /\ ~assistant.loading /\ LeaveAssistant
  /\ form' = assistant.pod /\ draft' = draft \cup {assistant.about}
  /\ UNCHANGED <<supervision, dashboard, activeTab, adoptionVars, submitting, dispatches,
                 spent, unanswered>>
-------------------------------------------------------------------------------
MentorNext ==
  \/ FetchDashboard \/ DashboardLost
  \/ \E t \in {"supervised", "available", "reviews"} : SetActiveTab(t)
  \/ \E p \in Mentored : Adopt(p) \/ OpenReview(p) \/ OpenAssistant(p)
  \/ \E a \in adoptions : \/ CheckAdoption(a) \/ StoreAdoption(a) \/ Adopted(a)
                         \/ AdoptionOver(a) \/ AdoptionFails(a)
  \/ \E p \in Mentored : AdoptedElsewhere(p) \/ Relinquished(p)
  \/ CancelReview \/ WriteFeedback \/ Dispatch
  \/ \E d \in dispatches : StoreReview(d) \/ Reviewed(d) \/ ReviewFails(d)
  \/ Reanalyze \/ DismissAssistant \/ InsertIntoForm
  \/ \E c \in analyses : AnalysisShown(c) \/ AnalysisFails(c)

MentorSpec == MentorInit /\ [][MentorNext]_mentorVars
-------------------------------------------------------------------------------
(* Adoptions, reviews and refetches overlap, several adoptions at once among  *)
(* them, and other mentors take pods and give them back.  At rest the         *)
(* dashboard shows what this mentor did: the pods that are theirs are         *)
(* supervised and not offered, every review is in the log; unless an answer   *)
(* was lost.  (What others did meanwhile it may not show yet.)                *)
DashboardKeepsUp ==
  /\ adoptions = {} /\ dispatches = {} /\ ~unanswered /\ Settled(dashboard)
  => /\ \A p \in Mentored : mentorOf[p] = "me" => p \in Supervised \ Available
     /\ Log = reviewed

(* What the assistant writes into a review is about the pod under review: no  *)
(* analysis that was asked for one pod and answered after the assistant was   *)
(* closed is inserted into the review of another.  (The mentor's own text for *)
(* a pod whose form was cancelled does stay in the form of the next.)         *)
SuggestionsOfPod ==
  [][ \A p \in draft' \ draft : form' = p ]_mentorVars
===============================================================================
