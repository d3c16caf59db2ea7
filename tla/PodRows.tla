------------------------------- MODULE PodRows -------------------------------
(***************************************************************************)
(* The rows behind the solution-pod pipeline and what each handler reads   *)
(* and writes in them: problems.status, solution_projects, project_members *)
(* project_reviews and impact_reports.                                     *)
(*                                                                         *)
(* Every handler of the backend has the same shape: load rows, check them, *)
(* change the loaded objects, flush, commit.  No query locks what it reads *)
(* and no row carries a version, so what a handler checks (its Guard here) *)
(* and what it writes (its Effect) are separate operators.  PodContract    *)
(* runs each handler in one step, PodWorkflow in two.  An Effect takes as  *)
(* `seen' the value that the handler loaded, because SQLAlchemy writes a   *)
(* column only when the assigned value differs from the loaded one.        *)
(*                                                                         *)
(* Left out: titles, feedback text, team roles, notifications, the audit   *)
(* log and the milestone log, none of which a handler ever reads back to   *)
(* decide something.                                                       *)
(***************************************************************************)
EXTENDS Naturals, FiniteSets

CONSTANTS
  Students, Faculty, Nodal, Admins,   \* users by role, NODAL = role "university"
  Universities,                       \* university_profiles
  UniversityOf,                       \* the university in a user's own profile
  Problems, PodIds,                   \* PodIds bounds the number of pods
  ReviewInputs, ModerationInputs,     \* what reviewers and admins may send
  None

Users == Students \cup Faculty \cup Nodal \cup Admins

ProblemStatus ==
  {"submitted", "under_review", "verified", "rejected", "in_progress",
   "solution_submitted", "pilot", "solved", "duplicate"}
ProjectStatus ==
  {"planning", "in_progress", "prototype", "review", "pilot", "completed", "rejected"}
ReviewDecision == {"pending", "approved", "rejected", "changes_requested"}

\* Faculty profiles always name a university, student profiles may, accounts
\* of the other roles have neither profile.
ASSUME RolesAssumption ==
  /\ UniversityOf \in [Users -> Universities \cup {None}]
  /\ \A u \in Faculty : UniversityOf[u] \in Universities
  /\ \A u \in Nodal \cup Admins : UniversityOf[u] = None
  /\ Faculty \cap (Students \cup Nodal \cup Admins) = {}
  /\ Admins \cap (Students \cup Nodal) = {}
ASSUME InputsAssumption ==
  ReviewInputs \subseteq ReviewDecision /\ ModerationInputs \subseteq ProblemStatus
ASSUME NoneAssumption == None \notin Users \cup Universities \cup Problems \cup PodIds

VARIABLES
  problemStatus,  \* problems.status
  pods,           \* ids of the rows of solution_projects
  podProblem, podStatus, lead, mentor, university,   \* their columns
  members,        \* project_members: users of each pod
  reviews,        \* project_reviews: decisions recorded for each pod
  verdict,        \* decision of a pod's newest review that is not "pending"
  reports         \* number of impact_reports rows of each pod

rows == <<problemStatus, pods, podProblem, podStatus, lead, mentor, university,
          members, reviews, verdict, reports>>

RowsTypeOK ==
  /\ problemStatus \in [Problems -> ProblemStatus]
  /\ pods \subseteq PodIds
  /\ podProblem \in [PodIds -> Problems \cup {None}]
  /\ podStatus \in [PodIds -> ProjectStatus]
  /\ lead \in [PodIds -> Users \cup {None}]
  /\ mentor \in [PodIds -> Users \cup {None}]
  /\ university \in [PodIds -> Universities \cup {None}]
  /\ members \in [PodIds -> SUBSET Users]
  /\ reviews \in [PodIds -> SUBSET ReviewDecision]
  /\ verdict \in [PodIds -> ReviewDecision]
  /\ reports \in [PodIds -> Nat]

\* A freshly submitted problem, no pods.  Columns of absent pods hold defaults.
RowsInit ==
  /\ problemStatus = [q \in Problems |-> "submitted"]
  /\ pods = {}
  /\ podProblem = [p \in PodIds |-> None]
  /\ podStatus = [p \in PodIds |-> "planning"]
  /\ lead = [p \in PodIds |-> None]
  /\ mentor = [p \in PodIds |-> None]
  /\ university = [p \in PodIds |-> None]
  /\ members = [p \in PodIds |-> {}]
  /\ reviews = [p \in PodIds |-> {}]
  /\ verdict = [p \in PodIds |-> "pending"]
  /\ reports = [p \in PodIds |-> 0]

-----------------------------------------------------------------------------
(* Pod creation *)

ClosedProblem == {"rejected", "duplicate"}
ActivePod(p) == p \in pods /\ podStatus[p] \notin {"completed", "rejected"}
Participates(u, p) == lead[p] = u \/ u \in members[p]

PickGuard(u, q) ==
  /\ u \in Students \cup Admins
  /\ problemStatus[q] \notin ClosedProblem
  /\ \A p \in pods : ~(podProblem[p] = q /\ Participates(u, p) /\ ActivePod(p))

\* The problem is moved on only from the two statuses the code names.
PickEffect(u, q, p, seen) ==
  /\ p \notin pods
  /\ pods' = pods \cup {p}
  /\ podProblem' = [podProblem EXCEPT ![p] = q]
  /\ podStatus' = [podStatus EXCEPT ![p] = "planning"]
  /\ lead' = [lead EXCEPT ![p] = u]
  /\ mentor' = [mentor EXCEPT ![p] = None]
  /\ university' = [university EXCEPT ![p] = UniversityOf[u]]
  /\ members' = [members EXCEPT ![p] = {u}]
  /\ problemStatus' = IF seen \in {"submitted", "verified"}
                      THEN [problemStatus EXCEPT ![q] = "in_progress"]
                      ELSE problemStatus
  /\ UNCHANGED <<reviews, verdict, reports>>

-----------------------------------------------------------------------------
(* Team roster and submission for review: the lead's own operations *)

LeadOrAdmin(u, p) == u = lead[p] \/ u \in Admins

\* Any account can be added: neither its role nor the team size is looked at.
AddMemberGuard(u, p) == p \in pods /\ LeadOrAdmin(u, p)

\* uq_project_user_member refuses a second row for the same user.
AddMemberEffect(p, new) ==
  /\ new \notin members[p]
  /\ members' = [members EXCEPT ![p] = @ \cup {new}]
  /\ UNCHANGED <<problemStatus, pods, podProblem, podStatus, lead, mentor,
                 university, reviews, verdict, reports>>

Submittable == {"planning", "in_progress", "prototype"}

SubmitGuard(u, p) == p \in pods /\ LeadOrAdmin(u, p) /\ podStatus[p] \in Submittable

SubmitEffect(p) ==
  /\ podStatus' = [podStatus EXCEPT ![p] = "review"]
  /\ UNCHANGED <<problemStatus, pods, podProblem, lead, mentor, university,
                 members, reviews, verdict, reports>>

-----------------------------------------------------------------------------
(* Faculty: reviews and mentorship *)

\* Mutants of StatusAfter: the decision stored as the status; no entry for
\* "rejected"; two entries swapped.
StatusAfter_Decision(decision, seen) == IF decision = "pending" THEN seen ELSE decision
StatusAfter_NoRejection(decision, seen) ==
  CASE decision = "approved"          -> "pilot"
    [] decision = "changes_requested" -> "in_progress"
    [] OTHER                          -> seen
StatusAfter_Swapped(decision, seen) ==
  CASE decision = "approved"          -> "in_progress"
    [] decision = "changes_requested" -> "pilot"
    [] decision = "rejected"          -> "rejected"
    [] OTHER                          -> seen

\* _REVIEW_STATUS_TRANSITIONS; "pending" keeps the status.
StatusAfter(decision, seen) ==
  CASE decision = "approved"          -> "pilot"
    [] decision = "changes_requested" -> "in_progress"
    [] decision = "rejected"          -> "rejected"
    [] OTHER                          -> seen

\* No condition on the pod's status: any pod can be reviewed at any time.
ReviewGuard(u, p) ==
  /\ p \in pods
  /\ u \in Faculty \cup Nodal \cup Admins
  /\ ~ ( /\ u \in Faculty
         /\ university[p] # None
         /\ UniversityOf[u] # university[p]
         /\ u # mentor[p] )

ReviewEffect(p, decision, seen) ==
  /\ reviews' = [reviews EXCEPT ![p] = @ \cup {decision}]
  /\ verdict' = [verdict EXCEPT ![p] = IF decision = "pending" THEN @ ELSE decision]
  /\ podStatus' = IF StatusAfter(decision, seen) = seen
                  THEN podStatus
                  ELSE [podStatus EXCEPT ![p] = StatusAfter(decision, seen)]
  /\ UNCHANGED <<problemStatus, pods, podProblem, lead, mentor, university,
                 members, reports>>

\* Mutant of AdoptGuard: any university accepted.
AdoptGuard_AnyUniversity(u, p) ==
  /\ p \in pods
  /\ u \in Faculty \cup Admins
  /\ mentor[p] # u
  /\ mentor[p] = None \/ u \in Admins

\* The no-op answer "already_mentoring" changes nothing and is left out.
AdoptGuard(u, p) ==
  /\ p \in pods
  /\ u \in Faculty \cup Admins
  /\ mentor[p] # u
  /\ mentor[p] = None \/ u \in Admins
  /\ u \in Admins \/ university[p] \in {None, UniversityOf[u]}

\* The pod takes over the mentor's university if it was loaded without one.
AdoptEffect(u, p, seenUniversity) ==
  /\ mentor' = [mentor EXCEPT ![p] = u]
  /\ university' = IF u \in Faculty /\ seenUniversity = None
                   THEN [university EXCEPT ![p] = UniversityOf[u]]
                   ELSE university
  /\ UNCHANGED <<problemStatus, pods, podProblem, podStatus, lead, members,
                 reviews, verdict, reports>>

RelinquishGuard(u, p) == p \in pods /\ (u \in Admins \/ (u \in Faculty /\ mentor[p] = u))

RelinquishEffect(p, seenMentor) ==
  /\ mentor' = IF seenMentor = None THEN mentor ELSE [mentor EXCEPT ![p] = None]
  /\ UNCHANGED <<problemStatus, pods, podProblem, podStatus, lead, university,
                 members, reviews, verdict, reports>>

-----------------------------------------------------------------------------
(* Administrators, impact reports, and the operator's completion of a pod *)

ModerateEffect(q, status, seen) ==
  /\ problemStatus' = IF status = seen THEN problemStatus
                      ELSE [problemStatus EXCEPT ![q] = status]
  /\ UNCHANGED <<pods, podProblem, podStatus, lead, mentor, university, members,
                 reviews, verdict, reports>>

ReportGuard(u, p) ==
  /\ p \in pods
  /\ LeadOrAdmin(u, p)
  /\ podStatus[p] = "completed"
  /\ reports[p] = 0

\* impact_reports.pod_id is unique: the second of two inserts is refused.
ReportEffect(p) ==
  /\ reports[p] = 0
  /\ reports' = [reports EXCEPT ![p] = @ + 1]
  /\ UNCHANGED <<problemStatus, pods, podProblem, podStatus, lead, mentor,
                 university, members, reviews, verdict>>

\* No handler assigns "completed"; the tests write it into the table, and so
\* must an operator.  Modelled for a pod that is being piloted.
CompleteEffect(p) ==
  /\ p \in pods /\ podStatus[p] = "pilot"
  /\ podStatus' = [podStatus EXCEPT ![p] = "completed"]
  /\ UNCHANGED <<problemStatus, pods, podProblem, lead, mentor, university,
                 members, reviews, verdict, reports>>
=============================================================================
