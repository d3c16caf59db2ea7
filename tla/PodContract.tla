----------------------------- MODULE PodContract -----------------------------
(***************************************************************************)
(* What the pod handlers promise: each one checks and writes in one step.  *)
(* This is the behaviour of a deployment that serves one request at a time *)
(* and the specification PodWorkflow is compared with.                     *)
(***************************************************************************)
EXTENDS PodRows

\* POST /student/pick-project
PickProject(u, q) ==
  \E p \in PodIds \ pods : PickGuard(u, q) /\ PickEffect(u, q, p, problemStatus[q])

\* POST /projects/{id}/members and /projects/{id}/submit
AddMember(u, p, new) == AddMemberGuard(u, p) /\ AddMemberEffect(p, new)
SubmitForReview(u, p) == SubmitGuard(u, p) /\ SubmitEffect(p)

\* POST /faculty/projects/{id}/reviews, .../adopt and DELETE .../relinquish
CreateReview(u, p, decision) ==
  ReviewGuard(u, p) /\ ReviewEffect(p, decision, podStatus[p])
AdoptPod(u, p) == AdoptGuard(u, p) /\ AdoptEffect(u, p, university[p])
RelinquishPod(u, p) == RelinquishGuard(u, p) /\ RelinquishEffect(p, mentor[p])

\* PATCH /admin/problems/{id}/moderate, by any administrator
ModerateProblem(q, status) == Admins # {} /\ ModerateEffect(q, status, problemStatus[q])

\* POST /student/pods/{id}/impact-report
SubmitImpactReport(u, p) == ReportGuard(u, p) /\ ReportEffect(p)

\* A row of solution_projects set to "completed" outside the program
OperatorCompletes(p) == CompleteEffect(p)

Next ==
  \/ \E u \in Users, q \in Problems : PickProject(u, q)
  \/ \E u \in Users, p \in pods, new \in Users : AddMember(u, p, new)
  \/ \E u \in Users, p \in pods : SubmitForReview(u, p)
  \/ \E u \in Users, p \in pods, d \in ReviewInputs : CreateReview(u, p, d)
  \/ \E u \in Users, p \in pods : AdoptPod(u, p)
  \/ \E u \in Users, p \in pods : RelinquishPod(u, p)
  \/ \E q \in Problems, s \in ModerationInputs : ModerateProblem(q, s)
  \/ \E u \in Users, p \in pods : SubmitImpactReport(u, p)
  \/ \E p \in pods : OperatorCompletes(p)

Spec == RowsInit /\ [][Next]_rows

-----------------------------------------------------------------------------
(* Properties of one request at a time *)

\* A pod on offer to industry is there because its newest real review decision
\* is an approval: nothing a lead, a mentor or a later reviewer does leaves a
\* pod in pilot (or completed) against the faculty's last word.
VettedMatchesVerdict ==
  \A p \in pods : podStatus[p] \in {"pilot", "completed"} => verdict[p] = "approved"

\* A faculty mentor and the mentored pod belong to the same university
\* whenever the pod has one (CROSS_UNIVERSITY_FORBIDDEN in docs/error-codes.md).
MentorFromPodUniversity ==
  \A p \in pods :
    mentor[p] \in Faculty => university[p] = UniversityOf[mentor[p]]
=============================================================================
