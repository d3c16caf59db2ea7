------------------------- MODULE PodWorkflow_proofs -------------------------
(***************************************************************************)
(* Proofs about the pod handlers with any number of overlapping requests,  *)
(* users, pods and problems.                                               *)
(***************************************************************************)
EXTENDS PodWorkflow, TLAPS

-----------------------------------------------------------------------------
(* Types *)

\* What a request in flight carries, by handler.
LEMMA RequestFields ==
  ASSUME NEW r \in Request \cup {Idle}
  PROVE  /\ r.op = "pick" => /\ r.user \in Users /\ r.problem \in Problems
                             /\ r.seen \in ProblemStatus
         /\ r.op = "add_member" => r.pod \in PodIds /\ r.new \in Users
         /\ r.op = "submit" => r.pod \in PodIds
         /\ r.op = "review" => /\ r.pod \in PodIds /\ r.decision \in ReviewInputs
                               /\ r.seen \in ProjectStatus
         /\ r.op = "adopt" => /\ r.user \in Users /\ r.pod \in PodIds
                              /\ r.seen \in Universities \cup {None}
         /\ r.op = "relinquish" => r.pod \in PodIds
         /\ r.op = "moderate" => /\ r.problem \in Problems
                                 /\ r.status \in ModerationInputs
         /\ r.op = "report" => r.pod \in PodIds
  BY DEF Request, Idle

\* A review leaves a pod in one of the statuses of the table, and in pilot or
\* completed only by an approval or when it was there already.
LEMMA StatusAfterType ==
  ASSUME NEW d \in ReviewDecision, NEW s \in ProjectStatus
  PROVE  /\ StatusAfter(d, s) \in ProjectStatus
         /\ StatusAfter(d, s) # s /\ StatusAfter(d, s) \in {"pilot", "completed"}
              => d = "approved"
  BY DEF StatusAfter, ReviewDecision, ProjectStatus

LEMMA TypeInit == Init => TypeOK
  BY DEF Init, TypeOK, RowsInit, RowsTypeOK, ProblemStatus, ProjectStatus, ReviewDecision

\* The read step of a handler.
LEMMA BeginTyped ==
  ASSUME TypeOK, NEW w \in Workers, Begin(w)
  PROVE  /\ UNCHANGED rows
         /\ \E r \in Request :
              /\ request' = [request EXCEPT ![w] = r]
              /\ r.op = "report" => r.pod \in pods /\ podStatus[r.pod] = "completed"
<1>1. CASE \E u \in Users, q \in Problems : BeginPick(w, u, q)
  <2>1. PICK u \in Users, q \in Problems : BeginPick(w, u, q)
    BY <1>1
  <2> DEFINE r == [op |-> "pick", user |-> u, problem |-> q, seen |-> problemStatus[q]]
  <2>2. r \in Request
    BY DEF TypeOK, RowsTypeOK, Request
  <2>. QED
    BY <2>1, <2>2 DEF BeginPick, Load
<1>2. CASE \E u \in Users, p \in pods, new \in Users : BeginAddMember(w, u, p, new)
  <2>1. PICK u \in Users, p \in pods, new \in Users : BeginAddMember(w, u, p, new)
    BY <1>2
  <2> DEFINE r == [op |-> "add_member", pod |-> p, new |-> new]
  <2>2. r \in Request
    BY DEF TypeOK, RowsTypeOK, Request
  <2>. QED
    BY <2>1, <2>2 DEF BeginAddMember, Load
<1>3. CASE \E u \in Users, p \in pods : BeginSubmit(w, u, p)
  <2>1. PICK u \in Users, p \in pods : BeginSubmit(w, u, p)
    BY <1>3
  <2> DEFINE r == [op |-> "submit", pod |-> p]
  <2>2. r \in Request
    BY DEF TypeOK, RowsTypeOK, Request
  <2>. QED
    BY <2>1, <2>2 DEF BeginSubmit, Load
<1>4. CASE \E u \in Users, p \in pods, d \in ReviewInputs : BeginReview(w, u, p, d)
  <2>1. PICK u \in Users, p \in pods, d \in ReviewInputs : BeginReview(w, u, p, d)
    BY <1>4
  <2> DEFINE r == [op |-> "review", pod |-> p, decision |-> d, seen |-> podStatus[p]]
  <2>2. r \in Request
    BY DEF TypeOK, RowsTypeOK, Request
  <2>. QED
    BY <2>1, <2>2 DEF BeginReview, Load
<1>5. CASE \E u \in Users, p \in pods : BeginAdopt(w, u, p)
  <2>1. PICK u \in Users, p \in pods : BeginAdopt(w, u, p)
    BY <1>5
  <2> DEFINE r == [op |-> "adopt", user |-> u, pod |-> p, seen |-> university[p]]
  <2>2. r \in Request
    BY DEF TypeOK, RowsTypeOK, Request
  <2>. QED
    BY <2>1, <2>2 DEF BeginAdopt, Load
<1>6. CASE \E u \in Users, p \in pods : BeginRelinquish(w, u, p)
  <2>1. PICK u \in Users, p \in pods : BeginRelinquish(w, u, p)
    BY <1>6
  <2> DEFINE r == [op |-> "relinquish", pod |-> p, seen |-> mentor[p]]
  <2>2. r \in Request
    BY DEF TypeOK, RowsTypeOK, Request
  <2>. QED
    BY <2>1, <2>2 DEF BeginRelinquish, Load
<1>7. CASE \E q \in Problems, s \in ModerationInputs : BeginModerate(w, q, s)
  <2>1. PICK q \in Problems, s \in ModerationInputs : BeginModerate(w, q, s)
    BY <1>7
  <2> DEFINE r == [op |-> "moderate", problem |-> q, status |-> s, seen |-> problemStatus[q]]
  <2>2. r \in Request
    BY DEF TypeOK, RowsTypeOK, Request
  <2>. QED
    BY <2>1, <2>2 DEF BeginModerate, Load
<1>8. CASE \E u \in Users, p \in pods : BeginReport(w, u, p)
  <2>1. PICK u \in Users, p \in pods : BeginReport(w, u, p)
    BY <1>8
  <2> DEFINE r == [op |-> "report", pod |-> p]
  <2>2. r \in Request
    BY DEF TypeOK, RowsTypeOK, Request
  <2>. QED
    BY <2>1, <2>2 DEF BeginReport, Load, ReportGuard
<1>. QED
  BY <1>1, <1>2, <1>3, <1>4, <1>5, <1>6, <1>7, <1>8 DEF Begin

\* Every commit, as a change of the rows.
CommitOf(r) ==
  \/ r.op = "pick" /\ \E p \in PodIds \ pods : PickEffect(r.user, r.problem, p, r.seen)
  \/ r.op = "add_member" /\ AddMemberEffect(r.pod, r.new)
  \/ r.op = "submit" /\ SubmitEffect(r.pod)
  \/ r.op = "review" /\ ReviewEffect(r.pod, r.decision, r.seen)
  \/ r.op = "adopt" /\ AdoptEffect(r.user, r.pod, r.seen)
  \/ r.op = "relinquish" /\ RelinquishEffect(r.pod, r.seen)
  \/ r.op = "moderate" /\ ModerateEffect(r.problem, r.status, r.seen)
  \/ r.op = "report" /\ ReportEffect(r.pod)

LEMMA FinishCommits ==
  ASSUME NEW w \in Workers, Finish(w)
  PROVE  CommitOf(request[w]) /\ Done(w)
  BY DEF Finish, FinishPick, FinishAddMember, FinishSubmit, FinishReview, FinishAdopt,
         FinishRelinquish, FinishModerate, FinishReport, CommitOf

\* A faculty profile names a university, so adoption writes a university.
LEMMA FacultyUniversity ==
  ASSUME NEW u \in Users
  PROVE  /\ UniversityOf[u] \in Universities \cup {None}
         /\ u \in Faculty => UniversityOf[u] \in Universities
  BY RolesAssumption

LEMMA CommitTyped ==
  ASSUME RowsTypeOK, NEW r \in Request \cup {Idle}, CommitOf(r)
  PROVE  RowsTypeOK'
<1> USE RequestFields DEF RowsTypeOK
<1>1. CASE r.op = "pick" /\ \E p \in PodIds \ pods : PickEffect(r.user, r.problem, p, r.seen)
  <2>1. PICK p \in PodIds \ pods : PickEffect(r.user, r.problem, p, r.seen)
    BY <1>1
  <2>. QED
    BY <1>1, <2>1, FacultyUniversity DEF PickEffect, ProjectStatus, ProblemStatus
<1>2. CASE r.op = "add_member" /\ AddMemberEffect(r.pod, r.new)
  BY <1>2 DEF AddMemberEffect
<1>3. CASE r.op = "submit" /\ SubmitEffect(r.pod)
  BY <1>3 DEF SubmitEffect, ProjectStatus
<1>4. CASE r.op = "review" /\ ReviewEffect(r.pod, r.decision, r.seen)
  <2>1. /\ r.pod \in PodIds /\ r.decision \in ReviewDecision
        /\ StatusAfter(r.decision, r.seen) \in ProjectStatus
    BY <1>4, InputsAssumption, StatusAfterType
  <2>. QED
    BY <1>4, <2>1 DEF ReviewEffect
<1>5. CASE r.op = "adopt" /\ AdoptEffect(r.user, r.pod, r.seen)
  BY <1>5, FacultyUniversity DEF AdoptEffect
<1>6. CASE r.op = "relinquish" /\ RelinquishEffect(r.pod, r.seen)
  BY <1>6 DEF RelinquishEffect
<1>7. CASE r.op = "moderate" /\ ModerateEffect(r.problem, r.status, r.seen)
  BY <1>7, InputsAssumption DEF ModerateEffect
<1>8. CASE r.op = "report" /\ ReportEffect(r.pod)
  BY <1>8 DEF ReportEffect
<1>. QED
  BY <1>1, <1>2, <1>3, <1>4, <1>5, <1>6, <1>7, <1>8 DEF CommitOf

LEMMA TypeStep == TypeOK /\ [Next]_vars => TypeOK'
<1> SUFFICES ASSUME TypeOK, [Next]_vars PROVE TypeOK'
  OBVIOUS
<1>1. ASSUME NEW w \in Workers, Begin(w) PROVE TypeOK'
  BY <1>1, BeginTyped DEF TypeOK, RowsTypeOK, rows
<1>2. ASSUME NEW w \in Workers, Finish(w) PROVE TypeOK'
  <2>1. CommitOf(request[w]) /\ Done(w)
    BY <1>2, FinishCommits
  <2>2. RowsTypeOK'
    BY <2>1, CommitTyped DEF TypeOK
  <2>. QED
    BY <2>1, <2>2 DEF Done, TypeOK
<1>3. ASSUME NEW w \in Workers, Rollback(w) PROVE TypeOK'
  BY <1>3 DEF Rollback, Done, TypeOK, RowsTypeOK, rows
<1>4. ASSUME NEW p \in pods, OperatorCompletes(p) PROVE TypeOK'
  BY <1>4 DEF OperatorCompletes, CompleteEffect, TypeOK, RowsTypeOK, ProjectStatus
<1>5. CASE UNCHANGED vars
  BY <1>5 DEF vars, rows, TypeOK, RowsTypeOK
<1>. QED
  BY <1>1, <1>2, <1>3, <1>4, <1>5 DEF Next

\* Whatever overlaps, the tables hold only values of their columns' types: a
\* commit built on stale reads never writes a status, user or university that
\* the schema does not have.
THEOREM TypeCorrect == Spec => []TypeOK
<1>. QED
  BY TypeInit, TypeStep, PTL DEF Spec

-----------------------------------------------------------------------------
(* Only vetted pods reach industry *)

Vetted(p) ==
  podStatus[p] \in {"pilot", "completed"} \/ reports[p] > 0 => "approved" \in reviews[p]

\* VettedByReview is not inductive: a request that has found its pod completed
\* still has to insert the impact report, so its pod must stay approved.
IInv ==
  /\ TypeOK
  /\ \A p \in PodIds : Vetted(p)
  /\ \A w \in Workers :
       request[w].op = "report" => "approved" \in reviews[request[w].pod]

LEMMA VettedInit == Init => IInv
  BY TypeInit DEF Init, RowsInit, Idle, IInv, Vetted

\* A commit keeps every recorded approval and every pod vetted.
LEMMA CommitVetted ==
  ASSUME TypeOK, \A p \in PodIds : Vetted(p), NEW r \in Request \cup {Idle}, CommitOf(r),
         r.op = "report" => "approved" \in reviews[r.pod]
  PROVE  /\ \A p \in PodIds : Vetted(p)'
         /\ \A p \in PodIds : "approved" \in reviews[p] => "approved" \in reviews'[p]
<1> USE RequestFields DEF TypeOK, RowsTypeOK, Vetted
<1>1. CASE r.op = "pick" /\ \E p \in PodIds \ pods : PickEffect(r.user, r.problem, p, r.seen)
  BY <1>1 DEF PickEffect
<1>2. CASE r.op = "add_member" /\ AddMemberEffect(r.pod, r.new)
  BY <1>2 DEF AddMemberEffect
<1>3. CASE r.op = "submit" /\ SubmitEffect(r.pod)
  BY <1>3 DEF SubmitEffect
<1>4. CASE r.op = "review" /\ ReviewEffect(r.pod, r.decision, r.seen)
  <2>1. /\ r.pod \in PodIds /\ r.decision \in ReviewDecision
        /\ /\ StatusAfter(r.decision, r.seen) # r.seen
           /\ StatusAfter(r.decision, r.seen) \in {"pilot", "completed"}
           => r.decision = "approved"
    BY <1>4, InputsAssumption, StatusAfterType
  <2>2. reviews' = [reviews EXCEPT ![r.pod] = @ \cup {r.decision}] /\ reports' = reports
    BY <1>4 DEF ReviewEffect
  <2>3. ASSUME NEW p \in PodIds, podStatus'[p] \in {"pilot", "completed"}
        PROVE  podStatus[p] \in {"pilot", "completed"} \/ (p = r.pod /\ r.decision = "approved")
    BY <1>4, <2>1, <2>3 DEF ReviewEffect
  <2>. QED
    BY <2>1, <2>2, <2>3
<1>5. CASE r.op = "adopt" /\ AdoptEffect(r.user, r.pod, r.seen)
  BY <1>5 DEF AdoptEffect
<1>6. CASE r.op = "relinquish" /\ RelinquishEffect(r.pod, r.seen)
  BY <1>6 DEF RelinquishEffect
<1>7. CASE r.op = "moderate" /\ ModerateEffect(r.problem, r.status, r.seen)
  BY <1>7 DEF ModerateEffect
<1>8. CASE r.op = "report" /\ ReportEffect(r.pod)
  BY <1>8 DEF ReportEffect
<1>. QED
  BY <1>1, <1>2, <1>3, <1>4, <1>5, <1>6, <1>7, <1>8 DEF CommitOf

LEMMA VettedStep == IInv /\ [Next]_vars => IInv'
<1> SUFFICES ASSUME IInv, [Next]_vars PROVE IInv'
  OBVIOUS
<1>0. TypeOK'
  BY TypeStep DEF IInv
<1>1. ASSUME NEW w \in Workers, Begin(w) PROVE IInv'
  <2>1. PICK r \in Request :
          /\ request' = [request EXCEPT ![w] = r]
          /\ r.op = "report" => r.pod \in pods /\ podStatus[r.pod] = "completed"
    BY <1>1, BeginTyped DEF IInv
  <2>2. UNCHANGED rows
    BY <1>1, BeginTyped DEF IInv
  <2>3. r.op = "report" => "approved" \in reviews[r.pod]
    BY <2>1, RequestFields DEF IInv, Vetted
  <2>. QED
    BY <1>0, <2>1, <2>2, <2>3 DEF IInv, TypeOK, Vetted, rows
<1>2. ASSUME NEW w \in Workers, Finish(w) PROVE IInv'
  <2>1. CommitOf(request[w]) /\ Done(w)
    BY <1>2, FinishCommits
  <2>2. request[w] \in Request \cup {Idle}
    BY DEF IInv, TypeOK
  <2>3. /\ \A p \in PodIds : Vetted(p)'
        /\ \A p \in PodIds : "approved" \in reviews[p] => "approved" \in reviews'[p]
    BY <2>1, <2>2, CommitVetted DEF IInv
  <2>4. ASSUME NEW v \in Workers, request'[v].op = "report"
        PROVE  "approved" \in reviews'[request'[v].pod]
    <3>1. v # w /\ request'[v] = request[v]
      BY <2>1, <2>4 DEF Done, Idle, IInv, TypeOK
    <3>2. request[v].pod \in PodIds
      BY <2>4, <3>1, RequestFields DEF IInv, TypeOK
    <3>. QED
      BY <2>3, <2>4, <3>1, <3>2 DEF IInv
  <2>. QED
    BY <1>0, <2>3, <2>4 DEF IInv
<1>3. ASSUME NEW w \in Workers, Rollback(w) PROVE IInv'
  BY <1>0, <1>3 DEF Rollback, Done, Idle, IInv, TypeOK, Vetted, rows
<1>4. ASSUME NEW p \in pods, OperatorCompletes(p) PROVE IInv'
  BY <1>0, <1>4 DEF OperatorCompletes, CompleteEffect, IInv, TypeOK, RowsTypeOK, Vetted
<1>5. CASE UNCHANGED vars
  BY <1>0, <1>5 DEF vars, rows, IInv, Vetted
<1>. QED
  BY <1>1, <1>2, <1>3, <1>4, <1>5 DEF Next

\* However requests overlap, a pod on offer to industry, a completed pod and a
\* pod with an impact report has an approving faculty review on record.
THEOREM OnlyVettedPods == Spec => []VettedByReview
<1>1. IInv => VettedByReview
  BY DEF IInv, TypeOK, RowsTypeOK, Vetted, VettedByReview
<1>. QED
  BY <1>1, VettedInit, VettedStep, PTL DEF Spec

-----------------------------------------------------------------------------
(* With one session, whatever the number of users, pods and problems, the  *)
(* two-step pod handlers implement the atomic ones of PodContract.         *)

OneSession == \A v, w \in Workers : v = w

\* What a request has checked and loaded still holds.  Only the operator acts
\* while it is in flight: a pod loaded in pilot may meanwhile be completed.
Fresh(r) ==
  /\ r.op = "pick" => PickGuard(r.user, r.problem) /\ r.seen = problemStatus[r.problem]
  /\ r.op = "add_member" => \E u \in Users : AddMemberGuard(u, r.pod)
  /\ r.op = "submit" => \E u \in Users : SubmitGuard(u, r.pod)
  /\ r.op = "review" =>
       /\ \E u \in Users : ReviewGuard(u, r.pod)
       /\ r.seen = podStatus[r.pod] \/ (r.seen = "pilot" /\ podStatus[r.pod] = "completed")
  /\ r.op = "adopt" => AdoptGuard(r.user, r.pod) /\ r.seen = university[r.pod]
  /\ r.op = "relinquish" =>
       (\E u \in Users : RelinquishGuard(u, r.pod)) /\ r.seen = mentor[r.pod]
  /\ r.op = "moderate" => Admins # {} /\ r.seen = problemStatus[r.problem]
  /\ r.op = "report" => \E u \in Users : ReportGuard(u, r.pod)

\* A vetted pod has its approval on record, as its newest verdict: this is what
\* makes the approval of a pod completed in the meantime a stutter.
FollowsVerdict ==
  \A p \in pods :
    podStatus[p] \in {"pilot", "completed"} => verdict[p] = "approved" /\ "approved" \in reviews[p]

SerialInv ==
  /\ TypeOK
  /\ \A w \in Workers : Fresh(request[w])
  /\ FollowsVerdict

LEMMA BeginFresh ==
  ASSUME NEW w \in Workers, Begin(w)
  PROVE  \E r : request' = [request EXCEPT ![w] = r] /\ Fresh(r)
<1> DEFINE Goal == \E r : request' = [request EXCEPT ![w] = r] /\ Fresh(r)
<1>1. ASSUME NEW u \in Users, NEW q \in Problems, BeginPick(w, u, q) PROVE Goal
  <2> DEFINE r == [op |-> "pick", user |-> u, problem |-> q, seen |-> problemStatus[q]]
  <2>1. Fresh(r)
    BY <1>1 DEF BeginPick, Fresh
  <2>. QED
    BY <1>1, <2>1 DEF BeginPick, Load
<1>2. ASSUME NEW u \in Users, NEW p \in pods, NEW new \in Users, BeginAddMember(w, u, p, new)
      PROVE  Goal
  <2> DEFINE r == [op |-> "add_member", pod |-> p, new |-> new]
  <2>1. Fresh(r)
    BY <1>2 DEF BeginAddMember, Fresh
  <2>. QED
    BY <1>2, <2>1 DEF BeginAddMember, Load
<1>3. ASSUME NEW u \in Users, NEW p \in pods, BeginSubmit(w, u, p) PROVE Goal
  <2> DEFINE r == [op |-> "submit", pod |-> p]
  <2>1. Fresh(r)
    BY <1>3 DEF BeginSubmit, Fresh
  <2>. QED
    BY <1>3, <2>1 DEF BeginSubmit, Load
<1>4. ASSUME NEW u \in Users, NEW p \in pods, NEW d \in ReviewInputs, BeginReview(w, u, p, d)
      PROVE  Goal
  <2> DEFINE r == [op |-> "review", pod |-> p, decision |-> d, seen |-> podStatus[p]]
  <2>1. Fresh(r)
    BY <1>4 DEF BeginReview, Fresh
  <2>. QED
    BY <1>4, <2>1 DEF BeginReview, Load
<1>5. ASSUME NEW u \in Users, NEW p \in pods, BeginAdopt(w, u, p) PROVE Goal
  <2> DEFINE r == [op |-> "adopt", user |-> u, pod |-> p, seen |-> university[p]]
  <2>1. Fresh(r)
    BY <1>5 DEF BeginAdopt, Fresh
  <2>. QED
    BY <1>5, <2>1 DEF BeginAdopt, Load
<1>6. ASSUME NEW u \in Users, NEW p \in pods, BeginRelinquish(w, u, p) PROVE Goal
  <2> DEFINE r == [op |-> "relinquish", pod |-> p, seen |-> mentor[p]]
  <2>1. Fresh(r)
    BY <1>6 DEF BeginRelinquish, Fresh
  <2>. QED
    BY <1>6, <2>1 DEF BeginRelinquish, Load
<1>7. ASSUME NEW q \in Problems, NEW s \in ModerationInputs, BeginModerate(w, q, s) PROVE Goal
  <2> DEFINE r == [op |-> "moderate", problem |-> q, status |-> s, seen |-> problemStatus[q]]
  <2>1. Fresh(r)
    BY <1>7 DEF BeginModerate, Fresh
  <2>. QED
    BY <1>7, <2>1 DEF BeginModerate, Load
<1>8. ASSUME NEW u \in Users, NEW p \in pods, BeginReport(w, u, p) PROVE Goal
  <2> DEFINE r == [op |-> "report", pod |-> p]
  <2>1. Fresh(r)
    BY <1>8 DEF BeginReport, Fresh
  <2>. QED
    BY <1>8, <2>1 DEF BeginReport, Load
<1>. QED
  BY <1>1, <1>2, <1>3, <1>4, <1>5, <1>6, <1>7, <1>8 DEF Begin

\* The commit of a fresh request is the whole handler of PodContract.
LEMMA CommitIsHandler ==
  ASSUME TypeOK, FollowsVerdict, NEW r \in Request \cup {Idle}, Fresh(r), CommitOf(r)
  PROVE  Contract!Next \/ UNCHANGED rows
<1> USE RequestFields DEF Fresh
<1>1. CASE r.op = "pick" /\ \E p \in PodIds \ pods : PickEffect(r.user, r.problem, p, r.seen)
  <2>1. Contract!PickProject(r.user, r.problem)
    BY <1>1 DEF Contract!PickProject, Contract!PickGuard, PickGuard, Contract!PickEffect,
       PickEffect, Contract!ClosedProblem, ClosedProblem, Contract!ActivePod, ActivePod,
       Contract!Participates, Participates
  <2>. QED
    BY <1>1, <2>1 DEF Contract!Next, Contract!Users, Users
<1>2. CASE r.op = "add_member" /\ AddMemberEffect(r.pod, r.new)
  <2>1. PICK u \in Users : AddMemberGuard(u, r.pod)
    BY <1>2
  <2>2. Contract!AddMember(u, r.pod, r.new) /\ r.pod \in pods
    BY <1>2, <2>1 DEF Contract!AddMember, Contract!AddMemberGuard, AddMemberGuard,
       Contract!AddMemberEffect, AddMemberEffect, Contract!LeadOrAdmin, LeadOrAdmin
  <2>. QED
    BY <1>2, <2>2 DEF Contract!Next, Contract!Users, Users
<1>3. CASE r.op = "submit" /\ SubmitEffect(r.pod)
  <2>1. PICK u \in Users : SubmitGuard(u, r.pod)
    BY <1>3
  <2>2. Contract!SubmitForReview(u, r.pod) /\ r.pod \in pods
    BY <1>3, <2>1 DEF Contract!SubmitForReview, Contract!SubmitGuard, SubmitGuard,
       Contract!SubmitEffect, SubmitEffect, Contract!LeadOrAdmin, LeadOrAdmin,
       Contract!Submittable, Submittable
  <2>. QED
    BY <2>2 DEF Contract!Next, Contract!Users, Users
<1>4. CASE r.op = "review" /\ ReviewEffect(r.pod, r.decision, r.seen)
  <2>1. PICK u \in Users : ReviewGuard(u, r.pod)
    BY <1>4
  <2>2. r.pod \in pods /\ r.pod \in PodIds /\ r.decision \in ReviewInputs
    BY <1>4, <2>1 DEF ReviewGuard
  <2>3. Contract!ReviewGuard(u, r.pod)
    BY <2>1 DEF ReviewGuard, Contract!ReviewGuard
  <2>4. CASE ReviewEffect(r.pod, r.decision, podStatus[r.pod])
    <3>1. Contract!CreateReview(u, r.pod, r.decision)
      BY <2>3, <2>4 DEF Contract!CreateReview, Contract!ReviewEffect, ReviewEffect,
         Contract!StatusAfter, StatusAfter
    <3>. QED
      BY <2>2, <3>1 DEF Contract!Next, Contract!Users, Users
  <2>5. CASE r.seen = "pilot" /\ podStatus[r.pod] = "completed"
    <3>1. CASE r.decision = "approved"
      <4>1. verdict[r.pod] = "approved" /\ "approved" \in reviews[r.pod]
        BY <2>2, <2>5 DEF FollowsVerdict
      <4>2. reviews' = reviews /\ verdict' = verdict
        BY <1>4, <2>2, <3>1, <4>1 DEF ReviewEffect, TypeOK, RowsTypeOK
      <4>3. podStatus' = podStatus
        BY <1>4, <2>5, <3>1 DEF ReviewEffect, StatusAfter
      <4>. QED
        BY <1>4, <4>2, <4>3 DEF ReviewEffect, rows
    <3>2. CASE r.decision # "approved"
      <4>1. /\ r.decision \in {"changes_requested", "rejected"}
            \/ /\ StatusAfter(r.decision, "pilot") = "pilot"
               /\ StatusAfter(r.decision, "completed") = "completed"
        BY <3>2 DEF StatusAfter
      <4>2. r.decision \in {"changes_requested", "rejected"} =>
              /\ StatusAfter(r.decision, "pilot") = StatusAfter(r.decision, "completed")
              /\ StatusAfter(r.decision, "pilot") \notin {"pilot", "completed"}
        BY DEF StatusAfter
      <4>3. ReviewEffect(r.pod, r.decision, podStatus[r.pod])
        BY <1>4, <2>5, <4>1, <4>2 DEF ReviewEffect
      <4>. QED
        BY <2>4, <4>3
    <3>. QED
      BY <3>1, <3>2
  <2>. QED
    BY <1>4, <2>4, <2>5
<1>5. CASE r.op = "adopt" /\ AdoptEffect(r.user, r.pod, r.seen)
  <2>1. Contract!AdoptPod(r.user, r.pod) /\ r.pod \in pods
    BY <1>5 DEF Contract!AdoptPod, Contract!AdoptGuard, AdoptGuard, Contract!AdoptEffect,
       AdoptEffect
  <2>. QED
    BY <1>5, <2>1 DEF Contract!Next, Contract!Users, Users
<1>6. CASE r.op = "relinquish" /\ RelinquishEffect(r.pod, r.seen)
  <2>1. PICK u \in Users : RelinquishGuard(u, r.pod)
    BY <1>6
  <2>2. Contract!RelinquishPod(u, r.pod) /\ r.pod \in pods
    BY <1>6, <2>1 DEF Contract!RelinquishPod, Contract!RelinquishGuard, RelinquishGuard,
       Contract!RelinquishEffect, RelinquishEffect
  <2>. QED
    BY <2>2 DEF Contract!Next, Contract!Users, Users
<1>7. CASE r.op = "moderate" /\ ModerateEffect(r.problem, r.status, r.seen)
  <2>1. Contract!ModerateProblem(r.problem, r.status)
    BY <1>7 DEF Contract!ModerateProblem, Contract!ModerateEffect, ModerateEffect
  <2>. QED
    BY <1>7, <2>1 DEF Contract!Next
<1>8. CASE r.op = "report" /\ ReportEffect(r.pod)
  <2>1. PICK u \in Users : ReportGuard(u, r.pod)
    BY <1>8
  <2>2. Contract!SubmitImpactReport(u, r.pod) /\ r.pod \in pods
    BY <1>8, <2>1 DEF Contract!SubmitImpactReport, Contract!ReportGuard, ReportGuard,
       Contract!ReportEffect, ReportEffect, Contract!LeadOrAdmin, LeadOrAdmin
  <2>. QED
    BY <2>2 DEF Contract!Next, Contract!Users, Users
<1>. QED
  BY <1>1, <1>2, <1>3, <1>4, <1>5, <1>6, <1>7, <1>8 DEF CommitOf

LEMMA CommitFollowsVerdict ==
  ASSUME TypeOK, FollowsVerdict, NEW r \in Request \cup {Idle}, Fresh(r), CommitOf(r)
  PROVE  FollowsVerdict'
<1> USE RequestFields DEF Fresh, TypeOK, RowsTypeOK, FollowsVerdict
<1>1. CASE r.op = "pick" /\ \E p \in PodIds \ pods : PickEffect(r.user, r.problem, p, r.seen)
  BY <1>1 DEF PickEffect
<1>2. CASE r.op = "submit" /\ SubmitEffect(r.pod)
  BY <1>2 DEF SubmitEffect
<1>3. CASE r.op = "review" /\ ReviewEffect(r.pod, r.decision, r.seen)
  <2>1. r.pod \in PodIds /\ r.decision \in ReviewDecision
    BY <1>3, InputsAssumption
  <2>2. /\ pods' = pods
        /\ \A p \in PodIds \ {r.pod} :
             podStatus'[p] = podStatus[p] /\ verdict'[p] = verdict[p] /\ reviews'[p] = reviews[p]
    BY <1>3 DEF ReviewEffect
  <2>3. /\ reviews'[r.pod] = reviews[r.pod] \cup {r.decision}
        /\ verdict'[r.pod] = IF r.decision = "pending" THEN verdict[r.pod] ELSE r.decision
    BY <1>3, <2>1 DEF ReviewEffect
  <2>4. CASE r.decision = "approved"
    BY <2>2, <2>3, <2>4
  <2>5. CASE r.decision = "pending"
    <3>1. podStatus' = podStatus
      BY <1>3, <2>5 DEF ReviewEffect, StatusAfter
    <3>. QED
      BY <2>2, <2>3, <2>5, <3>1
  <2>6. CASE r.decision \in {"changes_requested", "rejected"}
    <3>1. StatusAfter(r.decision, r.seen) \in {"in_progress", "rejected"}
      BY <2>6 DEF StatusAfter
    <3>2. podStatus'[r.pod] \notin {"pilot", "completed"}
      BY <1>3, <2>1, <3>1 DEF ReviewEffect
    <3>. QED
      BY <2>2, <3>2
  <2>. QED
    BY <2>1, <2>4, <2>5, <2>6 DEF ReviewDecision
<1>4. CASE UNCHANGED <<pods, podStatus, verdict, reviews>>
  BY <1>4
<1>. QED
  BY <1>1, <1>2, <1>3, <1>4 DEF CommitOf, AddMemberEffect, AdoptEffect, RelinquishEffect,
     ModerateEffect, ReportEffect

\* The operator completes a pod in pilot: nothing a request relies on is lost.
LEMMA OperatorKeepsFresh ==
  ASSUME TypeOK, NEW p \in pods, OperatorCompletes(p), NEW r \in Request \cup {Idle}, Fresh(r)
  PROVE  Fresh(r)'
<1>1. /\ podStatus[p] = "pilot" /\ p \in PodIds
      /\ podStatus' = [podStatus EXCEPT ![p] = "completed"]
      /\ UNCHANGED <<problemStatus, pods, podProblem, lead, mentor, university, members,
                     reviews, verdict, reports>>
  BY DEF OperatorCompletes, CompleteEffect, TypeOK, RowsTypeOK
<1>2. r.op = "pick" => PickGuard(r.user, r.problem)' /\ r.seen = problemStatus'[r.problem]
  BY <1>1 DEF Fresh, PickGuard, ActivePod, Participates, TypeOK, RowsTypeOK
<1>3. r.op = "add_member" => \E u \in Users : AddMemberGuard(u, r.pod)'
  BY <1>1 DEF Fresh, AddMemberGuard, LeadOrAdmin
<1>4. r.op = "submit" => \E u \in Users : SubmitGuard(u, r.pod)'
  BY <1>1 DEF Fresh, SubmitGuard, LeadOrAdmin, Submittable, TypeOK, RowsTypeOK
<1>5. r.op = "review" =>
       /\ \E u \in Users : ReviewGuard(u, r.pod)'
       /\ r.seen = podStatus'[r.pod] \/ (r.seen = "pilot" /\ podStatus'[r.pod] = "completed")
  BY <1>1, RequestFields DEF Fresh, ReviewGuard, TypeOK, RowsTypeOK
<1>6. r.op = "adopt" => AdoptGuard(r.user, r.pod)' /\ r.seen = university'[r.pod]
  BY <1>1 DEF Fresh, AdoptGuard
<1>7. r.op = "relinquish" =>
        (\E u \in Users : RelinquishGuard(u, r.pod)') /\ r.seen = mentor'[r.pod]
  BY <1>1 DEF Fresh, RelinquishGuard
<1>8. r.op = "moderate" => Admins # {} /\ r.seen = problemStatus'[r.problem]
  BY <1>1 DEF Fresh
<1>9. r.op = "report" => \E u \in Users : ReportGuard(u, r.pod)'
  BY <1>1, RequestFields DEF Fresh, ReportGuard, LeadOrAdmin, TypeOK, RowsTypeOK
<1>. QED
  BY <1>2, <1>3, <1>4, <1>5, <1>6, <1>7, <1>8, <1>9 DEF Fresh

LEMMA SameRowsFresh ==
  ASSUME UNCHANGED rows, NEW r, Fresh(r)
  PROVE  Fresh(r)'
  BY DEF rows, Fresh, PickGuard, ActivePod, Participates, AddMemberGuard, LeadOrAdmin,
     SubmitGuard, ReviewGuard, AdoptGuard, RelinquishGuard, ReportGuard

LEMMA SerialStep ==
  ASSUME OneSession, SerialInv, [Next]_vars
  PROVE  SerialInv' /\ (Contract!Next \/ UNCHANGED rows)
<1>0. TypeOK' /\ TypeOK
  BY TypeStep DEF SerialInv
<1>1. ASSUME NEW w \in Workers, Begin(w)
      PROVE  SerialInv' /\ UNCHANGED rows
  <2>1. PICK r : request' = [request EXCEPT ![w] = r] /\ Fresh(r)
    BY <1>1, BeginFresh
  <2>2. UNCHANGED rows
    BY <1>0, <1>1, BeginTyped
  <2>3. Fresh(r)'
    BY <2>1, <2>2, SameRowsFresh
  <2>4. \A v \in Workers : request'[v] = r
    BY <1>0, <2>1 DEF OneSession, TypeOK
  <2>5. \A v \in Workers : Fresh(request[v])'
    BY <2>3, <2>4 DEF Fresh
  <2>. QED
    BY <1>0, <2>2, <2>5 DEF SerialInv, FollowsVerdict, rows
<1>2. ASSUME NEW w \in Workers, Done(w)
      PROVE  \A v \in Workers : Fresh(request[v])'
  <2>1. \A v \in Workers : request'[v] = Idle
    BY <1>0, <1>2 DEF OneSession, TypeOK, Done
  <2>. QED
    BY <2>1 DEF Fresh, Idle
<1>3. ASSUME NEW w \in Workers, Finish(w)
      PROVE  SerialInv' /\ (Contract!Next \/ UNCHANGED rows)
  <2>1. CommitOf(request[w]) /\ Done(w)
    BY <1>3, FinishCommits
  <2>2. request[w] \in Request \cup {Idle} /\ Fresh(request[w]) /\ FollowsVerdict
    BY <1>0 DEF SerialInv, TypeOK
  <2>3. FollowsVerdict'
    BY <1>0, <2>1, <2>2, CommitFollowsVerdict
  <2>4. Contract!Next \/ UNCHANGED rows
    BY <1>0, <2>1, <2>2, CommitIsHandler
  <2>. QED
    BY <1>0, <1>2, <2>1, <2>3, <2>4 DEF SerialInv
<1>4. ASSUME NEW w \in Workers, Rollback(w)
      PROVE  SerialInv' /\ UNCHANGED rows
  BY <1>0, <1>2, <1>4 DEF Rollback, SerialInv, FollowsVerdict, rows
<1>5. ASSUME NEW p \in pods, OperatorCompletes(p)
      PROVE  SerialInv' /\ Contract!Next
  <2>1. Contract!OperatorCompletes(p)
    BY <1>5 DEF OperatorCompletes, CompleteEffect, Contract!OperatorCompletes,
       Contract!CompleteEffect
  <2>2. request' = request
    BY <1>5 DEF OperatorCompletes
  <2>3. \A w \in Workers : Fresh(request[w])'
    <3>. TAKE w \in Workers
    <3> DEFINE r == request[w]
    <3>1. r \in Request \cup {Idle} /\ Fresh(r)
      BY DEF SerialInv, TypeOK
    <3>. QED
      BY <1>0, <1>5, <2>2, <3>1, OperatorKeepsFresh DEF Fresh
  <2>4. FollowsVerdict'
    BY <1>0, <1>5 DEF OperatorCompletes, CompleteEffect, SerialInv, FollowsVerdict, TypeOK,
       RowsTypeOK
  <2>. QED
    BY <1>0, <2>1, <2>3, <2>4 DEF SerialInv, Contract!Next
<1>6. CASE UNCHANGED vars
  <2>1. UNCHANGED rows /\ request' = request
    BY <1>6 DEF vars
  <2>2. \A w \in Workers : Fresh(request[w])'
    BY <2>1, SameRowsFresh DEF SerialInv, Fresh
  <2>. QED
    BY <1>0, <2>1, <2>2 DEF SerialInv, FollowsVerdict, rows
<1>. QED
  BY <1>1, <1>3, <1>4, <1>5, <1>6 DEF Next

LEMMA SerialInit == Init => SerialInv /\ Contract!RowsInit
<1>1. Init => TypeOK
  BY TypeInit
<1>2. Init => (\A w \in Workers : Fresh(request[w])) /\ FollowsVerdict
  BY DEF Init, RowsInit, Fresh, Idle, FollowsVerdict
<1>3. Init => Contract!RowsInit
  BY DEF Init, RowsInit, Contract!RowsInit
<1>. QED
  BY <1>1, <1>2, <1>3 DEF SerialInv

\* One request at a time, the pod handlers behave as if each were one step: no
\* failure between its two halves, and no completion by the operator in between,
\* can be told from an execution of PodContract.
THEOREM SerialImplementsContract ==
  ASSUME OneSession
  PROVE  Spec => ImplementsContract
<1>1. SerialInv /\ [Next]_vars => SerialInv' /\ [Contract!Next]_rows
  BY SerialStep
<1>2. SerialInv /\ [Next]_vars => SerialInv' /\ [Contract!Next]_(Contract!rows)
  BY <1>1 DEF Contract!rows, rows
<1>. QED
  BY <1>2, SerialInit, PTL DEF Spec, ImplementsContract, Contract!Spec

\* One request at a time, a pod is on offer only with an approval as its newest
\* verdict.
THEOREM SerialVerdicts ==
  ASSUME OneSession
  PROVE  Spec => []VettedMatchesVerdict
<1>1. SerialInv /\ [Next]_vars => SerialInv'
  BY SerialStep
<1>2. SerialInv => VettedMatchesVerdict
  BY DEF SerialInv, FollowsVerdict, VettedMatchesVerdict, Contract!VettedMatchesVerdict
<1>. QED
  BY <1>1, <1>2, SerialInit, PTL DEF Spec

LEMMA CommitKeepsMentors ==
  ASSUME TypeOK, MentorFromPodUniversity, NEW r \in Request \cup {Idle}, Fresh(r), CommitOf(r)
  PROVE  MentorFromPodUniversity'
<1> USE DEF MentorFromPodUniversity, Contract!MentorFromPodUniversity, TypeOK, RowsTypeOK
<1>1. CASE r.op = "pick" /\ \E p \in PodIds \ pods : PickEffect(r.user, r.problem, p, r.seen)
  BY <1>1, NoneAssumption DEF PickEffect, Users
<1>2. CASE r.op = "adopt" /\ AdoptEffect(r.user, r.pod, r.seen)
  <2>1. /\ r.user \in Faculty \cup Admins /\ r.pod \in PodIds
        /\ r.user \in Admins \/ university[r.pod] \in {None, UniversityOf[r.user]}
        /\ r.seen = university[r.pod]
    BY <1>2, RequestFields DEF Fresh, AdoptGuard
  <2>2. /\ pods' = pods
        /\ mentor' = [mentor EXCEPT ![r.pod] = r.user]
        /\ university' = IF r.user \in Faculty /\ r.seen = None
                         THEN [university EXCEPT ![r.pod] = UniversityOf[r.user]]
                         ELSE university
    BY <1>2 DEF AdoptEffect
  <2>3. r.user \in Faculty => university'[r.pod] = UniversityOf[r.user]
    BY <2>1, <2>2, RolesAssumption
  <2>. QED
    BY <2>1, <2>2, <2>3
<1>3. CASE r.op = "relinquish" /\ RelinquishEffect(r.pod, r.seen)
  BY <1>3, RequestFields, NoneAssumption DEF RelinquishEffect, Users
<1>4. CASE UNCHANGED <<pods, mentor, university>>
  BY <1>4
<1>. QED
  BY <1>1, <1>2, <1>3, <1>4 DEF CommitOf, AddMemberEffect, SubmitEffect, ReviewEffect,
     ModerateEffect, ReportEffect

\* One request at a time, a faculty member mentors only pods of their own
\* university, and a pod that had none has taken over its mentor's.
THEOREM SerialMentors ==
  ASSUME OneSession
  PROVE  Spec => []MentorFromPodUniversity
<1> DEFINE Inv == SerialInv /\ MentorFromPodUniversity
<1>1. Init => Inv
  BY SerialInit DEF Init, RowsInit, MentorFromPodUniversity, Contract!MentorFromPodUniversity
<1>2. Inv /\ [Next]_vars => Inv'
  <2> SUFFICES ASSUME Inv, [Next]_vars PROVE MentorFromPodUniversity'
    BY SerialStep
  <2>1. TypeOK
    BY DEF SerialInv
  <2>2. ASSUME NEW w \in Workers, Finish(w) PROVE MentorFromPodUniversity'
    <3>1. CommitOf(request[w]) /\ request[w] \in Request \cup {Idle} /\ Fresh(request[w])
      BY <2>2, FinishCommits DEF SerialInv, TypeOK
    <3>. QED
      BY <2>1, <3>1, CommitKeepsMentors
  <2>3. CASE UNCHANGED <<pods, mentor, university>>
    BY <2>3 DEF MentorFromPodUniversity, Contract!MentorFromPodUniversity
  <2>4. ASSUME NEW w \in Workers, Begin(w) PROVE UNCHANGED <<pods, mentor, university>>
    BY <2>1, <2>4, BeginTyped DEF rows
  <2>5. ASSUME NEW w \in Workers, Rollback(w) PROVE UNCHANGED <<pods, mentor, university>>
    BY <2>5 DEF Rollback, rows
  <2>6. ASSUME NEW p \in pods, OperatorCompletes(p) PROVE UNCHANGED <<pods, mentor, university>>
    BY <2>6 DEF OperatorCompletes, CompleteEffect
  <2>7. CASE UNCHANGED vars
    BY <2>3, <2>7 DEF vars, rows
  <2>. QED
    BY <2>2, <2>3, <2>4, <2>5, <2>6, <2>7 DEF Next
<1>. QED
  BY <1>1, <1>2, PTL DEF Spec
=============================================================================
