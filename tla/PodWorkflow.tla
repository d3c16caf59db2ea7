----------------------------- MODULE PodWorkflow -----------------------------
(***************************************************************************)
(* The pod handlers as they run: every request has a database session of   *)
(* its own, reads and checks first, and writes what it decided later, when *)
(* other requests may have committed in between (READ COMMITTED, no row    *)
(* locks on reads).  A request in flight remembers what it loaded.  Its    *)
(* writes become visible in one step, the commit; until then it may fail   *)
(* (a refused insert, a lost connection, a crash, a notification that      *)
(* cannot be stored) and roll back.                                        *)
(*                                                                         *)
(* A handler that issues several queries is taken to read them in one      *)
(* step.  Requests refused by a guard change nothing and are left out.     *)
(***************************************************************************)
EXTENDS PodRows

CONSTANT Workers   \* sessions that may be in flight at the same time

VARIABLE request   \* what each session has loaded and means to write

vars == <<rows, request>>

Idle == [op |-> "idle"]

Request ==
  [op : {"pick"}, user : Users, problem : Problems, seen : ProblemStatus]
  \cup [op : {"add_member"}, pod : PodIds, new : Users]
  \cup [op : {"submit"}, pod : PodIds]
  \cup [op : {"review"}, pod : PodIds, decision : ReviewInputs, seen : ProjectStatus]
  \cup [op : {"adopt"}, user : Users, pod : PodIds, seen : Universities \cup {None}]
  \cup [op : {"relinquish"}, pod : PodIds, seen : Users \cup {None}]
  \cup [op : {"moderate"}, problem : Problems, status : ModerationInputs,
        seen : ProblemStatus]
  \cup [op : {"report"}, pod : PodIds]

TypeOK == RowsTypeOK /\ request \in [Workers -> Request \cup {Idle}]

Init == RowsInit /\ request = [w \in Workers |-> Idle]

-----------------------------------------------------------------------------
(* Load and check *)

Load(w, r) ==
  /\ request[w] = Idle
  /\ request' = [request EXCEPT ![w] = r]
  /\ UNCHANGED rows

BeginPick(w, u, q) ==
  /\ PickGuard(u, q)
  /\ Load(w, [op |-> "pick", user |-> u, problem |-> q, seen |-> problemStatus[q]])

BeginAddMember(w, u, p, new) ==
  AddMemberGuard(u, p) /\ Load(w, [op |-> "add_member", pod |-> p, new |-> new])

\* Mutant of BeginSubmit: the status is not looked at.
BeginSubmit_AnyStatus(w, u, p) ==
  /\ p \in pods /\ LeadOrAdmin(u, p)
  /\ Load(w, [op |-> "submit", pod |-> p])

BeginSubmit(w, u, p) ==
  SubmitGuard(u, p) /\ Load(w, [op |-> "submit", pod |-> p])

BeginReview(w, u, p, d) ==
  /\ ReviewGuard(u, p)
  /\ Load(w, [op |-> "review", pod |-> p, decision |-> d, seen |-> podStatus[p]])

BeginAdopt(w, u, p) ==
  /\ AdoptGuard(u, p)
  /\ Load(w, [op |-> "adopt", user |-> u, pod |-> p, seen |-> university[p]])

BeginRelinquish(w, u, p) ==
  /\ RelinquishGuard(u, p)
  /\ Load(w, [op |-> "relinquish", pod |-> p, seen |-> mentor[p]])

BeginModerate(w, q, s) ==
  /\ Admins # {}
  /\ Load(w, [op |-> "moderate", problem |-> q, status |-> s, seen |-> problemStatus[q]])

BeginReport(w, u, p) ==
  ReportGuard(u, p) /\ Load(w, [op |-> "report", pod |-> p])

-----------------------------------------------------------------------------
(* Write and commit, or roll back *)

Done(w) == request' = [request EXCEPT ![w] = Idle]

FinishPick(w) ==
  /\ request[w].op = "pick"
  /\ \E p \in PodIds \ pods :
       PickEffect(request[w].user, request[w].problem, p, request[w].seen)
  /\ Done(w)

FinishAddMember(w) ==
  /\ request[w].op = "add_member"
  /\ AddMemberEffect(request[w].pod, request[w].new)
  /\ Done(w)

FinishSubmit(w) ==
  /\ request[w].op = "submit"
  /\ SubmitEffect(request[w].pod)
  /\ Done(w)

FinishReview(w) ==
  /\ request[w].op = "review"
  /\ ReviewEffect(request[w].pod, request[w].decision, request[w].seen)
  /\ Done(w)

FinishAdopt(w) ==
  /\ request[w].op = "adopt"
  /\ AdoptEffect(request[w].user, request[w].pod, request[w].seen)
  /\ Done(w)

FinishRelinquish(w) ==
  /\ request[w].op = "relinquish"
  /\ RelinquishEffect(request[w].pod, request[w].seen)
  /\ Done(w)

FinishModerate(w) ==
  /\ request[w].op = "moderate"
  /\ ModerateEffect(request[w].problem, request[w].status, request[w].seen)
  /\ Done(w)

FinishReport(w) ==
  /\ request[w].op = "report"
  /\ ReportEffect(request[w].pod)
  /\ Done(w)

Rollback(w) == request[w] # Idle /\ Done(w) /\ UNCHANGED rows

OperatorCompletes(p) == CompleteEffect(p) /\ UNCHANGED request

-----------------------------------------------------------------------------
Begin(w) ==
  \/ \E u \in Users, q \in Problems : BeginPick(w, u, q)
  \/ \E u \in Users, p \in pods, new \in Users : BeginAddMember(w, u, p, new)
  \/ \E u \in Users, p \in pods : BeginSubmit(w, u, p)
  \/ \E u \in Users, p \in pods, d \in ReviewInputs : BeginReview(w, u, p, d)
  \/ \E u \in Users, p \in pods : BeginAdopt(w, u, p)
  \/ \E u \in Users, p \in pods : BeginRelinquish(w, u, p)
  \/ \E q \in Problems, s \in ModerationInputs : BeginModerate(w, q, s)
  \/ \E u \in Users, p \in pods : BeginReport(w, u, p)

Finish(w) ==
  \/ FinishPick(w) \/ FinishAddMember(w) \/ FinishSubmit(w) \/ FinishReview(w)
  \/ FinishAdopt(w) \/ FinishRelinquish(w) \/ FinishModerate(w) \/ FinishReport(w)

Next ==
  \/ \E w \in Workers : Begin(w) \/ Finish(w) \/ Rollback(w)
  \/ \E p \in pods : OperatorCompletes(p)

Spec == Init /\ [][Next]_vars

-----------------------------------------------------------------------------
(* What holds however requests overlap *)

\* Stale writes can misplace a pod but never put it on offer to industry, or
\* let it report impact, without an approving review on record: the only
\* handler that writes "pilot" inserts that review in the same transaction.
VettedByReview ==
  \A p \in pods :
    podStatus[p] \in {"pilot", "completed"} \/ reports[p] > 0 => "approved" \in reviews[p]

-----------------------------------------------------------------------------
(* What the handlers promise and keep as long as requests do not overlap *)

Contract == INSTANCE PodContract

\* With a single session every behaviour is one of PodContract: the read step
\* and a rollback stutter, the commit is the whole handler.
ImplementsContract == Contract!Spec

\* The promises by name, for runs with one session (where they hold) and with
\* two (where they do not, see the README).
MentorFromPodUniversity == Contract!MentorFromPodUniversity
VettedMatchesVerdict == Contract!VettedMatchesVerdict
=============================================================================
