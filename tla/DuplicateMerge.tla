---------------------------- MODULE DuplicateMerge ----------------------------
(***************************************************************************)
(* Duplicate reports: detection proposes links between problems, an        *)
(* administrator dismisses them or merges a problem into a canonical one,  *)
(* endorsements move along, authors and administrators delete problems.    *)
(*                                                                         *)
(* Every handler (and the Celery task, which runs the same service) has a  *)
(* session of its own: it loads and checks, and commits later what it      *)
(* decided.  The database refuses a commit that inserts a row twice        *)
(* (uq_problem_duplicate_link_pair, uq_problem_user_endorsement), refers   *)
(* to a deleted problem or updates a deleted row; the request then rolls   *)
(* back.                                                                   *)
(*                                                                         *)
(* Problem statuses are told apart only as the code here tells them:       *)
(* "duplicate", "rejected" and "open" for the others.  Similarity scores,  *)
(* verdicts and embeddings are reduced to Similar, the pairs a search may  *)
(* return.  Problems with pods, which cannot be deleted, are left out.     *)
(***************************************************************************)
EXTENDS Naturals, FiniteSets

CONSTANTS Problems, Endorsers, Similar, ModerationInputs, Workers, None

Status == {"open", "rejected", "duplicate"}
LinkStatus == {"pending", "confirmed", "dismissed"}   \* DuplicateLinkStatus

ASSUME InputsAssumption ==
  Similar \subseteq Problems \X Problems /\ ModerationInputs \subseteq Status
ASSUME NoneAssumption == None \notin Problems

VARIABLES
  problems,      \* rows of problems
  status,        \* problems.status
  duplicateOf,   \* problems.duplicate_of_id
  link,          \* problem_duplicate_links.status, "none" for a missing row
  endorsed,      \* problem_endorsements: users of each problem
  request

rows == <<problems, status, duplicateOf, link, endorsed>>
vars == <<rows, request>>

Idle == [op |-> "idle"]

Request ==
  [op : {"detect"}, problem : Problems, new : SUBSET Problems]
  \cup [op : {"merge"}, problem : Problems, target : Problems,
        link : LinkStatus \cup {"none"}, transfer : SUBSET Endorsers]
  \cup [op : {"dismiss"}, problem : Problems, target : Problems, link : LinkStatus]
  \cup [op : {"endorse", "unendorse"}, problem : Problems, user : Endorsers]
  \cup [op : {"moderate"}, problem : Problems, to : Status, seen : Status]
  \cup [op : {"delete"}, problem : Problems]

TypeOK ==
  /\ problems \subseteq Problems
  /\ status \in [Problems -> Status]
  /\ duplicateOf \in [Problems -> Problems \cup {None}]
  /\ link \in [Problems \X Problems -> LinkStatus \cup {"none"}]
  /\ endorsed \in [Problems -> SUBSET Endorsers]
  /\ request \in [Workers -> Request \cup {Idle}]

Init ==
  /\ problems = Problems
  /\ status = [p \in Problems |-> "open"]
  /\ duplicateOf = [p \in Problems |-> None]
  /\ link = [pair \in Problems \X Problems |-> "none"]
  /\ endorsed = [p \in Problems |-> {}]
  /\ request = [w \in Workers |-> Idle]

\* Nobody in S is merged into a problem outside S.
Closed(S) == \A q \in S : duplicateOf[q] \in S \cup {None}

\* The problems reached from p by following duplicate_of_id, as the while loop
\* of merge_problems does, which stops at a problem it has seen: the members of
\* every closed set that holds the problem p is merged into.
Chain(p) ==
  {q \in Problems : \A S \in SUBSET Problems :
                      Closed(S) /\ duplicateOf[p] \in S \cup {None} => q \in S}

-----------------------------------------------------------------------------
(* Load and check *)

Load(w, r) ==
  /\ request[w] = Idle
  /\ request' = [request EXCEPT ![w] = r]
  /\ UNCHANGED rows

\* _vector_search: neither rejected problems nor duplicates are candidates.
Candidates(p) == {c \in problems \ {p} : <<p, c>> \in Similar /\ status[c] = "open"}

\* run_moderation_detection: scoring and the model's verdict keep some of the
\* candidates; a link that exists keeps its status.
BeginDetect(w, p) ==
  /\ p \in problems
  /\ \E found \in SUBSET Candidates(p) :
       Load(w, [op |-> "detect", problem |-> p,
                new |-> {c \in found : link[<<p, c>>] = "none"}])

\* Mutant of MergeGuard: a cycle check of the first hop only.
MergeGuard_FirstHop(p, t) ==
  /\ {p, t} \subseteq problems /\ p # t
  /\ status[p] # "duplicate" /\ duplicateOf[p] = None
  /\ duplicateOf[t] # p

\* The target may itself be merged, rejected, or marked a duplicate.
MergeGuard(p, t) ==
  /\ {p, t} \subseteq problems /\ p # t
  /\ status[p] # "duplicate" /\ duplicateOf[p] = None
  /\ p \notin Chain(t)

\* Mutant of Transfer: the two problems are swapped.
Transfer_Swapped(p, t) == endorsed[t] \ endorsed[p]

\* Endorsements to insert: users of p who do not endorse t yet.
Transfer(p, t) == endorsed[p] \ endorsed[t]

BeginMerge(w, p, t) ==
  /\ MergeGuard(p, t)
  /\ Load(w, [op |-> "merge", problem |-> p, target |-> t,
              link |-> link[<<p, t>>], transfer |-> Transfer(p, t)])

\* A link in any status can be dismissed.
BeginDismiss(w, p, t) ==
  /\ link[<<p, t>>] # "none"
  /\ Load(w, [op |-> "dismiss", problem |-> p, target |-> t, link |-> link[<<p, t>>]])

BeginToggle(w, u, p) ==
  /\ p \in problems
  /\ Load(w, [op |-> IF u \in endorsed[p] THEN "unendorse" ELSE "endorse",
              problem |-> p, user |-> u])

BeginModerate(w, p, to) ==
  /\ p \in problems
  /\ Load(w, [op |-> "moderate", problem |-> p, to |-> to, seen |-> status[p]])

BeginDelete(w, p) == p \in problems /\ Load(w, [op |-> "delete", problem |-> p])

-----------------------------------------------------------------------------
(* Write and commit, or roll back *)

Done(w) == request' = [request EXCEPT ![w] = Idle]

\* Mutant of DetectEffect: links that exist are proposed again.
DetectEffect_Resurrect(p, new) ==
  /\ {p} \cup new \subseteq problems
  /\ link' = [pair \in Problems \X Problems |->
                IF pair[1] = p /\ <<p, pair[2]>> \in Similar /\ link[pair] # "confirmed"
                THEN "pending" ELSE link[pair]]
  /\ UNCHANGED <<problems, status, duplicateOf, endorsed>>

DetectEffect(p, new) ==
  /\ {p} \cup new \subseteq problems
  /\ \A c \in new : link[<<p, c>>] = "none"
  /\ link' = [pair \in Problems \X Problems |->
                IF pair[1] = p /\ pair[2] \in new THEN "pending" ELSE link[pair]]
  /\ UNCHANGED <<problems, status, duplicateOf, endorsed>>

\* Mutant of MergeEffect: a missing link is not created.
MergeEffect_NoLink(p, t, seen, transfer) ==
  /\ {p, t} \subseteq problems
  /\ endorsed[t] \cap transfer = {}
  /\ duplicateOf' = [duplicateOf EXCEPT ![p] = t]
  /\ status' = [status EXCEPT ![p] = "duplicate"]
  /\ link' = IF seen = "none" THEN link ELSE [link EXCEPT ![<<p, t>>] = "confirmed"]
  /\ endorsed' = [endorsed EXCEPT ![t] = @ \cup transfer]
  /\ UNCHANGED problems

\* A link that was missing is inserted, one that was there is confirmed.
MergeEffect(p, t, seen, transfer) ==
  /\ {p, t} \subseteq problems
  /\ (seen = "none") = (link[<<p, t>>] = "none")
  /\ endorsed[t] \cap transfer = {}
  /\ duplicateOf' = [duplicateOf EXCEPT ![p] = t]
  /\ status' = [status EXCEPT ![p] = "duplicate"]
  /\ link' = IF seen = "confirmed" THEN link ELSE [link EXCEPT ![<<p, t>>] = "confirmed"]
  /\ endorsed' = [endorsed EXCEPT ![t] = @ \cup transfer]
  /\ UNCHANGED problems

DismissEffect(p, t, seen) ==
  /\ link[<<p, t>>] # "none"
  /\ link' = IF seen = "dismissed" THEN link ELSE [link EXCEPT ![<<p, t>>] = "dismissed"]
  /\ UNCHANGED <<problems, status, duplicateOf, endorsed>>

EndorseEffect(p, u) ==
  /\ p \in problems /\ u \notin endorsed[p]
  /\ endorsed' = [endorsed EXCEPT ![p] = @ \cup {u}]
  /\ UNCHANGED <<problems, status, duplicateOf, link>>

UnendorseEffect(p, u) ==
  /\ endorsed' = [endorsed EXCEPT ![p] = @ \ {u}]
  /\ UNCHANGED <<problems, status, duplicateOf, link>>

ModerateEffect(p, to, seen) ==
  /\ p \in problems
  /\ status' = IF to = seen THEN status ELSE [status EXCEPT ![p] = to]
  /\ UNCHANGED <<problems, duplicateOf, link, endorsed>>

\* Links and endorsements go with the problem, duplicates of it lose their
\* canonical problem and keep the status "duplicate".
DeleteEffect(p) ==
  /\ p \in problems
  /\ problems' = problems \ {p}
  /\ status' = [status EXCEPT ![p] = "open"]
  /\ duplicateOf' = [q \in Problems |->
                       IF p \in {q, duplicateOf[q]} THEN None ELSE duplicateOf[q]]
  /\ link' = [pair \in Problems \X Problems |->
                IF p \in {pair[1], pair[2]} THEN "none" ELSE link[pair]]
  /\ endorsed' = [endorsed EXCEPT ![p] = {}]

FinishDetect(w) ==
  /\ request[w].op = "detect"
  /\ DetectEffect(request[w].problem, request[w].new)
  /\ Done(w)

FinishMerge(w) ==
  /\ request[w].op = "merge"
  /\ MergeEffect(request[w].problem, request[w].target, request[w].link, request[w].transfer)
  /\ Done(w)

FinishDismiss(w) ==
  /\ request[w].op = "dismiss"
  /\ DismissEffect(request[w].problem, request[w].target, request[w].link)
  /\ Done(w)

FinishToggle(w) ==
  /\ \/ /\ request[w].op = "endorse"
        /\ EndorseEffect(request[w].problem, request[w].user)
     \/ /\ request[w].op = "unendorse"
        /\ UnendorseEffect(request[w].problem, request[w].user)
  /\ Done(w)

FinishModerate(w) ==
  /\ request[w].op = "moderate"
  /\ ModerateEffect(request[w].problem, request[w].to, request[w].seen)
  /\ Done(w)

FinishDelete(w) ==
  /\ request[w].op = "delete"
  /\ DeleteEffect(request[w].problem)
  /\ Done(w)

Rollback(w) == request[w] # Idle /\ Done(w) /\ UNCHANGED rows

-----------------------------------------------------------------------------
Begin(w) ==
  \/ \E p \in Problems : BeginDetect(w, p) \/ BeginDelete(w, p)
  \/ \E p, t \in Problems : BeginMerge(w, p, t) \/ BeginDismiss(w, p, t)
  \/ \E u \in Endorsers, p \in Problems : BeginToggle(w, u, p)
  \/ \E p \in Problems, to \in ModerationInputs : BeginModerate(w, p, to)

Finish(w) ==
  \/ FinishDetect(w) \/ FinishMerge(w) \/ FinishDismiss(w)
  \/ FinishToggle(w) \/ FinishModerate(w) \/ FinishDelete(w)

Next == \E w \in Workers : Begin(w) \/ Finish(w) \/ Rollback(w)

Spec == Init /\ [][Next]_vars

-----------------------------------------------------------------------------
(* What holds however requests overlap *)

\* "A human dismissal is durable; automated reruns must not resurrect it": a
\* dismissed link becomes pending again only if its problem is deleted and so
\* is the link; a merge may still confirm it.
DismissalDurable ==
  [][\A p, t \in Problems :
       link[<<p, t>>] = "dismissed" /\ {p, t} \subseteq problems'
         => link'[<<p, t>>] \in {"dismissed", "confirmed"}]_vars

\* A merged problem points to a problem that exists, and the link between them
\* is on record whichever of two overlapping merges wrote last.
MergedHasLink ==
  \A p \in problems :
    duplicateOf[p] # None => duplicateOf[p] \in problems /\ link[<<p, duplicateOf[p]>>] # "none"

-----------------------------------------------------------------------------
(* What holds as long as requests do not overlap *)

\* Following "duplicate of" never leads back (MERGE_CYCLE_DETECTED).
NoMergeCycle == \A p \in Problems : p \notin Chain(p)

\* Merging loses no supporter: whoever endorsed the merged problem endorses the
\* canonical one.
EndorsersFollow ==
  [][\A p, t \in Problems :
       duplicateOf[p] = None /\ duplicateOf'[p] = t => endorsed[p] \subseteq endorsed'[t]]_vars
=============================================================================
