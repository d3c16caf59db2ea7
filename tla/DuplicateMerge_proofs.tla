------------------------ MODULE DuplicateMerge_proofs ------------------------
(***************************************************************************)
(* Proofs about links and merges with any number of overlapping requests,  *)
(* problems and endorsers.                                                 *)
(***************************************************************************)
EXTENDS DuplicateMerge, TLAPS

-----------------------------------------------------------------------------
(* Types *)

\* What a request in flight carries, by handler.
LEMMA RequestFields ==
  ASSUME NEW r \in Request \cup {Idle}
  PROVE  /\ r.op = "detect" => r.problem \in Problems /\ r.new \subseteq Problems
         /\ r.op = "merge" => /\ r.problem \in Problems /\ r.target \in Problems
                              /\ r.transfer \subseteq Endorsers
         /\ r.op = "dismiss" => r.problem \in Problems /\ r.target \in Problems
         /\ r.op \in {"endorse", "unendorse"} => r.problem \in Problems /\ r.user \in Endorsers
         /\ r.op = "moderate" => r.problem \in Problems /\ r.to \in Status
         /\ r.op = "delete" => r.problem \in Problems
  BY DEF Request, Idle

RowsTyped ==
  /\ problems \subseteq Problems
  /\ status \in [Problems -> Status]
  /\ duplicateOf \in [Problems -> Problems \cup {None}]
  /\ link \in [Problems \X Problems -> LinkStatus \cup {"none"}]
  /\ endorsed \in [Problems -> SUBSET Endorsers]

LEMMA BeginLoads ==
  ASSUME TypeOK, NEW w \in Workers, Begin(w)
  PROVE  (\E r \in Request : request' = [request EXCEPT ![w] = r]) /\ UNCHANGED rows
<1> USE DEF TypeOK, Load
<1>1. ASSUME NEW p \in Problems, BeginDetect(w, p)
      PROVE  (\E r \in Request : request' = [request EXCEPT ![w] = r]) /\ UNCHANGED rows
  <2>1. PICK found \in SUBSET Candidates(p) :
          Load(w, [op |-> "detect", problem |-> p,
                   new |-> {c \in found : link[<<p, c>>] = "none"}])
    BY <1>1 DEF BeginDetect
  <2>2. {c \in found : link[<<p, c>>] = "none"} \in SUBSET Problems
    BY DEF Candidates
  <2>3. [op |-> "detect", problem |-> p, new |-> {c \in found : link[<<p, c>>] = "none"}]
          \in Request
    BY <2>2 DEF Request
  <2>. QED
    BY <2>1, <2>3
<1>2. ASSUME NEW p \in Problems, BeginDelete(w, p)
      PROVE  (\E r \in Request : request' = [request EXCEPT ![w] = r]) /\ UNCHANGED rows
  BY <1>2 DEF BeginDelete, Request
<1>3. ASSUME NEW p \in Problems, NEW t \in Problems, BeginMerge(w, p, t)
      PROVE  (\E r \in Request : request' = [request EXCEPT ![w] = r]) /\ UNCHANGED rows
  <2>1. Transfer(p, t) \in SUBSET Endorsers /\ link[<<p, t>>] \in LinkStatus \cup {"none"}
    BY DEF Transfer
  <2>2. [op |-> "merge", problem |-> p, target |-> t, link |-> link[<<p, t>>],
         transfer |-> Transfer(p, t)] \in Request
    BY <2>1 DEF Request
  <2>. QED
    BY <1>3, <2>2 DEF BeginMerge
<1>4. ASSUME NEW p \in Problems, NEW t \in Problems, BeginDismiss(w, p, t)
      PROVE  (\E r \in Request : request' = [request EXCEPT ![w] = r]) /\ UNCHANGED rows
  <2>1. link[<<p, t>>] \in LinkStatus
    BY <1>4 DEF BeginDismiss
  <2>2. [op |-> "dismiss", problem |-> p, target |-> t, link |-> link[<<p, t>>]] \in Request
    BY <2>1 DEF Request
  <2>. QED
    BY <1>4, <2>2 DEF BeginDismiss
<1>5. ASSUME NEW u \in Endorsers, NEW p \in Problems, BeginToggle(w, u, p)
      PROVE  (\E r \in Request : request' = [request EXCEPT ![w] = r]) /\ UNCHANGED rows
  <2>1. [op |-> IF u \in endorsed[p] THEN "unendorse" ELSE "endorse",
         problem |-> p, user |-> u] \in Request
    BY DEF Request
  <2>. QED
    BY <1>5, <2>1 DEF BeginToggle
<1>6. ASSUME NEW p \in Problems, NEW to \in ModerationInputs, BeginModerate(w, p, to)
      PROVE  (\E r \in Request : request' = [request EXCEPT ![w] = r]) /\ UNCHANGED rows
  <2>1. [op |-> "moderate", problem |-> p, to |-> to, seen |-> status[p]] \in Request
    BY InputsAssumption DEF Request
  <2>. QED
    BY <1>6, <2>1 DEF BeginModerate
<1>. QED
  BY <1>1, <1>2, <1>3, <1>4, <1>5, <1>6 DEF Begin

\* The commit of a request that has loaded r.
CommitOf(r) ==
  \/ r.op = "detect" /\ DetectEffect(r.problem, r.new)
  \/ r.op = "merge" /\ MergeEffect(r.problem, r.target, r.link, r.transfer)
  \/ r.op = "dismiss" /\ DismissEffect(r.problem, r.target, r.link)
  \/ r.op = "endorse" /\ EndorseEffect(r.problem, r.user)
  \/ r.op = "unendorse" /\ UnendorseEffect(r.problem, r.user)
  \/ r.op = "moderate" /\ ModerateEffect(r.problem, r.to, r.seen)
  \/ r.op = "delete" /\ DeleteEffect(r.problem)

LEMMA FinishCommits ==
  ASSUME NEW w \in Workers, Finish(w)
  PROVE  CommitOf(request[w]) /\ Done(w)
  BY DEF Finish, FinishDetect, FinishMerge, FinishDismiss, FinishToggle,
         FinishModerate, FinishDelete, CommitOf

LEMMA CommitTyped ==
  ASSUME RowsTyped, NEW r \in Request \cup {Idle}, CommitOf(r)
  PROVE  RowsTyped'
<1> USE RequestFields DEF RowsTyped, LinkStatus
<1>1. CASE r.op = "detect" /\ DetectEffect(r.problem, r.new)
  BY <1>1 DEF DetectEffect
<1>2. CASE r.op = "merge" /\ MergeEffect(r.problem, r.target, r.link, r.transfer)
  BY <1>2 DEF MergeEffect, Status
<1>3. CASE r.op = "dismiss" /\ DismissEffect(r.problem, r.target, r.link)
  BY <1>3 DEF DismissEffect
<1>4. CASE r.op = "endorse" /\ EndorseEffect(r.problem, r.user)
  BY <1>4 DEF EndorseEffect
<1>5. CASE r.op = "unendorse" /\ UnendorseEffect(r.problem, r.user)
  BY <1>5 DEF UnendorseEffect
<1>6. CASE r.op = "moderate" /\ ModerateEffect(r.problem, r.to, r.seen)
  BY <1>6 DEF ModerateEffect
<1>7. CASE r.op = "delete" /\ DeleteEffect(r.problem)
  BY <1>7 DEF DeleteEffect, Status
<1>. QED
  BY <1>1, <1>2, <1>3, <1>4, <1>5, <1>6, <1>7 DEF CommitOf

\* A step leaves the rows alone or commits a typed request.
LEMMA StepCommits ==
  ASSUME TypeOK, [Next]_vars
  PROVE  UNCHANGED rows \/ \E r \in Request \cup {Idle} : CommitOf(r)
<1>1. ASSUME NEW w \in Workers, Finish(w)
      PROVE  \E r \in Request \cup {Idle} : CommitOf(r)
  BY <1>1, FinishCommits DEF TypeOK
<1>. QED
  BY <1>1, BeginLoads DEF Next, Rollback, vars

LEMMA TypeInit == Init => TypeOK
<1>. SUFFICES ASSUME Init PROVE TypeOK
  OBVIOUS
<1>1. status \in [Problems -> Status] /\ duplicateOf \in [Problems -> Problems \cup {None}]
  BY DEF Init, Status
<1>2. /\ link \in [Problems \X Problems -> LinkStatus \cup {"none"}]
      /\ endorsed \in [Problems -> SUBSET Endorsers]
      /\ request \in [Workers -> Request \cup {Idle}]
  BY DEF Init
<1>. QED
  BY <1>1, <1>2 DEF Init, TypeOK

LEMMA TypeStep == TypeOK /\ [Next]_vars => TypeOK'
<1>. SUFFICES ASSUME TypeOK, [Next]_vars PROVE TypeOK'
  OBVIOUS
<1>1. RowsTyped
  BY DEF TypeOK, RowsTyped
<1>2. RowsTyped'
  BY <1>1, StepCommits, CommitTyped DEF RowsTyped, rows
<1>3. request' \in [Workers -> Request \cup {Idle}]
  BY BeginLoads, FinishCommits DEF Next, Rollback, Done, TypeOK, vars
<1>. QED
  BY <1>2, <1>3 DEF TypeOK, RowsTyped

\* However requests overlap, problems, links, endorsements and requests in
\* flight hold values of their types.
THEOREM TypeCorrect == Spec => []TypeOK
<1>. QED
  BY TypeInit, TypeStep, PTL DEF Spec

-----------------------------------------------------------------------------
(* Links of merged problems *)

LEMMA CommitKeepsLink ==
  ASSUME RowsTyped, MergedHasLink, NEW r \in Request \cup {Idle}, CommitOf(r)
  PROVE  MergedHasLink'
<1> USE NoneAssumption, RequestFields DEF RowsTyped
<1>1. CASE r.op = "detect" /\ DetectEffect(r.problem, r.new)
  <2>1. /\ UNCHANGED <<problems, duplicateOf>>
        /\ \A pair \in Problems \X Problems : link[pair] # "none" => link'[pair] # "none"
    BY <1>1 DEF DetectEffect
  <2>. QED
    BY <2>1 DEF MergedHasLink
<1>2. CASE r.op = "merge" /\ MergeEffect(r.problem, r.target, r.link, r.transfer)
  <2>1. /\ problems' = problems /\ r.target \in problems /\ r.problem \in Problems
        /\ duplicateOf' = [duplicateOf EXCEPT ![r.problem] = r.target]
        /\ (r.link = "none") = (link[<<r.problem, r.target>>] = "none")
        /\ link' = IF r.link = "confirmed" THEN link
                   ELSE [link EXCEPT ![<<r.problem, r.target>>] = "confirmed"]
    BY <1>2 DEF MergeEffect
  <2>2. /\ link'[<<r.problem, r.target>>] # "none"
        /\ \A pair \in Problems \X Problems : link[pair] # "none" => link'[pair] # "none"
    BY <2>1
  <2>3. \A p \in problems \ {r.problem} : duplicateOf'[p] = duplicateOf[p]
    BY <2>1
  <2>4. duplicateOf'[r.problem] = r.target
    BY <2>1
  <2>. QED
    BY <2>1, <2>2, <2>3, <2>4 DEF MergedHasLink
<1>3. CASE r.op = "dismiss" /\ DismissEffect(r.problem, r.target, r.link)
  <2>1. /\ UNCHANGED <<problems, duplicateOf>>
        /\ \A pair \in Problems \X Problems : link[pair] # "none" => link'[pair] # "none"
    BY <1>3 DEF DismissEffect
  <2>. QED
    BY <2>1 DEF MergedHasLink
<1>4. CASE UNCHANGED <<problems, duplicateOf, link>>
  BY <1>4 DEF MergedHasLink
<1>5. CASE r.op = "delete" /\ DeleteEffect(r.problem)
  <2>1. \A p \in problems' :
          duplicateOf'[p] # None =>
            /\ p \in problems /\ duplicateOf'[p] = duplicateOf[p]
            /\ p # r.problem /\ duplicateOf[p] # r.problem
    BY <1>5 DEF DeleteEffect
  <2>2. \A p, t \in Problems :
          r.problem \notin {p, t} => link'[<<p, t>>] = link[<<p, t>>]
    BY <1>5 DEF DeleteEffect
  <2>. QED
    BY <1>5, <2>1, <2>2 DEF DeleteEffect, MergedHasLink
<1>. QED
  BY <1>1, <1>2, <1>3, <1>4, <1>5
     DEF CommitOf, EndorseEffect, UnendorseEffect, ModerateEffect

\* Whatever merges, dismissals, searches and deletions overlap, a merged
\* problem points to a problem that exists and has its link on record.
THEOREM MergesOnRecord == Spec => []MergedHasLink
<1>1. Init => MergedHasLink
  BY DEF Init, MergedHasLink
<1>2. TypeOK /\ MergedHasLink /\ [Next]_vars => MergedHasLink'
  <2>. SUFFICES ASSUME TypeOK, MergedHasLink, [Next]_vars PROVE MergedHasLink'
    OBVIOUS
  <2>1. RowsTyped
    BY DEF TypeOK, RowsTyped
  <2>2. CASE UNCHANGED rows
    BY <2>2 DEF rows, MergedHasLink
  <2>. QED
    BY <2>1, <2>2, StepCommits, CommitKeepsLink
<1>. QED
  BY <1>1, <1>2, TypeInit, TypeStep, PTL DEF Spec

-----------------------------------------------------------------------------
(* Dismissals *)

Durable ==
  \A p, t \in Problems :
    link[<<p, t>>] = "dismissed" /\ {p, t} \subseteq problems'
      => link'[<<p, t>>] \in {"dismissed", "confirmed"}

LEMMA CommitDurable ==
  ASSUME RowsTyped, NEW r \in Request \cup {Idle}, CommitOf(r)
  PROVE  Durable
<1> USE RequestFields DEF RowsTyped
<1>1. CASE r.op = "detect" /\ DetectEffect(r.problem, r.new)
  BY <1>1 DEF DetectEffect, Durable
<1>2. CASE r.op = "merge" /\ MergeEffect(r.problem, r.target, r.link, r.transfer)
  BY <1>2 DEF MergeEffect, Durable
<1>3. CASE r.op = "dismiss" /\ DismissEffect(r.problem, r.target, r.link)
  BY <1>3 DEF DismissEffect, Durable
<1>4. CASE UNCHANGED link
  BY <1>4 DEF Durable
<1>5. CASE r.op = "delete" /\ DeleteEffect(r.problem)
  BY <1>5 DEF DeleteEffect, Durable
<1>. QED
  BY <1>1, <1>2, <1>3, <1>4, <1>5
     DEF CommitOf, EndorseEffect, UnendorseEffect, ModerateEffect

\* A search that read its links before a dismissal committed, and writes after
\* it, does not bring the dismissed link back.
THEOREM DismissalsLast == Spec => DismissalDurable
<1>1. TypeOK /\ [Next]_vars => Durable
  <2>. SUFFICES ASSUME TypeOK, [Next]_vars PROVE Durable
    OBVIOUS
  <2>1. RowsTyped
    BY DEF TypeOK, RowsTyped
  <2>2. CASE UNCHANGED rows
    BY <2>2 DEF rows, Durable
  <2>. QED
    BY <2>1, <2>2, StepCommits, CommitDurable
<1>2. TypeOK /\ [Next]_vars =>
        [\A p, t \in Problems :
           link[<<p, t>>] = "dismissed" /\ {p, t} \subseteq problems'
             => link'[<<p, t>>] \in {"dismissed", "confirmed"}]_vars
  BY <1>1 DEF Durable
<1>. QED
  BY <1>2, TypeInit, TypeStep, PTL DEF Spec, DismissalDurable

-----------------------------------------------------------------------------
(* Merges one at a time *)

OneSession == \A v, w \in Workers : v = w

\* What a merge has checked and loaded still holds when it commits.
Fresh(r) ==
  r.op = "merge" => MergeGuard(r.problem, r.target) /\ r.transfer = Transfer(r.problem, r.target)

SerialInv == TypeOK /\ (\A w \in Workers : Fresh(request[w])) /\ NoMergeCycle

\* p is not on the chain of t if some closed set holds what t is merged into,
\* but not p.
Apart(S, p, t) ==
  S \subseteq Problems /\ Closed(S) /\ duplicateOf[t] \in S \cup {None} /\ p \notin S

LEMMA ApartIsOffChain ==
  ASSUME NEW p \in Problems, NEW t \in Problems
  PROVE  p \notin Chain(t) <=> \E S : Apart(S, p, t)
  BY DEF Chain, Apart

LEMMA BeginFresh ==
  ASSUME TypeOK, NEW w \in Workers, Begin(w)
  PROVE  \E r : Fresh(r) /\ request' = [request EXCEPT ![w] = r]
<1> DEFINE Goal == \E r : Fresh(r) /\ request' = [request EXCEPT ![w] = r]
<1>1. ASSUME NEW p \in Problems, NEW t \in Problems, BeginMerge(w, p, t) PROVE Goal
  <2> DEFINE r == [op |-> "merge", problem |-> p, target |-> t,
                   link |-> link[<<p, t>>], transfer |-> Transfer(p, t)]
  <2>1. Fresh(r)
    BY <1>1 DEF BeginMerge, Fresh
  <2>. QED
    BY <1>1, <2>1 DEF BeginMerge, Load
<1>2. ASSUME NEW p \in Problems, BeginDetect(w, p) PROVE Goal
  BY <1>2 DEF BeginDetect, Load, Fresh
<1>3. ASSUME NEW p \in Problems, BeginDelete(w, p) PROVE Goal
  BY <1>3 DEF BeginDelete, Load, Fresh
<1>4. ASSUME NEW p \in Problems, NEW t \in Problems, BeginDismiss(w, p, t) PROVE Goal
  BY <1>4 DEF BeginDismiss, Load, Fresh
<1>5. ASSUME NEW u \in Endorsers, NEW p \in Problems, BeginToggle(w, u, p) PROVE Goal
  <2> DEFINE r == [op |-> IF u \in endorsed[p] THEN "unendorse" ELSE "endorse",
                   problem |-> p, user |-> u]
  <2>1. Fresh(r)
    BY DEF Fresh
  <2>. QED
    BY <1>5, <2>1 DEF BeginToggle, Load
<1>6. ASSUME NEW p \in Problems, NEW to \in ModerationInputs, BeginModerate(w, p, to) PROVE Goal
  BY <1>6 DEF BeginModerate, Load, Fresh
<1>. QED
  BY <1>1, <1>2, <1>3, <1>4, <1>5, <1>6 DEF Begin

\* A merge that has found p off the chain of t closes no cycle.  The witness for
\* another problem x is cut down to the problems t reaches if x is one of them,
\* and extended by those otherwise.
LEMMA MergeKeepsAcyclic ==
  ASSUME TypeOK, NoMergeCycle, NEW p \in Problems, NEW t \in Problems, MergeGuard(p, t),
         duplicateOf' = [duplicateOf EXCEPT ![p] = t]
  PROVE  NoMergeCycle'
<1> USE DEF TypeOK
<1>1. PICK R : Apart(R, p, t)
  BY ApartIsOffChain DEF MergeGuard
<1> DEFINE T == R \cup {t}
<1>2. /\ T \subseteq Problems /\ t \in T /\ p \notin T
      /\ \A q \in T : duplicateOf[q] \in T \cup {None} /\ duplicateOf'[q] = duplicateOf[q]
  BY <1>1 DEF Apart, Closed, MergeGuard
<1> HIDE DEF T
<1>3. ASSUME NEW x \in Problems PROVE x \notin Chain(x)'
  <2>1. SUFFICES \E S : Apart(S, x, x)'
    BY ApartIsOffChain DEF Chain, Apart, Closed
  <2>2. CASE x = p
    <3>1. Apart(T, x, x)'
      BY <1>2, <2>2 DEF Apart, Closed
    <3>. QED
      BY <3>1
  <2>3. CASE x # p
    <3>1. PICK S : Apart(S, x, x)
      BY ApartIsOffChain DEF NoMergeCycle
    <3>2. /\ S \subseteq Problems /\ x \notin S /\ duplicateOf[x] \in S \cup {None}
          /\ duplicateOf'[x] = duplicateOf[x]
          /\ \A q \in S : duplicateOf[q] \in S \cup {None}
      BY <2>3, <3>1 DEF Apart, Closed
    <3>3. CASE x \in T
      <4>1. Apart(S \cap T, x, x)'
        BY <1>2, <3>2, <3>3 DEF Apart, Closed
      <4>. QED
        BY <4>1
    <3>4. CASE x \notin T
      <4>1. \A q \in S : q # p => duplicateOf'[q] = duplicateOf[q]
        BY <3>2
      <4>2. duplicateOf'[p] = t
        OBVIOUS
      <4>3. Apart(S \cup T, x, x)'
        BY <1>2, <3>2, <3>4, <4>1, <4>2 DEF Apart, Closed
      <4>. QED
        BY <4>3
    <3>. QED
      BY <3>3, <3>4
  <2>. QED
    BY <2>2, <2>3
<1>. QED
  BY <1>3 DEF NoMergeCycle

\* Taking problems off their canonical ones closes no cycle either.
LEMMA CutKeepsAcyclic ==
  ASSUME NoMergeCycle, \A q \in Problems : duplicateOf'[q] \in {duplicateOf[q], None}
  PROVE  NoMergeCycle'
<1>1. ASSUME NEW x \in Problems PROVE x \notin Chain(x)'
  <2>1. PICK S : Apart(S, x, x)
    BY ApartIsOffChain DEF NoMergeCycle
  <2>2. Apart(S, x, x)'
    BY <2>1 DEF Apart, Closed
  <2>. QED
    BY <2>2 DEF Chain, Apart, Closed
<1>. QED
  BY <1>1 DEF NoMergeCycle

LEMMA CommitKeepsAcyclic ==
  ASSUME TypeOK, NoMergeCycle, NEW r \in Request \cup {Idle}, Fresh(r), CommitOf(r)
  PROVE  NoMergeCycle'
<1>1. CASE r.op = "merge" /\ MergeEffect(r.problem, r.target, r.link, r.transfer)
  BY <1>1, RequestFields, MergeKeepsAcyclic DEF MergeEffect, Fresh
<1>2. CASE r.op = "delete" /\ DeleteEffect(r.problem)
  BY <1>2, CutKeepsAcyclic DEF DeleteEffect
<1>3. CASE duplicateOf' = duplicateOf
  BY <1>3, CutKeepsAcyclic
<1>. QED
  BY <1>1, <1>2, <1>3 DEF CommitOf, DetectEffect, DismissEffect, EndorseEffect,
     UnendorseEffect, ModerateEffect

LEMMA SameRowsFresh ==
  ASSUME UNCHANGED rows, NEW r, Fresh(r)
  PROVE  Fresh(r)'
  BY DEF rows, Fresh, MergeGuard, Chain, Closed, Transfer

LEMMA SerialStep ==
  ASSUME OneSession, SerialInv, [Next]_vars
  PROVE  /\ SerialInv'
         /\ \/ UNCHANGED rows
            \/ \E r \in Request \cup {Idle} : CommitOf(r) /\ Fresh(r)
<1>0. TypeOK /\ TypeOK'
  BY TypeStep DEF SerialInv
<1>1. CASE UNCHANGED rows
  <2>1. NoMergeCycle'
    BY <1>1, CutKeepsAcyclic DEF SerialInv, rows
  <2>. QED
    <3>1. ASSUME NEW w \in Workers, Begin(w) PROVE \A v \in Workers : Fresh(request[v])'
      <4>1. PICK r : Fresh(r) /\ request' = [request EXCEPT ![w] = r]
        BY <1>0, <3>1, BeginFresh
      <4>2. Fresh(r)' /\ \A v \in Workers : request'[v] = r
        BY <1>0, <1>1, <4>1, SameRowsFresh DEF OneSession, TypeOK
      <4>. QED
        BY <4>2 DEF Fresh
    <3>2. ASSUME NEW w \in Workers, Done(w) PROVE \A v \in Workers : Fresh(request[v])'
      BY <1>0, <3>2 DEF OneSession, TypeOK, Done, Fresh, Idle
    <3>3. ASSUME UNCHANGED vars PROVE \A v \in Workers : Fresh(request[v])'
      <4>1. \A v \in Workers : Fresh(request[v])
        BY DEF SerialInv
      <4>2. request' = request
        BY <3>3 DEF vars
      <4>. QED
        BY <1>1, <4>1, <4>2, SameRowsFresh DEF Fresh
    <3>4. \A v \in Workers : Fresh(request[v])'
      BY <3>1, <3>2, <3>3, FinishCommits DEF Next, Rollback
    <3>. QED
      BY <1>0, <1>1, <2>1, <3>4 DEF SerialInv
<1>2. ASSUME NEW w \in Workers, Finish(w)
      PROVE  SerialInv' /\ \E r \in Request \cup {Idle} : CommitOf(r) /\ Fresh(r)
  <2>1. CommitOf(request[w]) /\ Done(w)
    BY <1>2, FinishCommits
  <2>2. request[w] \in Request \cup {Idle} /\ Fresh(request[w]) /\ NoMergeCycle
    BY <1>0 DEF SerialInv, TypeOK
  <2>3. NoMergeCycle'
    BY <1>0, <2>1, <2>2, CommitKeepsAcyclic
  <2>4. \A v \in Workers : Fresh(request[v])'
    BY <1>0, <2>1 DEF OneSession, TypeOK, Done, Fresh, Idle
  <2>. QED
    BY <1>0, <2>1, <2>2, <2>3, <2>4 DEF SerialInv
<1>3. UNCHANGED rows \/ \E w \in Workers : Finish(w)
  BY <1>0, BeginLoads DEF Next, Rollback, vars
<1>. QED
  BY <1>1, <1>2, <1>3

LEMMA SerialInit == Init => SerialInv
<1>. SUFFICES ASSUME Init PROVE SerialInv
  OBVIOUS
<1>1. \A w \in Workers : Fresh(request[w])
  BY DEF Init, Fresh, Idle
<1>2. ASSUME NEW x \in Problems PROVE x \notin Chain(x)
  <2>1. Apart({}, x, x)
    BY DEF Init, Apart, Closed
  <2>. QED
    BY <2>1, ApartIsOffChain
<1>. QED
  BY <1>1, <1>2, TypeInit DEF SerialInv, NoMergeCycle

\* One request at a time, following "duplicate of" never leads back, for any
\* number of problems and any merges, deletions and moderations.
THEOREM SerialNoCycle ==
  ASSUME OneSession
  PROVE  Spec => []NoMergeCycle
<1>1. SerialInv /\ [Next]_vars => SerialInv'
  BY SerialStep
<1>2. SerialInv => NoMergeCycle
  BY DEF SerialInv
<1>. QED
  BY <1>1, <1>2, SerialInit, PTL DEF Spec

Followed ==
  \A p, t \in Problems :
    duplicateOf[p] = None /\ duplicateOf'[p] = t => endorsed[p] \subseteq endorsed'[t]

LEMMA CommitFollowed ==
  ASSUME TypeOK, NEW r \in Request \cup {Idle}, Fresh(r), CommitOf(r)
  PROVE  Followed
<1> USE NoneAssumption, RequestFields DEF TypeOK
<1>1. CASE r.op = "merge" /\ MergeEffect(r.problem, r.target, r.link, r.transfer)
  <2>1. /\ r.problem \in Problems /\ r.target \in Problems
        /\ r.transfer = endorsed[r.problem] \ endorsed[r.target]
        /\ duplicateOf' = [duplicateOf EXCEPT ![r.problem] = r.target]
        /\ endorsed' = [endorsed EXCEPT ![r.target] = @ \cup r.transfer]
    BY <1>1 DEF MergeEffect, Fresh, Transfer
  <2>2. endorsed[r.problem] \subseteq endorsed'[r.target]
    BY <2>1
  <2>3. \A p \in Problems \ {r.problem} : duplicateOf'[p] = duplicateOf[p]
    BY <2>1
  <2>4. duplicateOf'[r.problem] = r.target
    BY <2>1
  <2>. QED
    BY <2>2, <2>3, <2>4 DEF Followed
<1>2. CASE r.op = "delete" /\ DeleteEffect(r.problem)
  BY <1>2 DEF DeleteEffect, Followed
<1>3. CASE duplicateOf' = duplicateOf
  BY <1>3 DEF Followed
<1>. QED
  BY <1>1, <1>2, <1>3 DEF CommitOf, DetectEffect, DismissEffect, EndorseEffect,
     UnendorseEffect, ModerateEffect

\* One request at a time, no endorsement is lost between the reading of the
\* endorsements to move and the merge that moves them.
THEOREM SerialEndorsersFollow ==
  ASSUME OneSession
  PROVE  Spec => EndorsersFollow
<1>1. SerialInv /\ [Next]_vars => SerialInv' /\ Followed
  <2>. SUFFICES ASSUME SerialInv, [Next]_vars PROVE Followed
    BY SerialStep
  <2>1. TypeOK
    BY DEF SerialInv
  <2>2. CASE UNCHANGED rows
    <3>1. duplicateOf' = duplicateOf
      BY <2>2 DEF rows
    <3>. QED
      BY <3>1, NoneAssumption DEF Followed
  <2>. QED
    BY <2>1, <2>2, SerialStep, CommitFollowed
<1>2. SerialInv /\ [Next]_vars => SerialInv' /\
        [\A p, t \in Problems :
           duplicateOf[p] = None /\ duplicateOf'[p] = t => endorsed[p] \subseteq endorsed'[t]]_vars
  BY <1>1 DEF Followed
<1>. QED
  BY <1>2, SerialInit, PTL DEF Spec, EndorsersFollow
=============================================================================
