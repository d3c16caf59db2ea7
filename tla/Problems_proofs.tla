---------------------------- MODULE Problems_proofs ----------------------------
(* The pages about problems for any number of requests, items, texts and      *)
(* sessions: the administrator's desk and the two parts of the panel below a  *)
(* problem, the report card with its form and assistant, the workspace of a   *)
(* pod, and the spinners of all of them.                                      *)
EXTENDS MCProblems, FeedPost_proofs
LOCAL INSTANCE SequencesExt

(* The analysis of a problem.                                                 *)
Asks ==
  [kind : {"fetch", "run"}, n : Nat, live : BOOLEAN, seen : RunResults \cup {NotRead}]

AnalysisType ==
  /\ card \in [mounted : BOOLEAN, shows : RunResults, error : BOOLEAN, checking : BOOLEAN,
               generating : BOOLEAN, accepted : BOOLEAN]
  /\ asks \subseteq Asks /\ latest \in RunResults /\ runs \in Nat

(* Nothing is shown while the latest run is fetched, and what is shown is one *)
(* of the runs stored.                                                        *)
CardState ==
  /\ ~card.mounted => card = Unmounted
  /\ card.checking => card.shows.n = 0 /\ ~card.generating
  /\ card.shows.n <= latest.n

(* One request of the panel at most, which its spinner stands for; what it    *)
(* has read is no older than what is shown.  The fetch goes with the panel.   *)
AskState ==
  /\ \A a \in asks : a.kind = "fetch" => a.live
  /\ \A a \in asks : a.live =>
       /\ card.mounted
       /\ a.kind = "fetch" => card.checking
       /\ a.kind = "run" => card.generating
  /\ \A a \in asks : a.seen # NotRead => a.seen.n <= latest.n
  /\ \A a \in asks : a.live /\ a.seen # NotRead => card.shows.n <= a.seen.n
  /\ \A a, b \in asks : a.live /\ b.live => a = b
  /\ card.checking \/ card.generating => \E a \in asks : a.live

AnalysisInv == AnalysisType /\ CardState /\ AskState

LEMMA AnalysisStart == AnalysisInit => AnalysisInv
<1> SUFFICES ASSUME AnalysisInit PROVE AnalysisInv
  OBVIOUS
<1>1. NoRun \in RunResults /\ [n |-> 1, ok |-> TRUE] \in RunResults
  BY DEF NoRun, RunResults
<1>2. AnalysisType
  BY <1>1 DEF AnalysisInit, AnalysisType, Unmounted
<1>3. CardState /\ AskState
  BY DEF AnalysisInit, CardState, AskState, Unmounted, NoRun
<1> QED BY <1>2, <1>3 DEF AnalysisInv

(* What one request less, or one that has read, leaves of the invariant.      *)
LEMMA AnalysisTypeNext ==
  ASSUME AnalysisInv, [AnalysisNext]_analysisVars PROVE AnalysisType'
<1> USE DEF AnalysisInv
<1>1. NoRun \in RunResults
  BY DEF NoRun, RunResults
<1>2. CASE Mount
  <2>1. Fetch \in Asks
    BY DEF Fetch, Asks
  <2> QED BY <1>1, <1>2, <2>1 DEF Mount, Unmounted, AnalysisType
<1>3. CASE Unmount
  <2>1. ASSUME NEW a \in asks PROVE [a EXCEPT !.live = FALSE] \in Asks
    BY DEF AnalysisType, Asks
  <2> QED BY <1>1, <1>3, <2>1 DEF Unmount, Unmounted, AnalysisType
<1>4. CASE Generate
  <2>1. Run \in Asks
    BY DEF Run, Asks, AnalysisType
  <2>2. asks' = asks \cup {Run} /\ runs' = runs + 1 /\ latest' = latest
        /\ card' = [card EXCEPT !.generating = TRUE, !.error = FALSE]
    BY <1>4 DEF Generate
  <2>3. card' \in [mounted : BOOLEAN, shows : RunResults, error : BOOLEAN, checking : BOOLEAN,
                   generating : BOOLEAN, accepted : BOOLEAN]
    BY <2>2 DEF AnalysisType
  <2>4. asks' \subseteq Asks
    BY <2>1, <2>2 DEF AnalysisType
  <2> QED BY <2>2, <2>3, <2>4 DEF AnalysisType
<1>5. CASE AcceptCategory
  BY <1>5 DEF AcceptCategory, AnalysisType
<1>6. ASSUME NEW a \in asks, NEW r \in RunResults,
             asks' = (asks \ {a}) \cup {[a EXCEPT !.seen = r]}
      PROVE  asks' \subseteq Asks
  <2>1. [a EXCEPT !.seen = r] \in Asks
    BY DEF AnalysisType, Asks
  <2> QED BY <1>6, <2>1 DEF AnalysisType
<1>7. ASSUME NEW a \in asks, ReadLatest(a) PROVE AnalysisType'
  BY <1>6, <1>7 DEF ReadLatest, AnalysisType
<1>8. ASSUME NEW a \in asks, NEW ok \in BOOLEAN, StoreRun(a, ok) PROVE AnalysisType'
  <2>1. latest' \in RunResults
    BY <1>8 DEF StoreRun, RunResults, AnalysisType
  <2> QED BY <1>6, <1>8, <2>1 DEF StoreRun, AnalysisType
<1>9. ASSUME NEW a \in asks, a.seen # NotRead PROVE a.seen \in RunResults /\ (~a.seen.ok) \in BOOLEAN
  BY <1>9 DEF AnalysisType, Asks
<1>10. ASSUME NEW a \in asks, Checked(a) PROVE AnalysisType'
  <2>1. a.seen \in RunResults
    BY <1>9, <1>10 DEF Checked
  <2> QED BY <1>10, <2>1 DEF Checked, AnalysisType
<1>11. ASSUME NEW a \in asks, CheckFails(a) \/ GenerateFails(a) PROVE AnalysisType'
  BY <1>11 DEF CheckFails, GenerateFails, AnalysisType
<1>12. ASSUME NEW a \in asks, Generated(a) PROVE AnalysisType'
  <2> DEFINE error == ~a.seen.ok
             shows == IF a.seen.ok THEN a.seen ELSE card.shows
  <2>1. error \in BOOLEAN /\ shows \in RunResults
    BY <1>9, <1>12 DEF Generated, AnalysisType
  <2>2. card' = card \/ card' = [card EXCEPT !.generating = FALSE, !.error = error, !.shows = shows]
    BY <1>12 DEF Generated
  <2>3. asks' \subseteq asks /\ runs' = runs /\ latest' = latest
    BY <1>12 DEF Generated
  <2> HIDE DEF error, shows
  <2>4. card' \in [mounted : BOOLEAN, shows : RunResults, error : BOOLEAN, checking : BOOLEAN,
                   generating : BOOLEAN, accepted : BOOLEAN]
    <3>1. CASE card' = card
      BY <3>1 DEF AnalysisType
    <3>2. CASE card' = [card EXCEPT !.generating = FALSE, !.error = error, !.shows = shows]
      BY <2>1, <3>2 DEF AnalysisType
    <3> QED BY <2>2, <3>1, <3>2
  <2> QED BY <2>3, <2>4 DEF AnalysisType
<1>13. CASE UNCHANGED analysisVars
  BY <1>13 DEF analysisVars, AnalysisType
<1> QED BY <1>2, <1>3, <1>4, <1>5, <1>7, <1>8, <1>10, <1>11, <1>12, <1>13 DEF AnalysisNext

(* The end of a request: its own spinner falls, or it had none.               *)
LEMMA AskOver ==
  ASSUME AnalysisInv, NEW a \in asks, AnalysisType', asks' = asks \ {a}, latest' = latest,
         card'.mounted = card.mounted,
         ~card.mounted => card' = card,
         IF a.live THEN ~card'.checking /\ ~card'.generating ELSE card' = card,
         card'.shows.n = card.shows.n \/ (a.seen # NotRead /\ a.live /\ card'.shows.n = a.seen.n)
  PROVE  CardState' /\ AskState'
<1>1. \A b \in asks' : b.live /\ a.live => FALSE
  BY DEF AnalysisInv, AskState
<1>2. card.shows.n \in Nat /\ latest.n \in Nat
  BY DEF AnalysisInv, AnalysisType, RunResults
<1>3. CardState'
  <2>1. CASE a.live
    BY <1>2, <2>1 DEF AnalysisInv, AskState, CardState
  <2>2. CASE ~a.live
    BY <2>2 DEF AnalysisInv, CardState
  <2> QED BY <2>1, <2>2
<1>4. AskState'
  BY <1>1 DEF AnalysisInv, AskState
<1> QED BY <1>3, <1>4

LEMMA AskStateNext ==
  ASSUME AnalysisInv, AnalysisType', [AnalysisNext]_analysisVars PROVE CardState' /\ AskState'
<1>1. /\ card.shows.n \in Nat /\ latest.n \in Nat
      /\ \A a \in asks : a.seen # NotRead => a.seen.n \in Nat
  BY DEF AnalysisInv, AnalysisType, RunResults, Asks
<1>2. CASE Mount
  <2>1. \A a \in asks : ~a.live
    BY <1>2 DEF Mount, AnalysisInv, AskState
  <2>2. Fetch.live /\ Fetch.kind = "fetch" /\ Fetch.seen = NotRead
    BY DEF Fetch
  <2>3. card' = [mounted |-> TRUE, shows |-> NoRun, error |-> FALSE, checking |-> TRUE,
                 generating |-> FALSE, accepted |-> FALSE]
    BY <1>2 DEF Mount, Unmounted
  <2>4. asks' = asks \cup {Fetch} /\ latest' = latest
    BY <1>2 DEF Mount
  <2>5. CardState'
    BY <1>1, <2>3, <2>4 DEF CardState, NoRun
  <2>6. AskState'
    BY <2>1, <2>2, <2>3, <2>4 DEF AnalysisInv, AskState
  <2> QED BY <2>5, <2>6
<1>3. CASE Unmount
  <2>1. \A a \in asks' : \E b \in asks : a.kind = b.kind /\ a.seen = b.seen /\ ~a.live /\ a.kind = "run"
    <3>1. ASSUME NEW b \in asks, b.kind = "run"
          PROVE  LET a == [b EXCEPT !.live = FALSE] IN
                 a.kind = b.kind /\ a.seen = b.seen /\ ~a.live /\ a.kind = "run"
      BY <3>1 DEF AnalysisInv, AnalysisType, Asks
    <3> QED BY <1>3, <3>1 DEF Unmount
  <2>2. card' = Unmounted /\ latest' = latest
    BY <1>3 DEF Unmount
  <2> QED BY <1>1, <2>1, <2>2 DEF AnalysisInv, CardState, AskState, Unmounted, NoRun
<1>4. CASE Generate
  <2>1. card.mounted /\ ~card.checking /\ ~card.generating
    BY <1>4 DEF Generate, View
  <2>2. \A a \in asks : ~a.live
    BY <2>1 DEF AnalysisInv, AskState, AnalysisType, Asks
  <2>3. Run.live /\ Run.kind = "run" /\ Run.seen = NotRead
    BY DEF Run
  <2>4. /\ card'.mounted /\ ~card'.checking /\ card'.generating /\ card'.shows = card.shows
        /\ asks' = asks \cup {Run} /\ latest' = latest
    BY <1>4, <2>1 DEF Generate, AnalysisInv, AnalysisType
  <2>5. CardState'
    BY <2>4 DEF AnalysisInv, CardState
  <2>6. AskState'
    BY <2>2, <2>3, <2>4 DEF AnalysisInv, AskState
  <2> QED BY <2>5, <2>6
<1>5. CASE AcceptCategory
  <2>1. /\ card.mounted /\ card'.mounted /\ card'.checking = card.checking
        /\ card'.generating = card.generating /\ card'.shows = card.shows
        /\ asks' = asks /\ latest' = latest
    BY <1>5 DEF AcceptCategory, View, AnalysisInv, AnalysisType
  <2> QED BY <2>1 DEF AnalysisInv, CardState, AskState
<1>6. ASSUME NEW a \in asks, NEW r \in RunResults, r.n = latest'.n, card' = card, a.seen = NotRead,
             latest'.n >= latest.n, asks' = (asks \ {a}) \cup {[a EXCEPT !.seen = r]},
             latest'.n \in Nat
      PROVE  CardState' /\ AskState'
  <2> DEFINE b == [a EXCEPT !.seen = r]
  <2>1. b.kind = a.kind /\ b.live = a.live /\ b.seen = r
    BY DEF AnalysisInv, AnalysisType, Asks
  <2>2. asks' = (asks \ {a}) \cup {b}
    BY <1>6
  <2> HIDE DEF b
  <2>3. CardState'
    BY <1>1, <1>6 DEF AnalysisInv, CardState
  <2>4. \A x \in asks' : x.seen # NotRead => x.seen.n <= latest'.n
    BY <1>1, <1>6, <2>1, <2>2 DEF AnalysisInv, AskState
  <2>5. \A x \in asks' : x.live /\ x.seen # NotRead => card'.shows.n <= x.seen.n
    BY <1>1, <1>6, <2>1, <2>2, <2>3 DEF AnalysisInv, AskState, CardState
  <2>6. \A x, y \in asks' : x.live /\ y.live => x = y
    BY <2>1, <2>2 DEF AnalysisInv, AskState
  <2>7. card'.checking \/ card'.generating => \E x \in asks' : x.live
    BY <1>6, <2>1, <2>2 DEF AnalysisInv, AskState
  <2>8. \A x \in asks' : /\ x.kind = "fetch" => x.live
                         /\ x.live => /\ card'.mounted
                                      /\ x.kind = "fetch" => card'.checking
                                      /\ x.kind = "run" => card'.generating
    BY <1>6, <2>1, <2>2 DEF AnalysisInv, AskState
  <2> QED BY <2>3, <2>4, <2>5, <2>6, <2>7, <2>8 DEF AskState
<1>7. ASSUME NEW a \in asks, ReadLatest(a) PROVE CardState' /\ AskState'
  BY <1>1, <1>6, <1>7 DEF ReadLatest, AnalysisInv, AnalysisType
<1>8. ASSUME NEW a \in asks, NEW ok \in BOOLEAN, StoreRun(a, ok) PROVE CardState' /\ AskState'
  <2>1. latest' \in RunResults /\ latest'.n = latest.n + 1
    BY <1>1, <1>8 DEF StoreRun, RunResults
  <2> QED BY <1>1, <1>6, <1>8, <2>1 DEF StoreRun
<1>9. ASSUME NEW a \in asks, Checked(a) PROVE CardState' /\ AskState'
  <2>1. a.live /\ card.checking /\ card.mounted /\ ~card.generating
    BY <1>9 DEF Checked, AnalysisInv, AskState, CardState
  <2>2. /\ asks' = asks \ {a} /\ latest' = latest /\ card'.mounted = card.mounted
        /\ ~card'.checking /\ ~card'.generating
        /\ card'.shows = card.shows \/ card'.shows = a.seen
    BY <1>9, <2>1 DEF Checked, AnalysisInv, AnalysisType
  <2>3. a.seen # NotRead
    BY <1>9 DEF Checked
  <2> QED BY <2>1, <2>2, <2>3, AskOver
<1>10. ASSUME NEW a \in asks, CheckFails(a) PROVE CardState' /\ AskState'
  <2>1. a.live /\ card.checking /\ card.mounted /\ ~card.generating
    BY <1>10 DEF CheckFails, AnalysisInv, AskState, CardState
  <2>2. /\ asks' = asks \ {a} /\ latest' = latest /\ card'.mounted = card.mounted
        /\ ~card'.checking /\ ~card'.generating /\ card'.shows = card.shows
    BY <1>10, <2>1 DEF CheckFails, AnalysisInv, AnalysisType
  <2> QED BY <2>1, <2>2, AskOver
<1>11. ASSUME NEW a \in asks, Generated(a) \/ GenerateFails(a) PROVE CardState' /\ AskState'
  <2>1. asks' = asks \ {a} /\ latest' = latest
    BY <1>11 DEF Generated, GenerateFails
  <2>2. CASE ~a.live
    <3>1. card' = card
      BY <1>11, <2>2 DEF Generated, GenerateFails
    <3> QED BY <2>1, <2>2, <3>1, AskOver
  <2>3. CASE a.live
    <3>1. card.mounted /\ card.generating /\ ~card.checking
      BY <1>11, <2>3 DEF Generated, GenerateFails, AnalysisInv, AskState, CardState
    <3>2. CASE Generated(a)
      <4>1. /\ card'.mounted = card.mounted /\ ~card'.checking /\ ~card'.generating
            /\ card'.shows = card.shows \/ card'.shows = a.seen
        BY <2>3, <3>1, <3>2 DEF Generated, AnalysisInv, AnalysisType
      <4>2. a.seen # NotRead
        BY <3>2 DEF Generated
      <4> QED BY <2>1, <2>3, <3>1, <4>1, <4>2, AskOver
    <3>3. CASE GenerateFails(a)
      <4>1. /\ card'.mounted = card.mounted /\ ~card'.checking /\ ~card'.generating
            /\ card'.shows = card.shows
        BY <2>3, <3>1, <3>3 DEF GenerateFails, AnalysisInv, AnalysisType
      <4> QED BY <2>1, <2>3, <3>1, <4>1, AskOver
    <3> QED BY <1>11, <3>2, <3>3
  <2> QED BY <2>2, <2>3
<1>12. CASE UNCHANGED analysisVars
  BY <1>12 DEF analysisVars, AnalysisInv, CardState, AskState
<1> QED BY <1>2, <1>3, <1>4, <1>5, <1>7, <1>8, <1>9, <1>10, <1>11, <1>12 DEF AnalysisNext

LEMMA AnalysisKept == AnalysisInv /\ [AnalysisNext]_analysisVars => AnalysisInv'
BY AnalysisTypeNext, AskStateNext DEF AnalysisInv

(* "checking" and "analyzing" stand for a request of this panel, however      *)
(* often it was taken away and however many runs go on: PanelAnswers.         *)
THEOREM SpinnerStands == AnalysisSpec => []PanelAnswers
<1>1. AnalysisInv => PanelAnswers
  BY DEF AnalysisInv, AnalysisType, Asks, AskState, PanelAnswers
<1> QED BY <1>1, AnalysisStart, AnalysisKept, PTL DEF AnalysisSpec

(* The panel never goes from a newer run to an older one, for any number of   *)
(* runs and of panels taken away: NewestRunShown.                             *)
THEOREM NewerRunsOnly == AnalysisSpec => NewestRunShown
<1>1. AnalysisInv /\ [AnalysisNext]_analysisVars
        => [card.mounted /\ card'.mounted => card'.shows.n >= card.shows.n]_analysisVars
  <2> SUFFICES ASSUME AnalysisInv, AnalysisNext, card.mounted, card'.mounted
               PROVE  card'.shows.n >= card.shows.n
    OBVIOUS
  <2>1. card.shows.n \in Nat
    BY DEF AnalysisInv, AnalysisType, RunResults
  <2>2. \A a \in asks : a.live /\ a.seen # NotRead => a.seen.n \in Nat /\ card.shows.n <= a.seen.n
    BY DEF AnalysisInv, AnalysisType, RunResults, Asks, AskState
  <2>3. \A a \in asks : a.kind = "fetch" => a.live
    BY DEF AnalysisInv, AskState
  <2>4. card'.shows = card.shows
          \/ \E a \in asks : a.live /\ a.seen # NotRead /\ card'.shows = a.seen
    <3>1. card \in [mounted : BOOLEAN, shows : RunResults, error : BOOLEAN, checking : BOOLEAN,
                    generating : BOOLEAN, accepted : BOOLEAN]
      BY DEF AnalysisInv, AnalysisType
    <3>2. CASE Mount \/ Unmount
      BY <3>2 DEF Mount, Unmount, Unmounted
    <3>3. CASE Generate \/ AcceptCategory
      BY <3>1, <3>3 DEF Generate, AcceptCategory
    <3>4. ASSUME NEW a \in asks, ReadLatest(a) \/ CheckFails(a) \/ GenerateFails(a)
                                  \/ \E ok \in BOOLEAN : StoreRun(a, ok)
          PROVE  card'.shows = card.shows
      BY <3>1, <3>4 DEF ReadLatest, CheckFails, GenerateFails, StoreRun
    <3>5. ASSUME NEW a \in asks, Checked(a) \/ Generated(a)
          PROVE  card'.shows = card.shows \/ (a.live /\ a.seen # NotRead /\ card'.shows = a.seen)
      BY <2>3, <3>1, <3>5 DEF Checked, Generated
    <3> QED BY <3>2, <3>3, <3>4, <3>5 DEF AnalysisNext
  <2> QED BY <2>1, <2>2, <2>4
<1> QED BY <1>1, AnalysisStart, AnalysisKept, PTL DEF AnalysisSpec, NewestRunShown
-------------------------------------------------------------------------------
(* The administrator's desk.                                                  *)
DecisionTabs == {"requests", "institution_requests", "moderation"}

IsRow(r) == r = [seen |-> r.seen, newest |-> r.newest]
IsLoad(l) ==
  l = [tab |-> l.tab, seen |-> l.seen, last |-> l.last] /\ l.tab \in Tabs /\ l.last \in BOOLEAN
IsCall(c) == c \in [item : Items, do : {c.do}, to : {c.to}, stored : BOOLEAN]

DeskShape ==
  /\ DOMAIN store = Items /\ DOMAIN rows = Tabs
  /\ \A t \in Tabs : IsRow(rows[t])
  /\ \A l \in loads : IsLoad(l)
  /\ \A c \in calls : IsCall(c)

(* A list taken before the last decision about its items is not the newest: a *)
(* decision that is stored will have the tab loaded when it is answered, or   *)
(* its answer is lost.                                                        *)
ListFollows(t) ==
  \/ lost
  \/ \E c \in calls : c.stored /\ TabOf(c.item) = t
  \/ /\ \A l \in loads : l.tab = t /\ l.last /\ l.seen # NoItem => l.seen = Reading(t)
     /\ rows[t].newest => rows[t].seen = Reading(t)

DeskListsInv == DeskShape /\ \A t \in DecisionTabs : ListFollows(t)

(* What the fields of a load, a row and a decision are after a change of one. *)
LEMMA LoadFields ==
  ASSUME NEW t \in Tabs, NEW x, NEW b \in BOOLEAN
  PROVE  IsLoad([tab |-> t, seen |-> x, last |-> b])
BY DEF IsLoad

LEMMA LoadChanged ==
  ASSUME NEW l, IsLoad(l), NEW x, NEW b
  PROVE  /\ [l EXCEPT !.last = b] = [tab |-> l.tab, seen |-> l.seen, last |-> b]
         /\ [l EXCEPT !.seen = x] = [tab |-> l.tab, seen |-> x, last |-> l.last]
         /\ l.last = b => [l EXCEPT !.last = b] = l
<1>1. PICK t, y, c : l = [tab |-> t, seen |-> y, last |-> c]
  BY DEF IsLoad
<1> QED BY <1>1

LEMMA RowChanged ==
  ASSUME NEW r, IsRow(r), NEW x, NEW b
  PROVE  /\ [r EXCEPT !.newest = b] = [seen |-> r.seen, newest |-> b]
         /\ IsRow([seen |-> x, newest |-> b])
<1>1. PICK y, c : r = [seen |-> y, newest |-> c]
  BY DEF IsRow
<1> QED BY <1>1 DEF IsRow

LEMMA CallStored ==
  ASSUME NEW c, IsCall(c)
  PROVE  /\ IsCall([c EXCEPT !.stored = TRUE])
         /\ [c EXCEPT !.stored = TRUE].item = c.item
         /\ [c EXCEPT !.stored = TRUE].stored
<1>1. [c EXCEPT !.stored = TRUE] \in [item : Items, do : {c.do}, to : {c.to}, stored : BOOLEAN]
  BY DEF IsCall
<1>2. /\ [c EXCEPT !.stored = TRUE].item = c.item /\ [c EXCEPT !.stored = TRUE].stored
      /\ [c EXCEPT !.stored = TRUE].do = c.do /\ [c EXCEPT !.stored = TRUE].to = c.to
  BY DEF IsCall
<1> QED BY <1>1, <1>2 DEF IsCall

LEMMA DeskStart == DeskInit => DeskListsInv
<1> SUFFICES ASSUME DeskInit PROVE DeskListsInv
  OBVIOUS
<1>1. tab \in Tabs
  BY VisitedAssumption DEF DeskInit
<1>2. IsLoad(Load(tab)) /\ Load(tab).seen = NoItem
  BY <1>1, LoadFields DEF Load
<1>3. \A t \in Tabs : IsRow(rows[t]) /\ ~rows[t].newest
  BY DEF DeskInit, IsRow
<1>4. DeskShape
  BY <1>2, <1>3 DEF DeskInit, DeskShape
<1>5. \A t \in DecisionTabs : ListFollows(t)
  BY <1>2, <1>3 DEF DeskInit, ListFollows, DecisionTabs, Tabs
<1> QED BY <1>4, <1>5 DEF DeskListsInv

(* Loading a tab again outdates its lists and leaves those of the others.     *)
LEMMA Loading ==
  ASSUME DeskShape, NEW t \in Tabs, LoadData(t)
  PROVE  /\ DOMAIN rows' = Tabs
         /\ \A u \in Tabs : IsRow(rows'[u])
         /\ \A l \in loads' : /\ IsLoad(l)
                              /\ l.tab = t => ~l.last \/ l.seen = NoItem
                              /\ l.tab # t => l \in loads
         /\ ~rows'[t].newest
         /\ \A u \in Tabs : u # t => rows'[u] = rows[u]
<1>1. ASSUME NEW l \in loads
      PROVE  LET o == [l EXCEPT !.last = l.last /\ l.tab # t] IN
             /\ IsLoad(o)
             /\ o.tab = t => ~o.last
             /\ o.tab # t => o \in loads
  <2> DEFINE b == l.last /\ l.tab # t
  <2>1. IsLoad(l) /\ l.tab \in Tabs
    BY DEF DeskShape, IsLoad
  <2>2. CASE l.tab = t
    <3>1. b = FALSE
      BY <2>2
    <3>2. [l EXCEPT !.last = b] = [tab |-> l.tab, seen |-> l.seen, last |-> FALSE]
      BY <2>1, <3>1, LoadChanged
    <3>3. IsLoad([tab |-> l.tab, seen |-> l.seen, last |-> FALSE])
      BY <2>1, LoadFields
    <3> QED BY <2>2, <3>2, <3>3
  <2>3. CASE l.tab # t
    <3>1. PICK u, y, c : l = [tab |-> u, seen |-> y, last |-> c]
      BY <2>1 DEF IsLoad
    <3>2. b = l.last
      BY <2>1, <2>3 DEF IsLoad
    <3>3. [l EXCEPT !.last = b] = l
      BY <3>1, <3>2
    <3> QED BY <2>1, <2>3, <3>3
  <2> QED BY <2>2, <2>3
<1>2. IsLoad(Load(t)) /\ Load(t).seen = NoItem /\ Load(t).tab = t
  BY LoadFields DEF Load
<1>3. loads' = {[l EXCEPT !.last = l.last /\ l.tab # t] : l \in loads} \cup {Load(t)}
  BY DEF LoadData
<1>4. \A l \in loads' : /\ IsLoad(l)
                        /\ l.tab = t => ~l.last \/ l.seen = NoItem
                        /\ l.tab # t => l \in loads
  BY <1>1, <1>2, <1>3
<1>5. /\ DOMAIN rows' = Tabs
      /\ rows'[t] = [rows[t] EXCEPT !.newest = FALSE]
      /\ \A u \in Tabs : u # t => rows'[u] = rows[u]
  BY DEF LoadData, DeskShape
<1>6. IsRow(rows'[t]) /\ ~rows'[t].newest
  <2>1. IsRow(rows[t])
    BY DEF DeskShape
  <2>2. rows'[t] = [seen |-> rows[t].seen, newest |-> FALSE]
    BY <1>5, <2>1, RowChanged
  <2> QED BY <2>2 DEF IsRow
<1> QED BY <1>4, <1>5, <1>6 DEF DeskShape

LEMMA ReadingSame ==
  ASSUME NEW t \in DecisionTabs, \A i \in Items : TabOf(i) = t => store'[i] = store[i]
  PROVE  Reading(t)' = Reading(t)
BY DEF Reading, DecisionTabs, TabOf

(* Lists of the tab loaded again are outdated, those of the others are kept.  *)
LEMMA LoadingFollows ==
  ASSUME DeskListsInv, NEW u \in Tabs, LoadData(u), UNCHANGED <<store, lost>>,
         \/ calls' = calls
         \/ \E c \in calls : TabOf(c.item) = u /\ calls' = calls \ {c}
  PROVE  DeskListsInv'
<1>1. DeskShape'
  BY Loading DEF DeskListsInv, DeskShape
<1>2. ASSUME NEW t \in DecisionTabs PROVE ListFollows(t)'
  <2>1. Reading(t)' = Reading(t) /\ t \in Tabs
    BY ReadingSame DEF DecisionTabs, Tabs
  <2>2. CASE t = u
    BY <2>1, <2>2, Loading DEF DeskListsInv, ListFollows
  <2>3. CASE t # u
    <3>1. rows'[t] = rows[t] /\ \A l \in loads' : l.tab = t => l \in loads
      BY <2>1, <2>3, Loading DEF DeskListsInv
    <3>2. \A c \in calls : TabOf(c.item) = t => c \in calls'
      BY <2>3
    <3> QED BY <2>1, <3>1, <3>2 DEF DeskListsInv, ListFollows
  <2> QED BY <2>2, <2>3
<1> QED BY <1>1, <1>2 DEF DeskListsInv

LEMMA DeskListsNext == DeskListsInv /\ tab \in Tabs /\ [DeskNext]_deskVars => DeskListsInv'
<1> SUFFICES ASSUME DeskListsInv, tab \in Tabs, [DeskNext]_deskVars PROVE DeskListsInv'
  OBVIOUS
<1>1. ASSUME NEW t \in Visited, ChangeTab(t) PROVE DeskListsInv'
  BY <1>1, VisitedAssumption, LoadingFollows DEF ChangeTab, callVars, backendVars
<1>2. CASE Refresh
  BY <1>2, LoadingFollows DEF Refresh, callVars, backendVars
<1>3. ASSUME NEW ok \in BOOLEAN, Imported(ok) PROVE DeskListsInv'
  <2>1. CASE ok
    BY <1>3, <2>1, LoadingFollows DEF Imported, callVars, backendVars, Tabs
  <2>2. CASE ~ok
    BY <1>3, <2>2, ReadingSame DEF Imported, listVars, callVars, backendVars, DeskListsInv, DeskShape, ListFollows
  <2> QED BY <2>1, <2>2
<1>4. ASSUME NEW c \in calls, Decided(c) PROVE DeskListsInv'
  <2>1. TabOf(c.item) \in Tabs
    BY DEF TabOf, Tabs
  <2> QED BY <1>4, <2>1, LoadingFollows DEF Decided, backendVars
<1>5. ASSUME NEW l \in loads, ReadList(l) PROVE DeskListsInv'
  <2> DEFINE read == [l EXCEPT !.seen = Reading(l.tab)]
  <2>1. loads' = (loads \ {l}) \cup {read} /\ UNCHANGED <<rows, calls, store, log, lost>>
    BY <1>5 DEF ReadList, callVars, backendVars
  <2>2. IsLoad(read) /\ read.tab = l.tab /\ read.seen = Reading(l.tab)
    <3>1. IsLoad(l) /\ l.tab \in Tabs /\ l.last \in BOOLEAN
      BY DEF DeskListsInv, DeskShape, IsLoad
    <3>2. read = [tab |-> l.tab, seen |-> Reading(l.tab), last |-> l.last]
      BY <3>1, LoadChanged
    <3>3. IsLoad([tab |-> l.tab, seen |-> Reading(l.tab), last |-> l.last])
      BY <3>1, LoadFields
    <3> QED BY <3>2, <3>3
  <2>3. \A t \in DecisionTabs : Reading(t)' = Reading(t)
    BY <2>1, ReadingSame
  <2> HIDE DEF read
  <2>4. DeskShape'
    BY <2>1, <2>2 DEF DeskListsInv, DeskShape
  <2>5. \A t \in DecisionTabs : ListFollows(t)'
    BY <2>1, <2>2, <2>3 DEF DeskListsInv, ListFollows
  <2> QED BY <2>4, <2>5 DEF DeskListsInv
<1>6. ASSUME NEW l \in loads, Listed(l) PROVE DeskListsInv'
  <2>1. /\ loads' = loads \ {l} /\ UNCHANGED <<calls, store, log, lost>>
        /\ rows' = [rows EXCEPT ![l.tab] = [seen |-> l.seen, newest |-> l.last]] /\ l.seen # NoItem
    BY <1>6 DEF Listed, callVars, backendVars
  <2>2. DeskShape'
    <3>1. IsRow([seen |-> l.seen, newest |-> l.last])
      BY DEF IsRow
    <3> QED BY <2>1, <3>1 DEF DeskListsInv, DeskShape
  <2>3. \A t \in DecisionTabs : Reading(t)' = Reading(t) /\ t \in Tabs
    BY <2>1, ReadingSame DEF DecisionTabs, Tabs
  <2>4. DOMAIN rows = Tabs
    BY DEF DeskListsInv, DeskShape
  <2>5. \A t \in DecisionTabs : ListFollows(t)'
    BY <2>1, <2>3, <2>4 DEF DeskListsInv, ListFollows
  <2> QED BY <2>2, <2>5 DEF DeskListsInv
<1>7. ASSUME loads' \subseteq loads, UNCHANGED <<rows, store>>, lost => lost',
             \A c \in calls' : IsCall(c),
             lost' \/ \A c \in calls : c.stored => c \in calls'
      PROVE  DeskListsInv'
  <2>1. \A t \in DecisionTabs : Reading(t)' = Reading(t)
    BY <1>7, ReadingSame
  <2>2. DeskShape'
    BY <1>7 DEF DeskListsInv, DeskShape
  <2>3. \A t \in DecisionTabs : ListFollows(t)'
    BY <1>7, <2>1 DEF DeskListsInv, ListFollows
  <2> QED BY <2>2, <2>3 DEF DeskListsInv
<1>8. ASSUME NEW l \in loads, ListFails(l) PROVE DeskListsInv'
  BY <1>7, <1>8 DEF ListFails, callVars, backendVars, DeskListsInv, DeskShape
<1>9. ASSUME NEW c \in calls, DecisionFails(c) PROVE DeskListsInv'
  BY <1>7, <1>9 DEF DecisionFails, listVars, backendVars, DeskListsInv, DeskShape
<1>10. ASSUME NEW i \in Items, NEW do, NEW to, Decide(i, do, to) PROVE DeskListsInv'
  <2> DEFINE c == [item |-> i, do |-> do, to |-> to, stored |-> FALSE]
  <2>1. IsCall(c)
    BY DEF IsCall
  <2>2. calls' = calls \cup {c} /\ UNCHANGED <<loads, rows, store, lost>>
    BY <1>10 DEF Decide, listVars, backendVars
  <2> HIDE DEF c
  <2> QED BY <1>7, <2>1, <2>2 DEF DeskListsInv, DeskShape
<1>11. ASSUME NEW i \in Items,
              \/ ApproveRequest(i) \/ ApproveInstitution(i) \/ RejectRequest(i)
              \/ RejectInstitution(i) \/ ToggleVerify(i) \/ SaveStatus(i)
       PROVE  DeskListsInv'
  <2>1. \E do, to : Decide(i, do, to)
    BY <1>11 DEF ApproveRequest, ApproveInstitution, RejectRequest, RejectInstitution, ToggleVerify, SaveStatus
  <2> QED BY <1>10, <2>1
<1>12. CASE UNCHANGED <<listVars, callVars, backendVars>>
  BY <1>7, <1>12 DEF listVars, callVars, backendVars, DeskListsInv, DeskShape
<1>13. ASSUME NEW c \in calls, StoreDecision(c) PROVE DeskListsInv'
  <2> DEFINE d == [c EXCEPT !.stored = TRUE]
  <2>1. IsCall(d) /\ d.item = c.item /\ d.stored /\ c.item \in Items
    <3>1. IsCall(c) /\ c.item \in Items
      BY DEF DeskListsInv, DeskShape, IsCall
    <3> QED BY <3>1, CallStored
  <2>2. /\ calls' = (calls \ {c}) \cup {d} /\ UNCHANGED <<loads, rows, lost>> /\ ~c.stored
        /\ store' = [store EXCEPT ![c.item] = Verdict(c)]
    BY <1>13 DEF StoreDecision, listVars
  <2> HIDE DEF d
  <2>3. DeskShape'
    BY <2>1, <2>2 DEF DeskListsInv, DeskShape
  <2>4. ASSUME NEW t \in DecisionTabs PROVE ListFollows(t)'
    <3>1. CASE TabOf(c.item) = t
      BY <2>1, <2>2, <3>1 DEF ListFollows
    <3>2. CASE TabOf(c.item) # t
      <4>1. Reading(t)' = Reading(t)
        BY <2>1, <2>2, <3>2, ReadingSame DEF DeskListsInv, DeskShape
      <4> QED BY <2>1, <2>2, <4>1 DEF DeskListsInv, ListFollows
    <3> QED BY <3>1, <3>2
  <2> QED BY <2>3, <2>4 DEF DeskListsInv
<1>14. \/ \E t \in Visited : ChangeTab(t)
       \/ Refresh \/ \E ok \in BOOLEAN : Imported(ok)
       \/ \E l \in loads : ReadList(l) \/ Listed(l) \/ ListFails(l)
       \/ \E c \in calls : Decided(c) \/ DecisionFails(c) \/ StoreDecision(c)
       \/ \E i \in Items : \/ ApproveRequest(i) \/ ApproveInstitution(i) \/ RejectRequest(i)
                           \/ RejectInstitution(i) \/ ToggleVerify(i) \/ SaveStatus(i)
       \/ UNCHANGED <<listVars, callVars, backendVars>>
  BY DEF DeskNext, CancelDialog, ImportDataset, OpenReject, OpenStatus, ChooseStatus, deskVars
<1> QED BY <1>1, <1>2, <1>3, <1>4, <1>5, <1>6, <1>8, <1>9, <1>11, <1>12, <1>13, <1>14

LEMMA TabNext == tab \in Tabs /\ [DeskNext]_deskVars => tab' \in Tabs
BY VisitedAssumption
DEF DeskNext, deskVars, listVars, ChangeTab, Refresh, ReadList, Listed, ListFails, Decide,
    ApproveRequest, ApproveInstitution, OpenReject, RejectRequest, RejectInstitution, ToggleVerify,
    OpenStatus, ChooseStatus, SaveStatus, CancelDialog, ImportDataset, Imported, StoreDecision,
    Decided, DecisionFails

(* At rest the newest list of a tab is what is stored, for any number of      *)
(* items, decisions and loads that cross: ListCurrent.                        *)
THEOREM ListsFollow == DeskSpec => []ListCurrent
<1>1. DeskInit => tab \in Tabs
  BY VisitedAssumption DEF DeskInit
<1>2. DeskListsInv => ListCurrent
  BY DEF DeskListsInv, ListFollows, ListCurrent, DecisionTabs
<1>3. (DeskListsInv /\ tab \in Tabs) /\ [DeskNext]_deskVars => (DeskListsInv /\ tab \in Tabs)'
  BY DeskListsNext, TabNext
<1> QED BY <1>1, <1>2, <1>3, DeskStart, PTL DEF DeskSpec

(* No spinner of the desk is left up by requests that are over, and no row's  *)
(* buttons stay disabled.                                                     *)
LEMMA FlagsNext == FlagsFall /\ [DeskNext]_deskVars => FlagsFall'
<1> SUFFICES ASSUME FlagsFall, [DeskNext]_deskVars PROVE FlagsFall'
  OBVIOUS
<1> USE DEF FlagsFall
<1>1. ASSUME NEW t, LoadData(t) PROVE loads' # {}
  BY <1>1 DEF LoadData
<1>2. CASE Refresh \/ \E t \in Visited : ChangeTab(t)
  BY <1>1, <1>2 DEF Refresh, ChangeTab, buttonVars, callVars
<1>3. ASSUME NEW ok \in BOOLEAN, Imported(ok) PROVE FlagsFall'
  BY <1>1, <1>3 DEF Imported, listVars, callVars
<1>4. ASSUME NEW l \in loads, ReadList(l) \/ Listed(l) \/ ListFails(l) PROVE FlagsFall'
  BY <1>4 DEF ReadList, Listed, ListFails, buttonVars, callVars
<1>5. ASSUME NEW i, NEW do, NEW to, Decide(i, do, to) PROVE FlagsFall'
  BY <1>5 DEF Decide, listVars
<1>6. ASSUME NEW i \in Items,
             \/ ApproveRequest(i) \/ ApproveInstitution(i) \/ RejectRequest(i)
             \/ RejectInstitution(i) \/ ToggleVerify(i) \/ SaveStatus(i)
      PROVE  FlagsFall'
  <2>1. \E do, to : Decide(i, do, to)
    BY <1>6 DEF ApproveRequest, ApproveInstitution, RejectRequest, RejectInstitution, ToggleVerify, SaveStatus
  <2> QED BY <1>5, <2>1
<1>7. CASE UNCHANGED <<listVars, processing, callVars>>
  BY <1>7 DEF listVars, callVars
<1>8. ASSUME NEW c \in calls, StoreDecision(c) PROVE FlagsFall'
  BY <1>8 DEF StoreDecision, listVars, buttonVars
<1>9. ASSUME NEW c \in calls, Decided(c) \/ DecisionFails(c) PROVE FlagsFall'
  BY <1>1, <1>9 DEF Decided, DecisionFails, listVars
<1>10. CancelDialog \/ ImportDataset \/ UNCHANGED deskVars
        \/ (\E i \in Items : OpenReject(i) \/ OpenStatus(i)) \/ (\E s \in Statuses : ChooseStatus(s))
        => UNCHANGED <<listVars, processing, callVars>>
  BY DEF CancelDialog, ImportDataset, OpenReject, OpenStatus, ChooseStatus, deskVars, buttonVars
<1> QED BY <1>2, <1>3, <1>4, <1>6, <1>7, <1>8, <1>9, <1>10 DEF DeskNext

LEMMA DeskFlags == DeskSpec => []FlagsFall
<1>1. DeskInit => FlagsFall
  BY DEF DeskInit, FlagsFall
<1> QED BY <1>1, FlagsNext, PTL DEF DeskSpec
-------------------------------------------------------------------------------
(* The links to similar problems.                                             *)
Scans ==
  [kind : {"preview", "check"}, n : Nat, live : BOOLEAN, found : LinkLists \cup {NoData},
   crossed : BOOLEAN]
Resolutions ==
  [do : {"merge", "dismiss"}, c : Candidates, n : Nat, live : BOOLEAN, stored : BOOLEAN]

LinksType ==
  /\ links \in QueriesOf(LinkLists) /\ (Answered(links) => links.seen \in LinkLists)
  /\ scans \subseteq Scans /\ resolutions \subseteq Resolutions
  /\ link \in [Candidates -> {"none", "pending", "confirmed", "dismissed"}]
  /\ stale \in BOOLEAN /\ crossed \in BOOLEAN /\ tainted \in BOOLEAN /\ tried \in Nat

(* An answer that does not offer candidate c.                                 *)
Spares(d, c) == d # NoData /\ c \in DOMAIN d => d[c] # "pending"

(* Every answer that may still be shown, and the one that is, spares what was *)
(* dismissed, unless it read before: then the flags say so, or the dismissal  *)
(* is not answered yet and will have the links fetched again.                 *)
AnswersSpare(c) ==
  /\ Answered(links) => crossed \/ Spares(links.seen, c)
  /\ \A s \in scans : s.crossed \/ Spares(s.found, c)
  /\ links.fetch = "idle" /\ ~links.failed /\ ~stale /\ ~tainted =>
       \/ \E r \in resolutions : r.do = "dismiss" /\ r.c = c /\ r.stored
       \/ Spares(links.data, c)

LinksInv == LinksType /\ \A c \in Strong : link[c] = "dismissed" => AnswersSpare(c)

(* What a search and the list of the links answer.                            *)
LinkValues == {"none", "pending", "confirmed", "dismissed"}

LEMMA InLinkLists ==
  ASSUME NEW S \in SUBSET Candidates, NEW d \in [S -> {"pending", "confirmed", "dismissed"}]
  PROVE  d \in LinkLists
BY DEF LinkLists

LEMMA FoundList ==
  /\ Found \in LinkLists /\ Found # NoData
  /\ \A c \in Strong : link[c] = "dismissed" => Spares(Found, c)
<1> DEFINE S == {c \in Candidates : ~(c \in Strong /\ link[c] = "dismissed")}
<1>1. S \in SUBSET Candidates /\ Found \in [S -> {"pending", "confirmed", "dismissed"}]
  BY DEF Found
<1>2. Found \in LinkLists
  BY <1>1, InLinkLists
<1>3. DOMAIN Found = S
  BY DEF Found
<1> QED BY <1>2, <1>3, LinksAssumption DEF Spares

Listing == [c \in {c \in Candidates : link[c] # "none"} |-> link[c]]

LEMMA ListOfLinks ==
  ASSUME LinksType
  PROVE  /\ Listing \in LinkLists /\ Listing # NoData
         /\ \A c \in Strong : link[c] = "dismissed" => Spares(Listing, c)
<1> DEFINE S == {c \in Candidates : link[c] # "none"}
<1>1. S \in SUBSET Candidates /\ Listing \in [S -> {"pending", "confirmed", "dismissed"}]
  BY DEF Listing, LinksType
<1>2. Listing \in LinkLists
  BY <1>1, InLinkLists
<1>3. ASSUME NEW c \in S PROVE Listing[c] = link[c]
  BY DEF Listing
<1>4. DOMAIN Listing = S
  BY DEF Listing
<1> QED BY <1>2, <1>3, <1>4, LinksAssumption DEF Spares

(* Refetching the links asks for them anew, or goes on with a first fetch.    *)
LEMMA LinksAskedFor ==
  ASSUME LinksType
  PROVE  /\ Refetch(links) \in QueriesOf(LinkLists)
         /\ Answered(Refetch(links)) => Refetch(links) = links
         /\ Refetch(links).fetch # "idle"
         /\ Answered(Refetch(links)) => Refetch(links).seen \in LinkLists
<1>1. links \in QueriesOf(LinkLists) /\ (Answered(links) => links.seen \in LinkLists)
  BY DEF LinksType
<1>2. /\ Refetch(links) \in QueriesOf(LinkLists)
      /\ Answered(Refetch(links)) => Refetch(links).seen \in LinkLists
      /\ Refetch(links) = links \/ Asked(Refetch(links))
      /\ links.data # NoData => Asked(Refetch(links))
  BY <1>1, Refetched
<1>3. Refetch(links) = links /\ links.fetch = "idle" => FALSE
  BY <1>1 DEF Refetch, QueriesOf
<1> QED BY <1>2, <1>3 DEF Asked, Answered

LEMMA LinksStart == LinksInit => LinksInv
<1> SUFFICES ASSUME LinksInit PROVE LinksInv
  OBVIOUS
<1>1. LinksType
  BY DEF LinksInit, LinksType, Opened, QueriesOf, Answered
<1>2. \A c \in Strong : link[c] # "dismissed"
  BY CandidatesAssumption DEF LinksInit
<1> QED BY <1>1, <1>2 DEF LinksInv

LEMMA LinksTypeNext == ASSUME LinksType, [LinksNext]_linkVars PROVE LinksType'
<1> USE DEF LinksType, Answered
<1>1. CASE OpenPanel
  BY <1>1, LinksAskedFor DEF OpenPanel, QueriesOf
<1>2. CASE ClosePanel
  <2>1. \A s \in scans : [s EXCEPT !.live = FALSE] \in Scans
    BY DEF Scans
  <2>2. \A r \in resolutions : [r EXCEPT !.live = FALSE] \in Resolutions
    BY DEF Resolutions
  <2> QED BY <1>2, <2>1, <2>2 DEF ClosePanel, cacheVars, storeVars
<1>3. ASSUME NEW kind \in {"preview", "check"}, BeginScan(kind)
      PROVE  scans' \subseteq Scans /\ tried' \in Nat
  <2>1. Scan(kind) \in Scans
    BY DEF Scan, Scans
  <2> QED BY <1>3, <2>1 DEF BeginScan
<1>4. CASE Preview \/ RunDuplicateCheck
  <2>1. scans' \subseteq Scans /\ tried' \in Nat
    BY <1>3, <1>4 DEF Preview, RunDuplicateCheck
  <2> QED BY <1>4, <2>1 DEF Preview, RunDuplicateCheck, cacheVars, storeVars
<1>5. ASSUME NEW s \in scans, StoreScan(s) PROVE LinksType'
  <2>1. [s EXCEPT !.found = Found] \in Scans
    BY FoundList DEF Scans
  <2>2. link' \in [Candidates -> LinkValues]
    BY <1>5 DEF StoreScan, LinkValues
  <2> QED BY <1>5, <2>1, <2>2 DEF StoreScan, cacheVars, LinkValues
<1>6. ASSUME NEW s \in scans, Scanned(s) PROVE LinksType'
  <2>1. s.found \in LinkLists /\ s.crossed \in BOOLEAN
    BY <1>6 DEF Scanned, Scans
  <2>2. [links EXCEPT !.data = s.found, !.failed = FALSE] \in QueriesOf(LinkLists)
    BY <2>1 DEF QueriesOf
  <2>3. /\ [links EXCEPT !.data = s.found, !.failed = FALSE].fetch = links.fetch
        /\ [links EXCEPT !.data = s.found, !.failed = FALSE].seen = links.seen
    BY DEF QueriesOf
  <2> QED BY <1>6, <2>1, <2>2, <2>3 DEF Scanned
<1>7. ASSUME NEW s \in scans, ScanFails(s) PROVE LinksType'
  BY <1>7 DEF ScanFails, cacheVars, storeVars
<1>8. CASE FetchLinks
  <2>1. links' = Reads(links, Listing)
    BY <1>8 DEF FetchLinks, Listing
  <2>2. Reads(links, Listing) \in QueriesOf(LinkLists) /\ Reads(links, Listing).seen = Listing
    BY ListOfLinks DEF Reads, QueriesOf
  <2> QED BY <1>8, <2>1, <2>2, ListOfLinks DEF FetchLinks
<1>9. CASE LinksFetched
  <2>1. links' \in QueriesOf(LinkLists) /\ links'.fetch = "idle"
    BY <1>9 DEF LinksFetched, Shows, QueriesOf
  <2> QED BY <1>9, <2>1 DEF LinksFetched
<1>10. CASE LinksMissed
  <2>1. links' \in QueriesOf(LinkLists) /\ links'.fetch = "idle"
    BY <1>10 DEF LinksMissed, Misses, QueriesOf
  <2> QED BY <1>10, <2>1 DEF LinksMissed
<1>11. ASSUME NEW do \in {"merge", "dismiss"}, NEW c \in Candidates, Resolve(do, c) PROVE LinksType'
  <2> DEFINE r == [do |-> do, c |-> c, n |-> tried, live |-> TRUE, stored |-> FALSE]
  <2>1. r \in Resolutions
    BY DEF Resolutions
  <2>2. resolutions' = resolutions \cup {r}
    BY <1>11 DEF Resolve
  <2> HIDE DEF r
  <2> QED BY <1>11, <2>1, <2>2 DEF Resolve, cacheVars, storeVars
<1>12. ASSUME NEW r \in resolutions, Store(r) PROVE resolutions' \subseteq Resolutions
  <2>1. [r EXCEPT !.stored = TRUE] \in Resolutions
    BY DEF Resolutions
  <2> QED BY <1>12, <2>1 DEF Store
<1>13. ASSUME NEW r \in resolutions, StoreMerge(r) PROVE LinksType'
  <2>1. resolutions' \subseteq Resolutions
    BY <1>12, <1>13 DEF StoreMerge
  <2> QED BY <1>13, <2>1 DEF StoreMerge, cacheVars
<1>14. ASSUME NEW r \in resolutions, StoreDismissal(r) PROVE LinksType'
  <2>1. resolutions' \subseteq Resolutions
    BY <1>12, <1>14 DEF StoreDismissal
  <2>2. ASSUME NEW s \in scans PROVE [s EXCEPT !.crossed = s.crossed \/ s.found # NoData] \in Scans
    <3>1. (s.crossed \/ s.found # NoData) \in BOOLEAN
      OBVIOUS
    <3> QED BY <3>1 DEF Scans
  <2>3. scans' \subseteq Scans /\ crossed' \in BOOLEAN
    BY <1>14, <2>2 DEF StoreDismissal
  <2>4. link' \in [Candidates -> LinkValues]
    BY <1>14 DEF StoreDismissal, LinkValues
  <2> QED BY <1>14, <2>1, <2>3, <2>4 DEF StoreDismissal, LinkValues
<1>15. ASSUME NEW r \in resolutions, Resolved(r) PROVE LinksType'
  <2>1. links' \in QueriesOf(LinkLists) /\ (Answered(links)' => links'.seen \in LinkLists)
    BY <1>15, LinksAskedFor DEF Resolved
  <2> QED BY <1>15, <2>1 DEF Resolved
<1>16. ASSUME NEW r \in resolutions, ResolutionFails(r) PROVE LinksType'
  BY <1>16 DEF ResolutionFails
<1>17. CASE UNCHANGED <<cacheVars, scans, resolutions, storeVars, tried>>
  BY <1>17 DEF cacheVars, storeVars
<1>18. /\ ShowOrHide \/ CloseComparison \/ UNCHANGED linkVars \/ (\E c \in Candidates : Compare(c))
            => UNCHANGED <<cacheVars, scans, resolutions, storeVars, tried>>
       /\ \A c \in Candidates : Merge(c) \/ Dismiss(c) => Resolve("merge", c) \/ Resolve("dismiss", c)
  BY DEF ShowOrHide, CloseComparison, linkVars, Compare, Merge, Dismiss
<1> QED BY <1>1, <1>2, <1>4, <1>5, <1>6, <1>7, <1>8, <1>9, <1>10, <1>11, <1>13, <1>14, <1>15, <1>16,
           <1>17, <1>18 DEF LinksNext

LEMMA SpareNext ==
  ASSUME LinksInv, [LinksNext]_linkVars, NEW c \in Strong, link'[c] = "dismissed"
  PROVE  AnswersSpare(c)'
<1> USE DEF AnswersSpare
<1>0. c \in Candidates /\ LinksType
  BY CandidatesAssumption DEF LinksInv
<1>1. ASSUME link[c] = "dismissed"
      PROVE  /\ Answered(links) => crossed \/ Spares(links.seen, c)
             /\ \A s \in scans : s.crossed \/ Spares(s.found, c)
             /\ links.fetch = "idle" /\ ~links.failed /\ ~stale /\ ~tainted =>
                  \/ \E r \in resolutions : r.do = "dismiss" /\ r.c = c /\ r.stored
                  \/ Spares(links.data, c)
  BY <1>1 DEF LinksInv
<1>2. CASE OpenPanel
  <2>1. link = link' /\ scans' = scans /\ resolutions' = resolutions /\ tainted' = tainted
    BY <1>2 DEF OpenPanel
  <2>2. CASE links' = links /\ (links.fetch # "idle" \/ ~stale)
    <3>1. Answered(links) /\ crossed => crossed'
      BY <1>2 DEF OpenPanel, Answered
    <3> QED BY <1>1, <2>1, <2>2, <3>1
  <2>3. CASE links.fetch = "idle" /\ links' = Refetch(links)
    <3>1. links'.fetch = "asked"
      BY <1>0, <2>3 DEF Refetch, LinksType, QueriesOf
    <3> QED BY <1>1, <2>1, <3>1 DEF Answered
  <2> QED BY <1>2, <2>2, <2>3 DEF OpenPanel
<1>3. ASSUME UNCHANGED <<cacheVars, link>>,
             \A s \in scans' : \/ Spares(s.found, c)
                               \/ \E u \in scans : s.crossed = u.crossed /\ s.found = u.found,
             \A r \in resolutions : \E v \in resolutions' :
               v.do = r.do /\ v.c = r.c /\ v.stored = r.stored
      PROVE  AnswersSpare(c)'
  <2>1. link[c] = "dismissed" /\ UNCHANGED <<links, stale, crossed, tainted>>
    BY <1>3 DEF cacheVars
  <2>2. \A s \in scans' : s.crossed \/ Spares(s.found, c)
    BY <1>1, <1>3, <2>1
  <2>3. (\E r \in resolutions : r.do = "dismiss" /\ r.c = c /\ r.stored)
          => \E r \in resolutions' : r.do = "dismiss" /\ r.c = c /\ r.stored
    BY <1>3
  <2> QED BY <1>1, <2>1, <2>2, <2>3
<1>4. CASE ClosePanel
  <2>1. \A s \in scans : LET u == [s EXCEPT !.live = FALSE] IN u.crossed = s.crossed /\ u.found = s.found
    BY <1>0 DEF LinksType, Scans
  <2>2. \A r \in resolutions : LET v == [r EXCEPT !.live = FALSE] IN
          v.do = r.do /\ v.c = r.c /\ v.stored = r.stored
    BY <1>0 DEF LinksType, Resolutions
  <2> QED BY <1>3, <1>4, <2>1, <2>2 DEF ClosePanel, storeVars
<1>5. CASE Preview \/ RunDuplicateCheck
  <2>1. \A kind : Spares(Scan(kind).found, c)
    BY DEF Scan, Spares
  <2>2. \E kind : scans' = scans \cup {Scan(kind)}
    BY <1>5 DEF Preview, RunDuplicateCheck, BeginScan
  <2> QED BY <1>3, <1>5, <2>1, <2>2 DEF Preview, RunDuplicateCheck, cacheVars, storeVars
<1>6. ASSUME NEW s \in scans, StoreScan(s) PROVE AnswersSpare(c)'
  <2>1. link[c] = "dismissed"
    BY <1>0, <1>6 DEF StoreScan, LinksType
  <2>2. Spares(Found, c)
    BY <2>1, FoundList
  <2>3. [s EXCEPT !.found = Found].found = Found
    BY <1>0 DEF LinksType, Scans
  <2>4. \A u \in scans' : u \in scans \/ Spares(u.found, c)
    BY <1>6, <2>2, <2>3 DEF StoreScan
  <2>5. \A u \in scans' : u.crossed \/ Spares(u.found, c)
    BY <1>1, <2>1, <2>4
  <2>6. UNCHANGED <<links, stale, crossed, tainted, resolutions>>
    BY <1>6 DEF StoreScan, cacheVars
  <2> QED BY <1>1, <2>1, <2>5, <2>6
<1>7. ASSUME NEW s \in scans, Scanned(s) PROVE AnswersSpare(c)'
  <2>1. link[c] = "dismissed" /\ scans' \subseteq scans /\ resolutions' = resolutions /\ crossed' = crossed
    BY <1>7 DEF Scanned
  <2>2. s.crossed \/ Spares(s.found, c)
    BY <1>1, <2>1
  <2>3. CASE s.kind = "check"
    <3>1. /\ links'.fetch = links.fetch /\ links'.seen = links.seen /\ links'.data = s.found
          /\ tainted' = s.crossed
      BY <1>0, <1>7, <2>3 DEF Scanned, LinksType, QueriesOf
    <3> QED BY <1>1, <2>1, <2>2, <3>1 DEF Answered
  <2>4. CASE s.kind # "check"
    <3>1. UNCHANGED <<links, tainted, stale>>
      BY <1>7, <2>4 DEF Scanned
    <3> QED BY <1>1, <2>1, <3>1
  <2> QED BY <2>3, <2>4
<1>8. ASSUME NEW s \in scans, ScanFails(s) PROVE AnswersSpare(c)'
  BY <1>3, <1>8 DEF ScanFails, storeVars
<1>9. CASE FetchLinks
  <2>1. link[c] = "dismissed" /\ UNCHANGED <<scans, resolutions, link>>
    BY <1>9 DEF FetchLinks
  <2>2. links'.seen = Listing /\ links'.fetch = "read"
    BY <1>0, <1>9 DEF FetchLinks, Listing, Reads, LinksType, QueriesOf
  <2> QED BY <1>0, <1>1, <2>1, <2>2, ListOfLinks
<1>10. CASE LinksFetched
  <2>1. link[c] = "dismissed" /\ UNCHANGED <<scans, resolutions, link, crossed>>
    BY <1>10 DEF LinksFetched
  <2>2. links'.data = links.seen /\ links'.fetch = "idle" /\ tainted' = crossed /\ Answered(links)
    BY <1>10 DEF LinksFetched, Shows
  <2> QED BY <1>1, <2>1, <2>2 DEF Answered
<1>11. CASE LinksMissed
  <2>1. link[c] = "dismissed" /\ UNCHANGED <<scans, resolutions, link, crossed>>
    BY <1>11 DEF LinksMissed
  <2>2. links'.fetch = "idle" /\ links'.failed
    BY <1>0, <1>11 DEF LinksMissed, Misses, LinksType, QueriesOf
  <2> QED BY <1>1, <2>1, <2>2 DEF Answered
<1>12. ASSUME NEW do, NEW d, Resolve(do, d) PROVE AnswersSpare(c)'
  BY <1>3, <1>12 DEF Resolve, storeVars
<1>13. ASSUME NEW r \in resolutions, StoreMerge(r) PROVE AnswersSpare(c)'
  <2>1. r.c \in Candidates /\ r.do = "merge" /\ link' = [link EXCEPT ![r.c] = "confirmed"]
    BY <1>0, <1>13 DEF StoreMerge, LinksType, Resolutions
  <2>2. link[c] = "dismissed"
    BY <1>0, <2>1 DEF LinksType
  <2>3. resolutions \ {r} \subseteq resolutions' /\ UNCHANGED <<links, stale, crossed, tainted, scans>>
    BY <1>13 DEF StoreMerge, Store, cacheVars
  <2>4. (\E v \in resolutions : v.do = "dismiss" /\ v.c = c /\ v.stored)
          => \E v \in resolutions' : v.do = "dismiss" /\ v.c = c /\ v.stored
    BY <2>1, <2>3
  <2> QED BY <1>1, <2>2, <2>3, <2>4
<1>14. ASSUME NEW r \in resolutions, StoreDismissal(r) PROVE AnswersSpare(c)'
  <2>1. /\ crossed' = (crossed \/ Answered(links)) /\ UNCHANGED <<links, stale, tainted>> /\ ~r.stored
        /\ r.do = "dismiss" /\ link' = [link EXCEPT ![r.c] = "dismissed"]
        /\ resolutions' = (resolutions \ {r}) \cup {[r EXCEPT !.stored = TRUE]}
    BY <1>14 DEF StoreDismissal, Store
  <2>2. \A s \in scans' : \E u \in scans : s.found = u.found /\ s.crossed = (u.crossed \/ u.found # NoData)
    <3> DEFINE now(u) == [u EXCEPT !.crossed = u.crossed \/ u.found # NoData]
    <3>1. ASSUME NEW u \in scans
          PROVE  now(u).found = u.found /\ now(u).crossed = (u.crossed \/ u.found # NoData)
      BY <1>0 DEF LinksType, Scans
    <3>2. scans' = {now(u) : u \in scans}
      BY <1>14 DEF StoreDismissal
    <3> HIDE DEF now
    <3> QED BY <3>1, <3>2
  <2>3. \A s \in scans' : s.crossed \/ Spares(s.found, c)
    BY <2>2 DEF Spares
  <2>4. CASE r.c = c
    <3>1. LET v == [r EXCEPT !.stored = TRUE] IN v.do = "dismiss" /\ v.c = c /\ v.stored
      BY <1>0, <2>1, <2>4 DEF LinksType, Resolutions
    <3> QED BY <2>1, <2>3, <3>1
  <2>5. CASE r.c # c
    <3>1. link[c] = "dismissed"
      BY <1>0, <2>1, <2>5 DEF LinksType
    <3>2. (\E v \in resolutions : v.do = "dismiss" /\ v.c = c /\ v.stored)
            => \E v \in resolutions' : v.do = "dismiss" /\ v.c = c /\ v.stored
      BY <2>1
    <3> QED BY <1>1, <2>1, <2>3, <3>1, <3>2
  <2> QED BY <2>4, <2>5
<1>15. ASSUME NEW r \in resolutions, Resolved(r) PROVE AnswersSpare(c)'
  <2>1. link[c] = "dismissed" /\ UNCHANGED <<scans, link, crossed, tainted>>
    BY <1>15 DEF Resolved
  <2>2. \/ links'.fetch # "idle" /\ (Answered(links)' => links' = links)
        \/ links' = links /\ stale'
    BY <1>0, <1>15, LinksAskedFor DEF Resolved, Answered
  <2> QED BY <1>1, <2>1, <2>2
<1>16. ASSUME NEW r \in resolutions, ResolutionFails(r) PROVE AnswersSpare(c)'
  <2>1. /\ link[c] = "dismissed" /\ UNCHANGED <<links, stale, scans, link, crossed>>
        /\ resolutions' = resolutions \ {r} /\ tainted' = (tainted \/ (r.stored /\ r.do = "dismiss"))
    BY <1>16 DEF ResolutionFails
  <2>2. ~tainted' /\ (\E v \in resolutions : v.do = "dismiss" /\ v.c = c /\ v.stored)
          => \E v \in resolutions' : v.do = "dismiss" /\ v.c = c /\ v.stored
    BY <2>1
  <2> QED BY <1>1, <2>1, <2>2
<1>17. CASE UNCHANGED <<cacheVars, scans, resolutions, storeVars>>
  BY <1>3, <1>17 DEF storeVars
<1>18. /\ ShowOrHide \/ CloseComparison \/ UNCHANGED linkVars \/ (\E d \in Candidates : Compare(d))
            => UNCHANGED <<cacheVars, scans, resolutions, storeVars>>
       /\ \A d \in Candidates : Merge(d) \/ Dismiss(d) => Resolve("merge", d) \/ Resolve("dismiss", d)
  BY DEF ShowOrHide, CloseComparison, linkVars, Compare, Merge, Dismiss
<1> QED BY <1>2, <1>4, <1>5, <1>6, <1>7, <1>8, <1>9, <1>10, <1>11, <1>12, <1>13, <1>14, <1>15, <1>16,
           <1>17, <1>18 DEF LinksNext

(* A link that was dismissed is not offered again, for any number of          *)
(* candidates, searches, merges and dismissals: DismissedNotOffered.          *)
THEOREM DismissedStay == LinksSpec => []DismissedNotOffered
<1>1. LinksInv => DismissedNotOffered
  BY DEF LinksInv, AnswersSpare, Spares, DismissedNotOffered, Offered, Shown
<1>2. LinksInv /\ [LinksNext]_linkVars => LinksInv'
  <2> SUFFICES ASSUME LinksInv, [LinksNext]_linkVars PROVE LinksInv'
    OBVIOUS
  <2>1. LinksType'
    BY LinksTypeNext DEF LinksInv
  <2>2. \A c \in Strong : link'[c] = "dismissed" => AnswersSpare(c)'
    BY SpareNext
  <2> QED BY <2>1, <2>2 DEF LinksInv
<1> QED BY <1>1, <1>2, LinksStart, PTL DEF LinksSpec
-------------------------------------------------------------------------------
(* The report's form and its search for similar reports.                      *)
Keys == (Texts \cup {None}) \X (Places \cup Fixes)
SearchAnswers == [state : {"asked", "found", "nothing"}, of : Keys \cup {None}]
AnswerMaps == UNION {[K -> SearchAnswers] : K \in SUBSET Keys}
Forms ==
  [text : Texts \cup {None}, place : Places \cup Fixes, coords : BOOLEAN,
   media : Files \cup {None}, fill : Nat]
Searches ==
  [due : BOOLEAN, for : Keys \cup {None}, dismissed : BOOLEAN, answers : AnswerMaps]

FormType ==
  form \in Forms /\ check \in Searches /\ uploads \subseteq Files /\ fills \in Nat

(* What was found for a key speaks of it, and with no change pending the key  *)
(* searched for is that of the text and place on the screen.                  *)
SearchFollows ==
  /\ \A k \in DOMAIN check.answers : check.answers[k].state = "found" => check.answers[k].of = k
  /\ check.for # None => /\ check.for \in DOMAIN check.answers
                         /\ ~check.due => check.for = <<form.text, form.place>>

SearchInv == FormType /\ SearchFollows

LEMMA InAnswerMaps ==
  ASSUME NEW K \in SUBSET Keys, NEW d \in [K -> SearchAnswers] PROVE d \in AnswerMaps
BY DEF AnswerMaps

LEMMA OfAnswerMaps ==
  ASSUME NEW d \in AnswerMaps
  PROVE  DOMAIN d \in SUBSET Keys /\ d \in [DOMAIN d -> SearchAnswers]
BY DEF AnswerMaps

LEMMA KeysAre ==
  /\ \A k \in Keys : KeyOf(k[1], k[2]) = k
  /\ \A f \in Forms : /\ KeyOf(f.text, f.place) \in Keys
                      /\ KeyOf(f.text, f.place) = <<f.text, f.place>>
BY DEF KeyOf, Keys, Forms

LEMMA SearchStart == ReportInit => SearchInv
<1> SUFFICES ASSUME ReportInit PROVE SearchInv
  OBVIOUS
<1>1. <<>> \in AnswerMaps /\ DOMAIN <<>> = {}
  <2>1. <<>> \in [{} -> SearchAnswers] /\ {} \in SUBSET Keys
    OBVIOUS
  <2> QED BY <2>1, InAnswerMaps
<1>2. check \in Searches
  BY <1>1 DEF ReportInit, FormInit, Unsearched, Searches
<1>3. form \in Forms
  BY PlacesAssumption DEF ReportInit, FormInit, Blank, Forms
<1>4. SearchFollows
  BY <1>1 DEF ReportInit, FormInit, Unsearched, SearchFollows
<1> QED BY <1>2, <1>3, <1>4 DEF ReportInit, FormInit, SearchInv, FormType

(* A change of the form makes a search due, or ends the one shown.            *)
LEMMA ChangedSearch ==
  ASSUME SearchInv, NEW text, check' = Changed(check, text), form' \in Forms,
         uploads' \subseteq Files, fills' \in Nat
  PROVE  SearchInv'
<1>1. check' \in Searches /\ check'.answers = check.answers
  BY DEF Changed, Searches, SearchInv, FormType
<1>2. check'.for = None \/ (check'.for = check.for /\ check'.due)
  BY DEF Changed, Searches, SearchInv, FormType
<1> QED BY <1>1, <1>2 DEF SearchInv, SearchFollows, FormType

LEMMA SearchNext == SearchInv /\ [ReportNext]_reportVars => SearchInv'
<1> SUFFICES ASSUME SearchInv, [ReportNext]_reportVars PROVE SearchInv'
  OBVIOUS
<1>0. form \in Forms /\ check \in Searches /\ check.answers \in AnswerMaps
  BY DEF SearchInv, FormType, Searches
<1>1. CASE Elapse
  <2> DEFINE k == KeyOf(form.text, form.place)
             first == [state |-> "asked", of |-> None]
             answers == IF Known(k) THEN check.answers ELSE With(Kept, k, first)
  <2>1. k \in Keys /\ k = <<form.text, form.place>> /\ first \in SearchAnswers
    BY <1>0, KeysAre DEF SearchAnswers
  <2>2. check' = [due |-> FALSE, for |-> <<form.text, form.place>>, dismissed |-> FALSE,
                  answers |-> answers]
    BY <1>1 DEF Elapse
  <2>3. UNCHANGED <<form, uploads, fills>>
    BY <1>1 DEF Elapse
  <2> HIDE DEF first
  <2>4. DOMAIN Kept \in SUBSET DOMAIN check.answers /\ \A x \in DOMAIN Kept : Kept[x] = check.answers[x]
    BY DEF Kept
  <2>5. /\ DOMAIN With(Kept, k, first) = DOMAIN Kept \cup {k}
        /\ \A x \in DOMAIN Kept \cup {k} :
             With(Kept, k, first)[x] = IF x = k THEN first ELSE Kept[x]
    BY DEF With
  <2>6. DOMAIN check.answers \in SUBSET Keys /\ check.answers \in [DOMAIN check.answers -> SearchAnswers]
    BY <1>0, OfAnswerMaps
  <2>7. answers \in AnswerMaps
    <3>1. With(Kept, k, first) \in [DOMAIN Kept \cup {k} -> SearchAnswers]
      BY <2>1, <2>4, <2>6 DEF With
    <3>2. DOMAIN Kept \cup {k} \in SUBSET Keys
      BY <2>1, <2>4, <2>6
    <3> QED BY <1>0, <3>1, <3>2, InAnswerMaps
  <2>8. k \in DOMAIN answers
    BY <2>5 DEF Known
  <2>9. \A x \in DOMAIN answers : answers[x].state = "found" => answers[x].of = x
    <3>1. first.state # "found"
      BY DEF first
    <3> QED BY <2>4, <2>5, <3>1 DEF SearchInv, SearchFollows
  <2> HIDE DEF answers, k
  <2>10. check' \in Searches
    BY <2>1, <2>2, <2>7 DEF Searches
  <2> QED BY <2>1, <2>2, <2>3, <2>8, <2>9, <2>10 DEF SearchInv, FormType, SearchFollows
<1>2. ASSUME NEW state \in {"found", "nothing"}, SearchAnswered(state) PROVE SearchInv'
  <2> DEFINE new == [state |-> state, of |-> check.for]
  <2>1. check.for \in Keys /\ KeyOf(check.for[1], check.for[2]) = check.for
    BY <1>0, <1>2, KeysAre DEF SearchAnswered, Searches
  <2>2. check' = [check EXCEPT !.answers = [check.answers EXCEPT ![check.for] = new]]
    BY <1>2, <2>1 DEF SearchAnswered
  <2>3. new \in SearchAnswers /\ new.of = check.for
    BY <2>1 DEF SearchAnswers
  <2> HIDE DEF new
  <2>4. DOMAIN check.answers \in SUBSET Keys /\ check.answers \in [DOMAIN check.answers -> SearchAnswers]
    BY <1>0, OfAnswerMaps
  <2>5. [check.answers EXCEPT ![check.for] = new] \in [DOMAIN check.answers -> SearchAnswers]
    BY <2>3, <2>4
  <2>6. [check.answers EXCEPT ![check.for] = new] \in AnswerMaps
    BY <2>4, <2>5, InAnswerMaps
  <2>7. /\ check' \in Searches /\ check'.answers = [check.answers EXCEPT ![check.for] = new]
        /\ check'.for = check.for /\ check'.due = check.due
    BY <1>0, <2>2, <2>6 DEF Searches
  <2>8. UNCHANGED <<form, uploads, fills>>
    BY <1>2 DEF SearchAnswered
  <2>9. \A x \in DOMAIN check.answers : check'.answers[x] = IF x = check.for THEN new ELSE check.answers[x]
    BY <2>4, <2>7
  <2> QED BY <2>3, <2>4, <2>5, <2>7, <2>8, <2>9 DEF SearchInv, FormType, SearchFollows
<1>3. CASE DismissWarning
  <2>1. /\ check' \in Searches /\ check'.answers = check.answers /\ check'.for = check.for
        /\ check'.due = check.due
    BY <1>0, <1>3 DEF DismissWarning, Searches
  <2> QED BY <1>3, <2>1 DEF DismissWarning, SearchInv, FormType, SearchFollows
<1>4. ASSUME NEW f \in Forms, Fill(f) PROVE SearchInv'
  BY <1>4, ChangedSearch DEF Fill, SearchInv, FormType
<1>5. ASSUME NEW t \in Texts, Type(t) PROVE SearchInv'
  <2>1. [form EXCEPT !.text = t] \in Forms
    BY <1>0 DEF Forms
  <2> QED BY <1>4, <1>5, <2>1 DEF Type
<1>6. ASSUME NEW q \in Places, TypePlace(q) PROVE SearchInv'
  <2>1. [form EXCEPT !.place = q] \in Forms
    BY <1>0 DEF Forms
  <2> QED BY <1>4, <1>6, <2>1 DEF TypePlace
<1>7. CASE Recategorise
  BY <1>0, <1>4, <1>7 DEF Recategorise
<1>8. ASSUME form' \in Forms, form'.text = form.text, form'.place = form.place, check' = check,
             uploads' \subseteq Files, fills' \in Nat
      PROVE  SearchInv'
  BY <1>8 DEF SearchInv, FormType, SearchFollows
<1>9. ASSUME NEW f \in Files, Attach(f) PROVE SearchInv'
  BY <1>0, <1>8, <1>9 DEF Attach, SearchInv, FormType
<1>10. ASSUME NEW f \in Files, NEW ok \in BOOLEAN, Attached(f, ok) PROVE SearchInv'
  <2>1. /\ [form EXCEPT !.media = f] \in Forms /\ [form EXCEPT !.media = f].text = form.text
        /\ [form EXCEPT !.media = f].place = form.place
    BY <1>0 DEF Forms
  <2> QED BY <1>0, <1>8, <1>10, <2>1 DEF Attached, SearchInv, FormType
<1>11. CASE Detach
  <2>1. /\ [form EXCEPT !.media = None] \in Forms /\ [form EXCEPT !.media = None].text = form.text
        /\ [form EXCEPT !.media = None].place = form.place
    BY <1>0 DEF Forms
  <2> QED BY <1>8, <1>11, <2>1 DEF Detach, SearchInv, FormType
<1>12. CASE RemoveCoords
  <2>1. /\ [form EXCEPT !.coords = FALSE] \in Forms /\ [form EXCEPT !.coords = FALSE].text = form.text
        /\ [form EXCEPT !.coords = FALSE].place = form.place
    BY <1>0 DEF Forms
  <2> QED BY <1>8, <1>12, <2>1 DEF RemoveCoords, SearchInv, FormType
<1>13. ASSUME NEW q \in Fixes \cup {None}, Located(q) PROVE SearchInv'
  <2>1. CASE q = None
    BY <1>0, <1>8, <1>13, <2>1 DEF Located, SearchInv, FormType
  <2>2. CASE q # None
    <3>1. form' \in Forms /\ form'.text = form.text /\ form'.place = q
      BY <1>0, <1>13, <2>2 DEF Located, Forms
    <3>2. UNCHANGED <<uploads, fills>>
      BY <1>13 DEF Located
    <3>3. CASE q = form.place
      BY <1>8, <1>13, <2>2, <3>1, <3>2, <3>3 DEF Located, SearchInv, FormType
    <3>4. CASE q # form.place
      BY <1>13, <2>2, <3>1, <3>2, <3>4, ChangedSearch DEF Located, SearchInv, FormType
    <3> QED BY <3>3, <3>4
  <2> QED BY <2>1, <2>2
<1>14. ASSUME NEW i \in DOMAIN posts, Published(i) PROVE SearchInv'
  <2>1. Blank(fills + 1, form.place) \in Forms
    BY <1>0 DEF Blank, Forms, SearchInv, FormType
  <2> QED BY <1>14, <2>1, ChangedSearch DEF Published, SearchInv, FormType
<1>15. ASSUME UNCHANGED <<form, check, uploads>>, fills' = fills \/ fills' = fills + 1
       PROVE  SearchInv'
  BY <1>0, <1>8, <1>15 DEF SearchInv, FormType
<1>16. CASE Open \/ Cancel \/ SupportInstead \/ Locate \/ Publish
            \/ \E i \in DOMAIN posts, kept \in BOOLEAN : PublishFails(i, kept)
  BY <1>15, <1>16 DEF Open, Cancel, SupportInstead, Locate, Publish, PublishFails
<1>17. CASE OpenAssistant \/ UNCHANGED reportVars
  BY <1>15, <1>17 DEF OpenAssistant, OpenChat, reportVars, formVars
<1>18. CASE AssistantNext
  <2>1. UNCHANGED <<form, check, uploads, fills>>
    BY <1>18
    DEF AssistantNext, formVars, Close, LeaveChat, Restart, SendMessage, Finalize, BackToChat, Submit,
        LocateMe, SessionStarted, AskFails, ChatAnswered, EditDistrict, AddFile, FileAdded, FileGone,
        FoundMe, Submitted
  <2> QED BY <1>15, <2>1
<1>19. CASE FormNext
  BY <1>1, <1>2, <1>3, <1>5, <1>6, <1>7, <1>9, <1>10, <1>11, <1>12, <1>13, <1>14, <1>16, <1>19 DEF FormNext
<1> QED BY <1>17, <1>18, <1>19 DEF ReportNext

(* The warning about similar reports is about the text and place on the       *)
(* screen, for any texts and places and any order of answers:                 *)
(* WarningMatchesText.                                                        *)
THEOREM WarningFollows == ReportSpec => []WarningMatchesText
<1>1. SearchInv => WarningMatchesText
  <2> SUFFICES ASSUME SearchInv, Similar # None, ~check.due
               PROVE  Similar = <<form.text, form.place>>
    BY DEF WarningMatchesText
  <2>1. check.for \in Keys /\ KeyOf(check.for[1], check.for[2]) = check.for
    BY KeysAre DEF Similar, SearchInv, FormType, Searches
  <2> QED BY <2>1 DEF Similar, Current, SearchInv, SearchFollows
<1> QED BY <1>1, SearchStart, SearchNext, PTL DEF ReportSpec
-------------------------------------------------------------------------------
(* The assistant's chat: one answer is awaited at most, the one of the        *)
(* session, and while a session is started there is nothing to mix it with.   *)
ChatType ==
  /\ chat \in [session : Nat, listed : SUBSET Nat, turns : Nat]
  /\ draft \in [of : Nat, complete : BOOLEAN]
  /\ queried \subseteq [kind : {"start", "send", "finalize"}, session : Nat]
  /\ opened \in Nat

ChatState ==
  /\ \A a, b \in queried : a = b
  /\ \A a \in queried :
       IF a.kind = "start" THEN draft = NoDraft /\ chat.listed = {} ELSE a.session = chat.session

ChatInv == ChatType /\ ChatState /\ ThinkingEnds /\ OneConversation

LEMMA ChatStart == ReportInit => ChatInv
BY DEF ReportInit, AssistantInit, ChatInv, ChatType, ChatState, ThinkingEnds, OneConversation,
   NoChat, NoDraft

(* A chat that is left or opened is empty, and so is its draft.               *)
LEMMA ChatReset ==
  ASSUME ChatInv, Reset, opened' = opened,
         \/ queried' = {} /\ ~thinking'
         \/ queried' = {[kind |-> "start", session |-> 0]} /\ thinking'
  PROVE  ChatInv'
<1>1. /\ chat' = [session |-> 0, listed |-> {}, turns |-> 0]
      /\ draft' = [of |-> 0, complete |-> FALSE] /\ draft' = NoDraft
  BY DEF Reset, NoChat, NoDraft
<1>2. ChatType'
  BY <1>1 DEF ChatInv, ChatType
<1>3. ChatState' /\ OneConversation'
  BY <1>1 DEF ChatState, OneConversation
<1> QED BY <1>2, <1>3 DEF ChatInv, ThinkingEnds

(* A request is sent when none is on its way, about the session shown or for  *)
(* a new one.                                                                 *)
LEMMA ChatAsks ==
  ASSUME ChatInv, ~thinking, NEW kind \in {"start", "send", "finalize"}, Ask(kind),
         chat' \in [session : Nat, listed : SUBSET Nat, turns : Nat],
         draft' \in [of : Nat, complete : BOOLEAN], opened' = opened,
         chat'.session = chat.session, chat'.listed \subseteq {chat.session},
         draft'.of \in {0, chat.session},
         kind = "start" => draft' = NoDraft /\ chat'.listed = {}
  PROVE  ChatInv'
<1> DEFINE new == [kind |-> kind, session |-> chat.session]
<1>1. queried' = {new} /\ thinking'
  BY DEF Ask, ChatInv, ThinkingEnds
<1>2. new \in [kind : {"start", "send", "finalize"}, session : Nat] /\ new.kind = kind /\ new.session = chat.session
  BY DEF ChatInv, ChatType
<1> HIDE DEF new
<1>3. ChatType'
  BY <1>1, <1>2 DEF ChatInv, ChatType
<1>4. ChatState' /\ ThinkingEnds' /\ OneConversation'
  BY <1>1, <1>2 DEF ChatState, ThinkingEnds, OneConversation
<1> QED BY <1>3, <1>4 DEF ChatInv

LEMMA ChatNext == ChatInv /\ [ReportNext]_reportVars => ChatInv'
<1> SUFFICES ASSUME ChatInv, [ReportNext]_reportVars PROVE ChatInv'
  OBVIOUS
<1>0. /\ chat \in [session : Nat, listed : SUBSET Nat, turns : Nat]
      /\ draft \in [of : Nat, complete : BOOLEAN] /\ opened \in Nat
      /\ chat.listed \subseteq {chat.session} /\ draft.of \in {0, chat.session}
      /\ NoDraft \in [of : Nat, complete : BOOLEAN] /\ NoDraft.of = 0 /\ ~NoDraft.complete
  BY DEF ChatInv, ChatType, OneConversation, NoDraft
<1>1. CASE Close \/ OpenAssistant \/ \E i \in DOMAIN posts : Submitted(i)
  <2>1. Reset /\ opened' = opened
    BY <1>1 DEF Close, OpenAssistant, Submitted, LeaveChat, OpenChat
  <2>2. \/ queried' = {} /\ ~thinking'
        \/ queried' = {[kind |-> "start", session |-> 0]} /\ thinking'
    BY <1>1 DEF Close, OpenAssistant, Submitted, LeaveChat, OpenChat
  <2> QED BY <2>1, <2>2, ChatReset
<1>2. CASE Restart
  <2>1. ~thinking /\ Ask("start") /\ opened' = opened /\ draft' = NoDraft /\ chat' = [chat EXCEPT !.listed = {}]
    BY <1>2 DEF Restart, Cleared
  <2>2. /\ [chat EXCEPT !.listed = {}] \in [session : Nat, listed : SUBSET Nat, turns : Nat]
        /\ [chat EXCEPT !.listed = {}].session = chat.session /\ [chat EXCEPT !.listed = {}].listed = {}
    BY <1>0
  <2> QED BY <1>0, <2>1, <2>2, ChatAsks
<1>3. CASE SendMessage
  <2> DEFINE now == [chat EXCEPT !.listed = chat.listed \cup {chat.session}]
  <2>1. ~thinking /\ Ask("send") /\ UNCHANGED <<opened, draft>> /\ chat' = now
    BY <1>3 DEF SendMessage
  <2>2. /\ now \in [session : Nat, listed : SUBSET Nat, turns : Nat]
        /\ now.session = chat.session /\ now.listed = chat.listed \cup {chat.session}
    BY <1>0
  <2> HIDE DEF now
  <2> QED BY <1>0, <2>1, <2>2, ChatAsks
<1>4. CASE Finalize
  <2>1. ~thinking /\ Ask("finalize") /\ UNCHANGED <<opened, chat, draft>>
    BY <1>4 DEF Finalize
  <2> QED BY <1>0, <2>1, ChatAsks
<1>5. ASSUME NEW a \in queried, Heard(a) PROVE queried' = {} /\ ~thinking'
  BY <1>5 DEF Heard, ChatInv, ChatState
<1>6. ASSUME NEW a \in queried, SessionStarted(a) PROVE ChatInv'
  <2>1. queried' = {} /\ ~thinking'
    BY <1>5, <1>6 DEF SessionStarted
  <2>2. /\ chat' = [session |-> opened + 1, listed |-> {opened + 1}, turns |-> 0]
        /\ opened' = opened + 1 /\ draft' = draft /\ a.kind = "start"
    BY <1>6 DEF SessionStarted
  <2>3. draft = NoDraft
    BY <2>2 DEF ChatInv, ChatState
  <2>4. ChatType'
    BY <1>0, <2>1, <2>2 DEF ChatType
  <2> QED BY <1>0, <2>1, <2>2, <2>3, <2>4 DEF ChatInv, ChatState, ThinkingEnds, OneConversation
<1>7. ASSUME NEW a \in queried, NEW ready \in BOOLEAN, ChatAnswered(a, ready) PROVE ChatInv'
  <2> DEFINE turns == IF chat.turns < 2 THEN chat.turns + 1 ELSE 2
             now == [chat EXCEPT !.listed = chat.listed \cup {a.session}, !.turns = turns]
  <2>1. queried' = {} /\ ~thinking'
    BY <1>5, <1>7 DEF ChatAnswered
  <2>2. chat' = now /\ opened' = opened /\ a.kind # "start"
    BY <1>7 DEF ChatAnswered
  <2>3. a.session = chat.session
    BY <2>2 DEF ChatInv, ChatState
  <2>4. turns \in Nat
    BY <1>0
  <2> HIDE DEF turns
  <2>5. /\ now \in [session : Nat, listed : SUBSET Nat, turns : Nat]
        /\ now.session = chat.session /\ now.listed = chat.listed \cup {chat.session}
    BY <1>0, <2>3, <2>4
  <2> HIDE DEF now
  <2>6. draft' \in [of : Nat, complete : BOOLEAN] /\ draft'.of \in {0, chat.session}
    <3>1. draft' = draft \/ draft' = [of |-> chat.session, complete |-> TRUE]
      BY <1>7, <2>3 DEF ChatAnswered, Reviewed
    <3>2. chat.session \in Nat
      BY <1>0
    <3>3. CASE draft' = [of |-> chat.session, complete |-> TRUE]
      BY <3>2, <3>3
    <3> QED BY <1>0, <3>1, <3>3
  <2>7. ChatType'
    BY <1>0, <2>1, <2>2, <2>5, <2>6 DEF ChatType
  <2> QED BY <1>0, <2>1, <2>2, <2>5, <2>6, <2>7 DEF ChatInv, ChatState, ThinkingEnds, OneConversation
<1>8. ASSUME NEW a \in queried, AskFails(a) PROVE ChatInv'
  <2>1. queried' = {} /\ ~thinking' /\ UNCHANGED <<chat, draft, opened>>
    BY <1>5, <1>8 DEF AskFails
  <2> QED BY <2>1 DEF ChatInv, ChatType, ChatState, ThinkingEnds, OneConversation
<1>9. CASE BackToChat
  <2>1. /\ [draft EXCEPT !.complete = FALSE] \in [of : Nat, complete : BOOLEAN]
        /\ [draft EXCEPT !.complete = FALSE].of = draft.of
    BY <1>0
  <2>2. UNCHANGED <<opened, chat, queried, thinking>> /\ draft' = [draft EXCEPT !.complete = FALSE] /\ draft.complete
    BY <1>9 DEF BackToChat
  <2>3. draft # NoDraft
    BY <1>0, <2>2
  <2> QED BY <1>0, <2>1, <2>2, <2>3 DEF ChatInv, ChatType, ChatState, ThinkingEnds, OneConversation
<1>10. CASE UNCHANGED <<opened, chat, draft, queried, thinking>>
  BY <1>10 DEF ChatInv, ChatType, ChatState, ThinkingEnds, OneConversation
<1>11. \/ Submit \/ LocateMe \/ (\E d \in Places : EditDistrict(d))
       \/ (\E f \in Evidence : AddFile(f) \/ FileAdded(f) \/ FileGone(f))
       \/ (\E q \in Fixes \cup {None} : FoundMe(q)) \/ (FormNext /\ UNCHANGED assistantVars)
       \/ UNCHANGED reportVars
       => UNCHANGED <<opened, chat, draft, queried, thinking>>
  BY DEF Submit, LocateMe, EditDistrict, AddFile, FileAdded, FileGone, FoundMe, assistantVars,
     chatVars, reportVars
<1> QED BY <1>1, <1>2, <1>3, <1>4, <1>6, <1>7, <1>8, <1>9, <1>10, <1>11 DEF ReportNext, AssistantNext

(* No answer of an earlier session reaches the chat, for any number of        *)
(* sessions and restarts: OneConversation.                                    *)
THEOREM SessionsApart == ReportSpec => []OneConversation
<1>1. ChatInv => OneConversation
  BY DEF ChatInv
<1> QED BY <1>1, ChatStart, ChatNext, PTL DEF ReportSpec

LEMMA ChatThinks == ReportSpec => []ThinkingEnds
<1>1. ChatInv => ThinkingEnds
  BY DEF ChatInv
<1> QED BY <1>1, ChatStart, ChatNext, PTL DEF ReportSpec
-------------------------------------------------------------------------------
(* Publishing: what is filled in has a number, no higher than fills.          *)
Posts == [fill : Nat, text : Texts \cup {None, "drafted"}]

PublishType ==
  /\ form.fill <= fills
  /\ posts \in Seq(Posts) /\ \A i \in DOMAIN posts : posts[i].fill <= fills
  /\ reports \in Seq(Nat) /\ \A i \in DOMAIN reports : reports[i] <= fills

(* One request at most for each; and, unless an answer was lost, nothing on   *)
(* its way or still to be sent is stored already.                             *)
PublishState ==
  /\ \A i, j \in DOMAIN posts : i # j => posts[i].fill # posts[j].fill
  /\ ~dropped => \A i \in DOMAIN reports :
       /\ reports[i] # form.fill
       /\ Here => reports[i] # fills
       /\ \A j \in DOMAIN posts : reports[i] # posts[j].fill

PublishInv == PublishType /\ PublishState /\ PublishedOnce

(* The sequences left when an element is taken out, and when one is added.    *)
LEMMA Removing ==
  ASSUME NEW S, NEW s \in Seq(S), NEW i \in DOMAIN s
  PROVE  /\ RemoveAt(s, i) \in Seq(S)
         /\ \A j \in DOMAIN RemoveAt(s, i) :
              \E x \in DOMAIN s \ {i} : RemoveAt(s, i)[j] = s[x]
         /\ \A j, k \in DOMAIN RemoveAt(s, i) : j # k =>
              \E x, y \in DOMAIN s \ {i} :
                x # y /\ RemoveAt(s, i)[j] = s[x] /\ RemoveAt(s, i)[k] = s[y]
<1> DEFINE r == RemoveAt(s, i)
           before == SubSeq(s, 1, i - 1)
           after == SubSeq(s, i + 1, Len(s))
           skip(j) == IF j < i THEN j ELSE j + 1
<1>1. r = before \o after
  BY DEF RemoveAt
<1>2. i \in 1..Len(s) /\ Len(s) \in Nat
  OBVIOUS
<1>3. before \in Seq(S) /\ Len(before) = i - 1 /\ \A j \in 1..(i - 1) : before[j] = s[j]
  BY <1>2
<1>4. after \in Seq(S) /\ Len(after) = Len(s) - i /\ \A j \in 1..(Len(s) - i) : after[j] = s[i + j]
  BY <1>2
<1> HIDE DEF before, after
<1>5. r \in Seq(S) /\ Len(r) = Len(s) - 1
  BY <1>1, <1>2, <1>3, <1>4
<1>6. ASSUME NEW j \in 1..(Len(s) - 1) PROVE r[j] = s[skip(j)] /\ skip(j) \in DOMAIN s \ {i}
  <2>1. CASE j < i
    BY <1>1, <1>2, <1>3, <1>4, <2>1
  <2>2. CASE ~(j < i)
    <3>1. r[j] = after[j - (i - 1)]
      BY <1>1, <1>2, <1>3, <1>4, <2>2
    <3>2. j - (i - 1) \in 1..(Len(s) - i) /\ i + (j - (i - 1)) = j + 1
      BY <1>2, <2>2
    <3> QED BY <1>2, <1>4, <2>2, <3>1, <3>2
  <2> QED BY <2>1, <2>2
<1>7. DOMAIN r = 1..(Len(s) - 1)
  BY <1>5
<1>8. \A j, k \in 1..(Len(s) - 1) : j # k => skip(j) # skip(k)
  BY <1>2
<1> HIDE DEF r, skip
<1>9. \A j, k \in DOMAIN r : j # k =>
        \E x, y \in DOMAIN s \ {i} : x # y /\ r[j] = s[x] /\ r[k] = s[y]
  BY <1>6, <1>7, <1>8
<1>10. \A j \in DOMAIN r : \E x \in DOMAIN s \ {i} : r[j] = s[x]
  BY <1>6, <1>7
<1> QED BY <1>5, <1>9, <1>10 DEF r

LEMMA Appending ==
  ASSUME NEW S, NEW s \in Seq(S), NEW e \in S
  PROVE  /\ Append(s, e) \in Seq(S)
         /\ \A j \in DOMAIN Append(s, e) :
              IF j \in DOMAIN s THEN Append(s, e)[j] = s[j] ELSE j = Len(s) + 1 /\ Append(s, e)[j] = e
OBVIOUS

LEMMA PublishFacts ==
  ASSUME SearchInv, PublishInv
  PROVE  /\ form \in Forms /\ form.fill \in Nat /\ form.text \in Texts \cup {None}
         /\ fills \in Nat /\ form.fill <= fills
         /\ \A i \in DOMAIN posts : posts[i].fill \in Nat /\ posts[i].fill <= fills
         /\ \A i \in DOMAIN reports : reports[i] \in Nat /\ reports[i] <= fills
<1>1. form \in Forms /\ fills \in Nat
  BY DEF SearchInv, FormType
<1>2. form.fill \in Nat /\ form.text \in Texts \cup {None}
  BY <1>1 DEF Forms
<1>3. ASSUME NEW i \in DOMAIN posts PROVE posts[i].fill \in Nat
  <2>1. posts \in Seq(Posts)
    BY DEF PublishInv, PublishType
  <2>2. posts[i] \in Posts
    BY <2>1
  <2> QED BY <2>2 DEF Posts
<1>4. ASSUME NEW i \in DOMAIN reports PROVE reports[i] \in Nat
  BY DEF PublishInv, PublishType
<1> QED BY <1>1, <1>2, <1>3, <1>4 DEF PublishInv, PublishType

LEMMA PublishStart == ReportInit => PublishInv
<1> SUFFICES ASSUME ReportInit PROVE PublishInv
  OBVIOUS
<1>1. posts = <<>> /\ reports = <<>> /\ form.fill = 1 /\ fills = 1
  BY DEF ReportInit, FormInit, Blank
<1> QED BY <1>1 DEF PublishInv, PublishType, PublishState, PublishedOnce

(* A report of its own number is sent, which is not stored already.           *)
LEMMA PostBegun ==
  ASSUME SearchInv, PublishInv, NEW q \in Posts, posts' = Append(posts, q), q.fill <= fills,
         \A i \in DOMAIN posts : posts[i].fill # q.fill,
         ~dropped => \A i \in DOMAIN reports : reports[i] # q.fill,
         UNCHANGED <<reports, fills, dropped, form, shown>>
  PROVE  PublishInv'
<1>1. /\ posts' \in Seq(Posts)
      /\ \A j \in DOMAIN posts' :
           IF j \in DOMAIN posts THEN posts'[j] = posts[j] ELSE j = Len(posts) + 1 /\ posts'[j] = q
  BY Appending DEF PublishInv, PublishType
<1>2. PublishType'
  BY <1>1 DEF PublishInv, PublishType
<1>3. PublishState'
  BY <1>1 DEF PublishInv, PublishState, Here
<1> QED BY <1>2, <1>3 DEF PublishInv, PublishedOnce

(* A request is over: its report is stored or not.                            *)
LEMMA PostOver ==
  ASSUME SearchInv, PublishInv, NEW i \in DOMAIN posts, posts' = RemoveAt(posts, i),
         reports' = reports \/ reports' = Append(reports, posts[i].fill),
         fills' \in Nat, fills' >= fills, form'.fill \in Nat, form'.fill <= fills',
         dropped => dropped',
         ~dropped' =>
           /\ Here' => Here /\ fills' = fills /\ reports' = reports
           /\ \/ form'.fill > fills
              \/ form'.fill = form.fill /\ (reports' = reports \/ posts[i].fill # form.fill)
  PROVE  PublishInv'
<1>1. /\ fills \in Nat /\ form.fill \in Nat
      /\ \A j \in DOMAIN posts : posts[j].fill \in Nat /\ posts[j].fill <= fills
      /\ \A j \in DOMAIN reports : reports[j] \in Nat /\ reports[j] <= fills
  BY PublishFacts
<1>2. /\ posts' \in Seq(Posts)
      /\ \A j \in DOMAIN posts' : \E x \in DOMAIN posts \ {i} : posts'[j] = posts[x]
      /\ \A j, k \in DOMAIN posts' : j # k =>
           \E x, y \in DOMAIN posts \ {i} : x # y /\ posts'[j] = posts[x] /\ posts'[k] = posts[y]
  BY Removing DEF PublishInv, PublishType
<1>3. /\ reports' \in Seq(Nat)
      /\ \A j \in DOMAIN reports' :
           \/ j \in DOMAIN reports /\ reports'[j] = reports[j]
           \/ reports' # reports /\ j = Len(reports) + 1 /\ reports'[j] = posts[i].fill
  <2>1. reports \in Seq(Nat) /\ posts[i].fill \in Nat
    BY <1>1 DEF PublishInv, PublishType
  <2>2. CASE reports' = reports
    BY <2>1, <2>2
  <2>3. CASE reports' = Append(reports, posts[i].fill)
    <3>1. Append(reports, posts[i].fill) # reports
      BY <2>1
    <3> QED BY <2>1, <2>3, <3>1, Appending
  <2> QED BY <2>2, <2>3
<1>4. PublishType'
  <2>1. \A j \in DOMAIN posts' : posts'[j].fill <= fills'
    <3>1. ASSUME NEW j \in DOMAIN posts' PROVE posts'[j].fill <= fills'
      <4>1. PICK x \in DOMAIN posts \ {i} : posts'[j] = posts[x]
        BY <1>2
      <4> QED BY <1>1, <4>1
    <3> QED BY <3>1
  <2>2. ASSUME NEW j \in DOMAIN reports' PROVE reports'[j] <= fills'
    <3>1. CASE j \in DOMAIN reports /\ reports'[j] = reports[j]
      BY <1>1, <3>1
    <3>2. CASE reports'[j] = posts[i].fill
      BY <1>1, <3>2
    <3> QED BY <1>3, <3>1, <3>2
  <2> QED BY <1>2, <1>3, <2>1, <2>2 DEF PublishType
<1>5. \A j, k \in DOMAIN posts' : j # k => posts'[j].fill # posts'[k].fill
  BY <1>2 DEF PublishInv, PublishState
<1>6. ASSUME ~dropped', NEW j \in DOMAIN reports'
      PROVE  /\ reports'[j] # form'.fill
             /\ Here' => reports'[j] # fills'
             /\ \A k \in DOMAIN posts' : reports'[j] # posts'[k].fill
  <2>1. \A x \in DOMAIN reports :
          /\ reports[x] # form.fill
          /\ Here => reports[x] # fills
          /\ \A k \in DOMAIN posts : reports[x] # posts[k].fill
    BY <1>6 DEF PublishInv, PublishState
  <2>2. ASSUME NEW k \in DOMAIN posts'
        PROVE  \E x \in DOMAIN posts \ {i} : posts'[k] = posts[x] /\ posts[x].fill # posts[i].fill
    BY <1>2 DEF PublishInv, PublishState
  <2>3. CASE j \in DOMAIN reports /\ reports'[j] = reports[j]
    <3>1. reports'[j] # form'.fill
      BY <1>1, <1>6, <2>1, <2>3
    <3>2. Here' => reports'[j] # fills'
      BY <1>6, <2>1, <2>3
    <3>3. \A k \in DOMAIN posts' : reports'[j] # posts'[k].fill
      BY <2>1, <2>2, <2>3
    <3> QED BY <3>1, <3>2, <3>3
  <2>4. CASE reports' # reports /\ reports'[j] = posts[i].fill
    <3>1. reports'[j] # form'.fill /\ ~Here'
      BY <1>1, <1>6, <2>4
    <3>2. \A k \in DOMAIN posts' : reports'[j] # posts'[k].fill
      BY <2>2, <2>4
    <3> QED BY <3>1, <3>2
  <2> QED BY <1>3, <2>3, <2>4
<1>7. PublishedOnce'
  <2> SUFFICES ASSUME ~dropped', NEW j \in DOMAIN reports', NEW k \in DOMAIN reports', j # k
               PROVE  reports'[j] # reports'[k]
    BY DEF PublishedOnce
  <2>1. \A x \in DOMAIN reports : reports[x] # posts[i].fill
    BY DEF PublishInv, PublishState
  <2>2. \A x, y \in DOMAIN reports : x # y => reports[x] # reports[y]
    BY DEF PublishInv, PublishedOnce
  <2> QED BY <1>3, <2>1, <2>2
<1> QED BY <1>4, <1>5, <1>6, <1>7 DEF PublishInv, PublishState

(* The steps that send no report and hear of none.                            *)
ReportStill ==
  /\ UNCHANGED <<posts, reports, dropped>> /\ form'.fill = form.fill
  /\ \/ shown' \in {shown, "form", "closed"} /\ fills' = fills
     \/ shown' = "assistant" /\ fills' = fills + 1

LEMMA ReportSteps ==
  ASSUME SearchInv, [ReportNext]_reportVars
  PROVE  \/ Publish \/ Submit \/ ReportStill
         \/ \E i \in DOMAIN posts :
              Published(i) \/ Submitted(i) \/ \E kept \in BOOLEAN : PublishFails(i, kept)
<1>0. form \in Forms
  BY DEF SearchInv, FormType
<1>1. ASSUME FormNext,
             ~(Publish \/ \E i \in DOMAIN posts :
                 Published(i) \/ \E kept \in BOOLEAN : PublishFails(i, kept))
      PROVE  ReportStill
  <2>1. ASSUME NEW f \in Forms, f.fill = form.fill, Fill(f) PROVE ReportStill
    BY <2>1 DEF Fill, ReportStill
  <2>2. CASE Open \/ Cancel \/ SupportInstead
    BY <2>2 DEF Open, Cancel, SupportInstead, ReportStill
  <2>3. CASE Elapse \/ DismissWarning \/ Locate \/ (\E state \in {"found", "nothing"} : SearchAnswered(state))
             \/ \E f \in Files : Attach(f)
    BY <2>3 DEF Elapse, DismissWarning, Locate, SearchAnswered, Attach, ReportStill
  <2>4. ASSUME NEW t \in Texts, Type(t) PROVE ReportStill
    <3>1. [form EXCEPT !.text = t] \in Forms /\ [form EXCEPT !.text = t].fill = form.fill
      BY <1>0 DEF Forms
    <3> QED BY <2>1, <2>4, <3>1 DEF Type
  <2>5. ASSUME NEW q \in Places, TypePlace(q) PROVE ReportStill
    <3>1. [form EXCEPT !.place = q] \in Forms /\ [form EXCEPT !.place = q].fill = form.fill
      BY <1>0 DEF Forms
    <3> QED BY <2>1, <2>5, <3>1 DEF TypePlace
  <2>6. CASE Recategorise
    BY <1>0, <2>1, <2>6 DEF Recategorise
  <2>7. CASE Detach \/ RemoveCoords \/ (\E f \in Files, ok \in BOOLEAN : Attached(f, ok))
             \/ \E q \in Fixes \cup {None} : Located(q)
    <3>1. form'.fill = form.fill
      BY <1>0, <2>7 DEF Detach, RemoveCoords, Attached, Located, Forms
    <3> QED BY <2>7, <3>1 DEF Detach, RemoveCoords, Attached, Located, ReportStill
  <2> QED BY <1>1, <2>2, <2>3, <2>4, <2>5, <2>6, <2>7 DEF FormNext
<1>2. CASE AssistantNext
  <2>1. CASE Close
    BY <2>1 DEF Close, LeaveChat, ReportStill
  <2>2. AssistantNext /\ ~Close /\ ~Submit /\ ~(\E i \in DOMAIN posts : Submitted(i)) => UNCHANGED formVars
    BY DEF AssistantNext, Restart, SendMessage, Finalize, BackToChat, LocateMe, SessionStarted, AskFails,
       ChatAnswered, EditDistrict, AddFile, FileAdded, FileGone, FoundMe
  <2> QED BY <1>2, <2>1, <2>2 DEF formVars, ReportStill
<1>3. CASE OpenAssistant
  BY <1>3 DEF OpenAssistant, OpenChat, ReportStill
<1>4. CASE UNCHANGED reportVars
  BY <1>4 DEF reportVars, formVars, ReportStill
<1> QED BY <1>1, <1>2, <1>3, <1>4 DEF ReportNext

LEMMA PublishNext == SearchInv /\ PublishInv /\ [ReportNext]_reportVars => PublishInv'
<1> SUFFICES ASSUME SearchInv, PublishInv, [ReportNext]_reportVars PROVE PublishInv'
  OBVIOUS
<1>0. /\ form \in Forms /\ form.fill \in Nat /\ form.text \in Texts \cup {None} /\ fills \in Nat
      /\ form.fill <= fills
      /\ \A i \in DOMAIN posts : posts[i].fill \in Nat /\ posts[i].fill <= fills
  BY PublishFacts
<1>1. CASE Publish
  <2>1. Report \in Posts /\ Report.fill = form.fill
    BY <1>0 DEF Report, Posts
  <2>2. ~dropped => \A i \in DOMAIN reports : reports[i] # form.fill
    BY DEF PublishInv, PublishState
  <2>3. UNCHANGED <<reports, fills, dropped, form, shown>> /\ posts' = Append(posts, Report) /\ ~Posting
    BY <1>1 DEF Publish
  <2> QED BY <1>0, <2>1, <2>2, <2>3, PostBegun DEF Posting
<1>2. CASE Submit
  <2>1. Drafted \in Posts /\ Drafted.fill = fills
    BY <1>0 DEF Drafted, Posts
  <2>2. ~dropped => \A i \in DOMAIN reports : reports[i] # fills
    BY <1>2 DEF Submit, PublishInv, PublishState
  <2>3. /\ UNCHANGED <<reports, fills, dropped, form, shown>> /\ posts' = Append(posts, Drafted)
        /\ \A i \in DOMAIN posts : posts[i].fill # fills
    BY <1>2 DEF Submit
  <2> QED BY <1>0, <2>1, <2>2, <2>3, PostBegun
<1>3. CASE ReportStill
  <2>1. \A i \in DOMAIN reports : reports[i] \in Nat /\ reports[i] <= fills
    BY PublishFacts
  <2>2. Here' => (Here /\ fills' = fills) \/ fills' = fills + 1
    BY <1>3 DEF ReportStill, Here
  <2>3. fills' = fills \/ fills' = fills + 1
    BY <1>3 DEF ReportStill
  <2>4. PublishType'
    BY <1>0, <1>3, <2>1, <2>3 DEF ReportStill, PublishInv, PublishType
  <2>5. PublishState'
    BY <1>0, <1>3, <2>1, <2>2 DEF ReportStill, PublishInv, PublishState
  <2>6. PublishedOnce'
    BY <1>3 DEF ReportStill, PublishInv, PublishedOnce
  <2> QED BY <2>4, <2>5, <2>6 DEF PublishInv
<1>4. ASSUME NEW i \in DOMAIN posts, Published(i) PROVE PublishInv'
  <2>1. /\ posts' = RemoveAt(posts, i) /\ reports' = Append(reports, posts[i].fill)
        /\ fills' = fills + 1 /\ ~Here' /\ dropped' = dropped /\ form' = Blank(fills + 1, form.place)
    BY <1>4 DEF Published, Here
  <2>2. form'.fill = fills + 1
    BY <2>1 DEF Blank
  <2> QED BY <1>0, <2>1, <2>2, PostOver
<1>5. ASSUME NEW i \in DOMAIN posts, Submitted(i) PROVE PublishInv'
  <2>1. /\ posts' = RemoveAt(posts, i) /\ reports' = Append(reports, posts[i].fill)
        /\ UNCHANGED <<fills, form, dropped>> /\ ~Here' /\ posts[i].fill # form.fill
    BY <1>5 DEF Submitted, LeaveChat, Here
  <2> QED BY <1>0, <2>1, PostOver
<1>6. ASSUME NEW i \in DOMAIN posts, NEW kept \in BOOLEAN, PublishFails(i, kept) PROVE PublishInv'
  <2>1. /\ posts' = RemoveAt(posts, i) /\ UNCHANGED <<fills, form, shown>>
        /\ dropped' = (dropped \/ kept)
        /\ IF kept THEN reports' = Append(reports, posts[i].fill) ELSE reports' = reports
    BY <1>6 DEF PublishFails
  <2>2. Here' = Here
    BY <2>1 DEF Here
  <2>3. CASE kept
    <3>1. dropped' /\ reports' = Append(reports, posts[i].fill)
      BY <2>1, <2>3
    <3> QED BY <1>0, <2>1, <3>1, PostOver
  <2>4. CASE ~kept
    <3>1. (dropped => dropped') /\ reports' = reports
      BY <2>1, <2>4
    <3> QED BY <1>0, <2>1, <2>2, <3>1, PostOver
  <2> QED BY <2>3, <2>4
<1> QED BY <1>1, <1>2, <1>3, <1>4, <1>5, <1>6, ReportSteps

(* What is filled in once is stored once, for any number of reports, in the   *)
(* form and with the assistant: PublishedOnce.                                *)
THEOREM StoredOnce == ReportSpec => []PublishedOnce
<1>1. PublishInv => PublishedOnce
  BY DEF PublishInv
<1>2. (SearchInv /\ PublishInv) /\ [ReportNext]_reportVars => (SearchInv /\ PublishInv)'
  BY SearchNext, PublishNext
<1> QED BY <1>1, <1>2, SearchStart, PublishStart, PTL DEF ReportSpec
-------------------------------------------------------------------------------
(* The workspace of a pod: the rows the lead's mutations and others change.   *)
Verdicts == {"approved", "changes_requested", "rejected"}

PodRow ==
  [status : StartStages \cup {"review", "in_progress", "pilot", "completed", "rejected"},
   updates : Nat, members : Nat, verdicts : Seq(Verdicts)]

RowTypes ==
  /\ pod \in PodRow
  /\ offer \in [Offers -> {"pending", "approved", "rejected", "withdrawn"}]

(* The queries of the page and the requests of its mutations.                 *)
QueryNames == {"pod", "offers", "impact"}
PageQueries == QueriesOf(WorkspaceAnswers)

QueriesTyped(c) ==
  /\ c \in [QueryNames -> PageQueries]
  /\ \A k \in QueryNames : Answered(c[k]) => c[k].seen \in WorkspaceAnswers

Wants(m) ==
  {w \in {Nil} \cup Milestones \cup (Offers \X {"approved", "rejected"})
          \cup [text : Impacts, edits : BOOLEAN] :
     /\ m = "answer" => w \in Offers \X {"approved", "rejected"}
     /\ m = "impact" => w \in [text : Impacts, edits : BOOLEAN]}

Sendings(m) ==
  [stage : {"sent", "checked", "stored"}, what : Wants(m), answer : {NoData} \cup PodSays]

(* A request is sent from a page that shows the pod, the answer to an offer   *)
(* from one that shows the offers; neither goes away.                         *)
RequestsTyped ==
  /\ requests = [m \in Mutations |-> requests[m]]
  /\ \A m \in Mutations : requests[m] # Idle =>
       /\ requests[m] \in Sendings(m)
       /\ queries["pod"].data # NoData
  /\ requests["answer"] # Idle => queries["offers"].data # NoData
  /\ At("submit", "checked") \/ Answers("submit") => requests["submit"].answer \in PodSays

WorkspaceTypes ==
  /\ RowTypes
  /\ impact \in Impacts \cup {Nil}
  /\ QueriesTyped(queries)
  /\ milestone \in [open : BOOLEAN, text : Milestones \cup {Nil}]
  /\ RequestsTyped

LEMMA EnablingIs ==
  ASSUME NEW old, NEW new, QueriesTyped(new), NEW young, NEW k \in QueryNames
  PROVE  LET q == Enabling(old, new, young)[k] IN
         /\ q \in PageQueries /\ (Answered(q) => q.seen \in WorkspaceAnswers)
         /\ new[k].data # NoData => q.data # NoData
         /\ q = new[k] \/ (new[k].fetch = "idle" /\ Asked(q) /\ ~Enabled(k, old["pod"].data))
<1> DEFINE e == Enabling(old, new, young)
           r == Refetch(new[k])
<1>1. DOMAIN new = QueryNames
  BY DEF QueriesTyped
<1>2. new[k] \in QueriesOf(WorkspaceAnswers) /\ (Answered(new[k]) => new[k].seen \in WorkspaceAnswers)
  BY DEF QueriesTyped, PageQueries
<1>3. /\ r \in PageQueries /\ (Answered(r) => r.seen \in WorkspaceAnswers) /\ r.data = new[k].data
  BY <1>2, Refetched DEF PageQueries
<1>4. new[k].fetch = "idle" => Asked(r)
  BY <1>2 DEF Refetch, Asked, QueriesOf
<1>5. e[k] = new[k] \/ (e[k] = r /\ new[k].fetch = "idle" /\ ~Enabled(k, old["pod"].data))
  BY <1>1 DEF Enabling
<1> HIDE DEF e, r
<1>6. /\ e[k] \in PageQueries /\ (Answered(e[k]) => e[k].seen \in WorkspaceAnswers)
      /\ new[k].data # NoData => e[k].data # NoData
      /\ e[k] = new[k] \/ (new[k].fetch = "idle" /\ Asked(e[k]) /\ ~Enabled(k, old["pod"].data))
  BY <1>2, <1>3, <1>4, <1>5 DEF PageQueries
<1> QED BY <1>6 DEF e

LEMMA EnablingTyped ==
  ASSUME NEW old, NEW new, QueriesTyped(new), NEW young
  PROVE  QueriesTyped(Enabling(old, new, young))
<1> DEFINE e == Enabling(old, new, young)
<1>1. e = [k \in QueryNames |-> e[k]]
  BY DEF Enabling, QueriesTyped
<1>2. ASSUME NEW k \in QueryNames
      PROVE  e[k] \in PageQueries /\ (Answered(e[k]) => e[k].seen \in WorkspaceAnswers)
  BY EnablingIs
<1> HIDE DEF e
<1> QED BY <1>1, <1>2 DEF QueriesTyped, e

LEMMA InvalidatedIs ==
  ASSUME QueriesTyped(queries), NEW keys
  PROVE  /\ QueriesTyped(Invalidated(keys))
         /\ \A k \in QueryNames :
              /\ Invalidated(keys)[k].data = queries[k].data
              /\ Invalidated(keys)[k] = queries[k] \/ Asked(Invalidated(keys)[k])
              /\ k \notin keys => Invalidated(keys)[k] = queries[k]
              /\ k \in keys /\ Enabled(k, queries["pod"].data) /\ queries[k].data # NoData
                 => Asked(Invalidated(keys)[k])
              /\ k \in keys /\ Enabled(k, queries["pod"].data) /\ queries[k].fetch = "idle"
                 => Asked(Invalidated(keys)[k])
<1> DEFINE e == Invalidated(keys)
<1>1. DOMAIN queries = QueryNames
  BY DEF QueriesTyped
<1>2. ASSUME NEW k \in QueryNames
      PROVE  /\ e[k] \in PageQueries
             /\ Answered(e[k]) => e[k].seen \in WorkspaceAnswers
             /\ e[k].data = queries[k].data
             /\ e[k] = queries[k] \/ Asked(e[k])
             /\ k \notin keys => e[k] = queries[k]
             /\ k \in keys /\ Enabled(k, queries["pod"].data) /\ queries[k].data # NoData => Asked(e[k])
             /\ k \in keys /\ Enabled(k, queries["pod"].data) /\ queries[k].fetch = "idle" => Asked(e[k])
  <2>1. /\ queries[k] \in QueriesOf(WorkspaceAnswers)
        /\ Answered(queries[k]) => queries[k].seen \in WorkspaceAnswers
    BY DEF QueriesTyped, PageQueries
  <2> DEFINE r == Refetch(queries[k])
  <2>2. /\ r \in PageQueries /\ (Answered(r) => r.seen \in WorkspaceAnswers)
        /\ r.data = queries[k].data /\ (r = queries[k] \/ Asked(r))
        /\ queries[k].data # NoData => Asked(r)
    BY <2>1, Refetched DEF PageQueries
  <2>3. queries[k].fetch = "idle" => Asked(r)
    BY <2>1 DEF Refetch, Asked, QueriesOf
  <2>4. e[k] = IF k \in keys /\ Enabled(k, queries["pod"].data) THEN r ELSE queries[k]
    BY <1>1 DEF Invalidated, RefetchAll
  <2> HIDE DEF e, r
  <2> QED BY <2>1, <2>2, <2>3, <2>4 DEF PageQueries
<1>3. e = [k \in QueryNames |-> e[k]]
  BY <1>1 DEF Invalidated, RefetchAll
<1> HIDE DEF e
<1>4. e \in [QueryNames -> PageQueries]
  BY <1>2, <1>3
<1> QED BY <1>2, <1>4 DEF QueriesTyped, e

LEMMA PodAnswersAre ==
  ASSUME RowTypes
  PROVE  /\ PodAnswers # {}
         /\ \A a \in PodAnswers :
              /\ a \in PodSays /\ a \in WorkspaceAnswers /\ a # NoData
              /\ a.updates = pod.updates /\ a.members = pod.members /\ a.status = pod.status
<1> DEFINE V == IF pod.verdicts = <<>> THEN {Nil} ELSE ToSet(pod.verdicts)
           says(v) == [status |-> pod.status, first |-> v, reviews |-> Len(pod.verdicts),
                       updates |-> pod.updates, members |-> pod.members]
<1>1. PodAnswers = {says(v) : v \in V}
  BY DEF PodAnswers
<1>2. pod.verdicts \in Seq(Verdicts) /\ Len(pod.verdicts) \in Nat
  BY DEF RowTypes, PodRow
<1>3. V # {} /\ V \subseteq {Nil} \cup Verdicts
  <2>1. CASE pod.verdicts = <<>>
    BY <2>1
  <2>2. CASE pod.verdicts # <<>>
    <3>1. ToSet(pod.verdicts) = {pod.verdicts[i] : i \in DOMAIN pod.verdicts}
      BY DEF ToSet
    <3>2. 1 \in DOMAIN pod.verdicts /\ \A i \in DOMAIN pod.verdicts : pod.verdicts[i] \in Verdicts
      BY <1>2, <2>2
    <3> QED BY <2>2, <3>1, <3>2
  <2> QED BY <2>1, <2>2
<1>4. ASSUME NEW v \in V PROVE says(v) \in PodSays
  <2> DEFINE n == Len(pod.verdicts)
  <2>1. n \in Nat /\ v \in {Nil} \cup Verdicts
    BY <1>2, <1>3
  <2> HIDE DEF n, V
  <2>2. [status |-> pod.status, first |-> v, reviews |-> n, updates |-> pod.updates,
         members |-> pod.members] \in PodSays
    BY <2>1 DEF RowTypes, PodRow, PodSays, Verdicts
  <2> QED BY <2>2 DEF n
<1> HIDE DEF V
<1>5. PodSays \subseteq WorkspaceAnswers /\ NoData \notin WorkspaceAnswers
  BY WorkspaceAssumption DEF WorkspaceAnswers
<1>6. PodAnswers # {}
  BY <1>1, <1>3
<1>7. ASSUME NEW a \in PodAnswers
      PROVE  a \in PodSays /\ a.updates = pod.updates /\ a.members = pod.members /\ a.status = pod.status
  BY <1>1, <1>4
<1> QED BY <1>5, <1>6, <1>7

LEMMA OfferAnswerIs ==
  ASSUME RowTypes PROVE OfferAnswer \in WorkspaceAnswers /\ OfferAnswer # NoData
<1>1. OfferAnswer \in [{o \in Offers : offer[o] # "withdrawn"} -> {"pending", "approved", "rejected"}]
  BY DEF OfferAnswer, RowTypes
<1>2. OfferAnswer \in OffersSay
  BY <1>1 DEF OffersSay
<1> QED BY <1>2, WorkspaceAssumption DEF WorkspaceAnswers

LEMMA OneQuery ==
  ASSUME QueriesTyped(queries), NEW k \in QueryNames, NEW q \in PageQueries,
         Answered(q) => q.seen \in WorkspaceAnswers,
         queries[k].data # NoData => q.data # NoData,
         queries' = [queries EXCEPT ![k] = q]
  PROVE  /\ QueriesTyped(queries')
         /\ \A j \in QueryNames : queries[j].data # NoData => queries'[j].data # NoData
BY DEF QueriesTyped

LEMMA QueryMoves ==
  ASSUME NEW q \in PageQueries
  PROVE  /\ \A a \in WorkspaceAnswers :
              /\ Reads(q, a) \in PageQueries /\ Reads(q, a).data = q.data
              /\ Reads(q, a).seen = a /\ Reads(q, a).fetch = "read"
         /\ q.seen \in WorkspaceAnswers => /\ Shows(q) \in PageQueries /\ Shows(q).data = q.seen
                                           /\ Shows(q).data # NoData /\ Shows(q).fetch = "idle"
         /\ Misses(q) \in PageQueries /\ Misses(q).data = q.data
         /\ Misses(q).fetch = "idle" /\ Misses(q).failed
<1>1. NoData \notin WorkspaceAnswers
  BY WorkspaceAssumption
<1> QED BY <1>1 DEF PageQueries, QueriesOf, Reads, Shows, Misses

LEMMA QueriesStep ==
  ASSUME WorkspaceTypes, [WorkspaceNext]_workspaceVars
  PROVE  /\ QueriesTyped(queries')
         /\ \A k \in QueryNames : queries[k].data # NoData => queries'[k].data # NoData
<1> DEFINE Goal ==
      /\ QueriesTyped(queries')
      /\ \A k \in QueryNames : queries[k].data # NoData => queries'[k].data # NoData
<1>0. /\ QueriesTyped(queries) /\ RowTypes /\ RequestsTyped /\ DOMAIN queries = QueryNames
      /\ impact \in WorkspaceAnswers
  BY DEF WorkspaceTypes, QueriesTyped, WorkspaceAnswers
<1>1. ASSUME NEW k \in QueryNames
      PROVE  queries[k] \in PageQueries /\ (Answered(queries[k]) => queries[k].seen \in WorkspaceAnswers)
  BY <1>0 DEF QueriesTyped
<1>2. ASSUME NEW k \in QueryNames, NEW a \in WorkspaceAnswers, queries' = [queries EXCEPT ![k] = Reads(@, a)]
      PROVE  Goal
  <2> DEFINE q == Reads(queries[k], a)
  <2>1. q \in PageQueries /\ q.data = queries[k].data /\ q.seen = a
    BY <1>1, QueryMoves
  <2>2. queries' = [queries EXCEPT ![k] = q]
    BY <1>2
  <2> HIDE DEF q
  <2> QED BY <1>0, <2>1, <2>2, OneQuery
<1>3. ASSUME NEW k \in QueryNames, queries' = [queries EXCEPT ![k] = Misses(@)] PROVE Goal
  <2> DEFINE q == Misses(queries[k])
  <2>1. q \in PageQueries /\ q.data = queries[k].data /\ ~Answered(q)
    BY <1>1, QueryMoves DEF Answered
  <2>2. queries' = [queries EXCEPT ![k] = q]
    BY <1>3
  <2> HIDE DEF q
  <2> QED BY <1>0, <2>1, <2>2, OneQuery
<1>4. ASSUME NEW k \in QueryNames, Answered(queries[k])
      PROVE  LET c == [queries EXCEPT ![k] = Shows(@)]
             IN  /\ QueriesTyped(c) /\ c[k].data # NoData
                 /\ \A j \in QueryNames : queries[j].data # NoData => c[j].data # NoData
  <2> DEFINE q == Shows(queries[k])
             c == [queries EXCEPT ![k] = q]
  <2>1. q \in PageQueries /\ q.data # NoData /\ ~Answered(q)
    BY <1>1, <1>4, QueryMoves DEF Answered
  <2> HIDE DEF q
  <2>2. QueriesTyped(c) /\ c[k].data # NoData
        /\ \A j \in QueryNames : queries[j].data # NoData => c[j].data # NoData
    BY <1>0, <2>1 DEF QueriesTyped
  <2> QED BY <2>2 DEF q
<1>5. CASE AskPod
  <2>1. PICK a \in PodAnswers : queries' = [queries EXCEPT !["pod"] = Reads(@, a)]
    BY <1>5 DEF AskPod
  <2> QED BY <1>0, <1>2, <2>1, PodAnswersAre DEF QueryNames
<1>6. CASE ShowPod
  <2> DEFINE c == [queries EXCEPT !["pod"] = Shows(@)]
  <2>4. "pod" \in QueryNames /\ Answered(queries["pod"])
    BY <1>6 DEF ShowPod, QueryNames
  <2>1. QueriesTyped(c) /\ \A j \in QueryNames : queries[j].data # NoData => c[j].data # NoData
    BY <1>4, <2>4
  <2>2. PICK young \in BOOLEAN : queries' = Enabling(queries, c, young)
    BY <1>6 DEF ShowPod
  <2> HIDE DEF c
  <2>3. QueriesTyped(queries') /\ \A k \in QueryNames : c[k].data # NoData => queries'[k].data # NoData
    <3> DEFINE e == Enabling(queries, c, young)
    <3>3. QueriesTyped(e)
      BY <2>1, EnablingTyped
    <3>4. ASSUME NEW k \in QueryNames PROVE c[k].data # NoData => e[k].data # NoData
      BY <2>1, EnablingIs
    <3>2. queries' = e
      BY <2>2
    <3> HIDE DEF e
    <3> QED BY <3>2, <3>3, <3>4
  <2> QED BY <2>1, <2>3
<1>7. CASE FetchOffers
  <2>1. CASE queries' = [queries EXCEPT !["offers"] = Reads(@, OfferAnswer)]
    BY <1>0, <1>2, <2>1, OfferAnswerIs DEF QueryNames
  <2>2. CASE Answered(queries["offers"]) /\ queries' = [queries EXCEPT !["offers"] = Shows(@)]
    BY <1>4, <2>2 DEF QueryNames
  <2> QED BY <1>7, <2>1, <2>2 DEF FetchOffers
<1>8. CASE FetchImpact
  <2>1. CASE queries' = [queries EXCEPT !["impact"] = Reads(@, impact)]
    BY <1>0, <1>2, <2>1 DEF QueryNames
  <2>2. CASE Answered(queries["impact"]) /\ queries' = [queries EXCEPT !["impact"] = Shows(@)]
    BY <1>4, <2>2 DEF QueryNames
  <2>3. CASE queries' = [queries EXCEPT !["impact"] = Misses(@)]
    BY <1>3, <2>3 DEF QueryNames
  <2> QED BY <1>8, <2>1, <2>2, <2>3 DEF FetchImpact
<1>9. CASE \E k \in DOMAIN queries : FetchLost(k)
  BY <1>0, <1>3, <1>9 DEF FetchLost
<1>10. ASSUME NEW keys, queries' = Invalidated(keys) PROVE Goal
  BY <1>0, <1>10, InvalidatedIs
<1>11. CASE SubmissionShown
  <2> DEFINE d == requests["submit"].answer
             c == SetData(queries, {"pod"}, d)
  <2>1. d \in PodSays
    BY <1>0, <1>11 DEF SubmissionShown, RequestsTyped
  <2>2. PICK young \in BOOLEAN : queries' = Enabling(queries, c, young)
    BY <1>11 DEF SubmissionShown
  <2>8. d \in WorkspaceAnswers /\ d # NoData
    BY <2>1, WorkspaceAssumption DEF WorkspaceAnswers
  <2> HIDE DEF d
  <2>3. ASSUME NEW k \in QueryNames
        PROVE  /\ c[k] \in PageQueries /\ (Answered(c[k]) => c[k].seen \in WorkspaceAnswers)
               /\ queries[k].data # NoData => c[k].data # NoData
    BY <1>0, <1>1, <2>8 DEF SetData, PageQueries, QueriesOf, Answered
  <2>4. c = [k \in QueryNames |-> c[k]]
    BY <1>0 DEF SetData
  <2> HIDE DEF c
  <2>5. c \in [QueryNames -> PageQueries]
    BY <2>3, <2>4
  <2>6. QueriesTyped(c)
    BY <2>3, <2>5 DEF QueriesTyped
  <2>7. QueriesTyped(queries') /\ \A k \in QueryNames : c[k].data # NoData => queries'[k].data # NoData
    <3> DEFINE e == Enabling(queries, c, young)
    <3>3. QueriesTyped(e)
      BY <2>6, EnablingTyped
    <3>4. ASSUME NEW k \in QueryNames PROVE c[k].data # NoData => e[k].data # NoData
      BY <2>6, EnablingIs
    <3>2. queries' = e
      BY <2>2
    <3> HIDE DEF e
    <3> QED BY <3>2, <3>3, <3>4
  <2> QED BY <2>3, <2>7
<1>12. CASE UNCHANGED queries
  BY <1>0, <1>12
<1>13. \/ AskPod \/ ShowPod \/ FetchOffers \/ FetchImpact \/ (\E k \in DOMAIN queries : FetchLost(k))
       \/ (\E keys \in SUBSET QueryNames : queries' = Invalidated(keys))
       \/ SubmissionShown \/ UNCHANGED queries
  BY DEF WorkspaceNext, workspaceVars, OpenMilestone, WriteMilestone, CancelMilestone, PublishUpdate,
     SubmitForReview, Resubmit, AddMember, RespondToOffer, SubmitImpact, Send, CheckSubmission,
     CheckAnswer, CheckImpact, Checks, Moves, StoreSubmission, StoreUpdate, StoreMember, StoreAnswer,
     StoreImpact, Stores, Updated, MemberAdded, OfferAnswered,
     ImpactSaved, RequestFails, ReviewedElsewhere, CompletedElsewhere, WithdrawnElsewhere, Elsewhere,
     QueryNames
<1> QED BY <1>5, <1>6, <1>7, <1>8, <1>9, <1>10, <1>11, <1>12, <1>13

LEMMA OneRequest ==
  ASSUME RequestsTyped, NEW m \in Mutations, NEW r \in {Idle} \cup Sendings(m),
         requests' = [requests EXCEPT ![m] = r],
         \A k \in QueryNames : queries[k].data # NoData => queries'[k].data # NoData,
         r # Idle => /\ queries["pod"].data # NoData
                     /\ m = "answer" => queries["offers"].data # NoData
                     /\ m = "submit" /\ r.stage # "sent" => r.answer \in PodSays
  PROVE  RequestsTyped'
<1>1. requests' = [n \in Mutations |-> requests'[n]] /\ requests'[m] = r
      /\ \A n \in Mutations \ {m} : requests'[n] = requests[n]
  BY DEF RequestsTyped
<1>2. "pod" \in QueryNames /\ "offers" \in QueryNames /\ "answer" \in Mutations /\ "submit" \in Mutations
  BY DEF QueryNames, Mutations
<1>3. ASSUME NEW n \in Mutations, requests'[n] # Idle
      PROVE  requests'[n] \in Sendings(n) /\ queries'["pod"].data # NoData
  BY <1>1, <1>2, <1>3 DEF RequestsTyped
<1>4. requests'["answer"] # Idle => queries'["offers"].data # NoData
  BY <1>1, <1>2 DEF RequestsTyped
<1>5. At("submit", "checked")' \/ Answers("submit")' => requests'["submit"].answer \in PodSays
  BY <1>1, <1>2 DEF RequestsTyped, Answers, At
<1> QED BY <1>1, <1>3, <1>4, <1>5 DEF RequestsTyped

LEMMA SentRequest ==
  ASSUME RequestsTyped, UNCHANGED queries, NEW m \in Mutations, NEW w \in Wants(m), Send(m, w),
         m = "answer" => queries["offers"].data # NoData
  PROVE  RequestsTyped'
<1> DEFINE r == [stage |-> "sent", what |-> w, answer |-> NoData]
<1>1. r \in Sendings(m) /\ r.stage = "sent"
  BY DEF Sendings
<1>2. requests' = [requests EXCEPT ![m] = r] /\ queries["pod"].data # NoData
  BY DEF Send, PageUp
<1> HIDE DEF r
<1> QED BY <1>1, <1>2, OneRequest

LEMMA MovedRequest ==
  ASSUME RequestsTyped, NEW m \in Mutations, requests[m] # Idle, NEW stage \in {"checked", "stored"},
         NEW a \in {NoData} \cup PodSays, Moves(m, stage, a), m = "submit" => a \in PodSays
  PROVE  RequestsTyped'
<1> DEFINE r == [requests[m] EXCEPT !.stage = stage, !.answer = a]
<1>1. requests[m] # Idle /\ requests[m] \in Sendings(m)
  BY DEF RequestsTyped
<1>2. r \in Sendings(m) /\ r.answer = a
  BY <1>1 DEF Sendings
<1>3. requests' = [requests EXCEPT ![m] = r] /\ UNCHANGED queries
  BY DEF Moves
<1>4. queries["pod"].data # NoData /\ (m = "answer" => queries["offers"].data # NoData)
  BY <1>1 DEF RequestsTyped
<1> HIDE DEF r
<1> QED BY <1>2, <1>3, <1>4, OneRequest

LEMMA WantsAre ==
  /\ \A m \in {"submit", "update", "member"} : Nil \in Wants(m)
  /\ Milestones \subseteq Wants("update")
  /\ \A o \in Offers, d \in {"approved", "rejected"} : <<o, d>> \in Wants("answer")
  /\ \A t \in Impacts, b \in BOOLEAN : [text |-> t, edits |-> b] \in Wants("impact")
BY DEF Wants

LEMMA RequestsStep ==
  ASSUME WorkspaceTypes, [WorkspaceNext]_workspaceVars PROVE RequestsTyped'
<1>0. RequestsTyped /\ RowTypes /\ Mutations = {"submit", "update", "member", "answer", "impact"}
  BY DEF WorkspaceTypes, Mutations
<1>1. \A k \in QueryNames : queries[k].data # NoData => queries'[k].data # NoData
  BY QueriesStep
<1>2. ASSUME NEW m \in Mutations, Over(m) PROVE RequestsTyped'
  BY <1>0, <1>1, <1>2, OneRequest DEF Over
<1>3. CASE UNCHANGED requests
  BY <1>0, <1>1, <1>3 DEF RequestsTyped, Answers, At, QueryNames
<1>4. ASSUME NEW m \in Mutations, NEW w \in Wants(m), Send(m, w), m # "answer" PROVE RequestsTyped'
  BY <1>0, <1>4, SentRequest DEF Send
<1>5. CASE SubmitForReview
  BY <1>0, <1>4, <1>5, WantsAre DEF SubmitForReview
<1>6. CASE Resubmit
  BY <1>0, <1>4, <1>6, WantsAre DEF Resubmit
<1>7. CASE PublishUpdate
  <2>1. milestone.text \in Milestones
    BY <1>7 DEF WorkspaceTypes, PublishUpdate
  <2> QED BY <1>0, <1>4, <1>7, <2>1, WantsAre DEF PublishUpdate
<1>8. CASE AddMember
  BY <1>0, <1>4, <1>8, WantsAre DEF AddMember
<1>9. CASE \E o \in Offers, d \in {"approved", "rejected"} : RespondToOffer(o, d)
  <2>1. PICK o \in Offers, d \in {"approved", "rejected"} : RespondToOffer(o, d)
    BY <1>9
  <2>2. o \in PendingOffers /\ Send("answer", <<o, d>>)
    BY <2>1 DEF RespondToOffer
  <2>3. queries["offers"].data # NoData
    BY <2>2 DEF PendingOffers
  <2>4. <<o, d>> \in Wants("answer") /\ UNCHANGED queries
    BY <2>2, WantsAre DEF Send
  <2> QED BY <1>0, <2>2, <2>3, <2>4, SentRequest
<1>10. CASE \E t \in Impacts : SubmitImpact(t)
  <2>1. PICK t \in Impacts : SubmitImpact(t)
    BY <1>10
  <2> DEFINE b == ReportOnPage # NoData
  <2>2. [text |-> t, edits |-> b] \in Wants("impact")
    BY WantsAre
  <2>3. Send("impact", [text |-> t, edits |-> b])
    BY <2>1 DEF SubmitImpact
  <2> QED BY <1>0, <1>4, <2>2, <2>3
<1>11. CASE CheckSubmission
  <2>1. PICK a \in PodAnswers : At("submit", "sent") /\ Moves("submit", "checked", UnderReview(a))
    BY <1>11 DEF CheckSubmission, Checks
  <2>2. UnderReview(a) \in PodSays
    BY <1>0, PodAnswersAre DEF PodSays, UnderReview
  <2>3. requests["submit"] # Idle /\ Moves("submit", "checked", UnderReview(a))
    BY <2>1 DEF At
  <2> QED BY <1>0, <2>2, <2>3, MovedRequest
<1>12. ASSUME NEW m \in Mutations, requests[m] # Idle, NEW stage \in {"checked", "stored"},
              Moves(m, stage, NoData), m # "submit"
       PROVE  RequestsTyped'
  BY <1>0, <1>12, MovedRequest
<1>13. CASE StoreUpdate \/ StoreMember \/ StoreAnswer \/ StoreImpact \/ CheckAnswer \/ CheckImpact
  BY <1>0, <1>12, <1>13
  DEF StoreUpdate, StoreMember, StoreAnswer, StoreImpact, CheckAnswer, CheckImpact, Checks, Stores, At
<1>18. CASE StoreSubmission
  <2>1. requests["submit"] # Idle /\ requests["submit"].answer \in PodSays
    BY <1>0, <1>18 DEF StoreSubmission, RequestsTyped, At
  <2> QED BY <1>0, <1>18, <2>1, MovedRequest DEF StoreSubmission, Stores
<1>14. CASE SubmissionShown \/ Updated \/ MemberAdded \/ OfferAnswered \/ ImpactSaved
  BY <1>0, <1>2, <1>14 DEF SubmissionShown, Updated, MemberAdded, OfferAnswered, ImpactSaved
<1>15. CASE \E m \in Mutations : RequestFails(m)
  BY <1>2, <1>15 DEF RequestFails
<1>16. CASE AskPod \/ ShowPod \/ FetchOffers \/ FetchImpact \/ (\E k \in DOMAIN queries : FetchLost(k))
            \/ OpenMilestone \/ CancelMilestone \/ (\E t \in Milestones \cup {Nil} : WriteMilestone(t))
  BY <1>3, <1>16 DEF AskPod, ShowPod, FetchOffers, FetchImpact, FetchLost, OpenMilestone,
     CancelMilestone, WriteMilestone
<1>17. CASE (\E v \in DOMAIN AfterReview : ReviewedElsewhere(v)) \/ CompletedElsewhere
            \/ (\E o \in Offers : WithdrawnElsewhere(o)) \/ UNCHANGED workspaceVars
  BY <1>3, <1>17 DEF ReviewedElsewhere, CompletedElsewhere, WithdrawnElsewhere, Elsewhere, workspaceVars
<1> QED
  BY <1>5, <1>6, <1>7, <1>8, <1>9, <1>10, <1>11, <1>13, <1>14, <1>15, <1>16, <1>17, <1>18
  DEF WorkspaceNext

LEMMA WorkspaceStart == WorkspaceInit => WorkspaceTypes
<1> SUFFICES ASSUME WorkspaceInit PROVE WorkspaceTypes
  OBVIOUS
<1>1. RowTypes
  <2>1. <<"approved">> \in Seq(Verdicts) /\ <<>> \in Seq(Verdicts)
    BY DEF Verdicts
  <2> QED BY <2>1 DEF WorkspaceInit, RowTypes, PodRow
<1>2. QueriesTyped(queries)
  <2>1. Opened \in PageQueries /\ Off \in PageQueries /\ ~Answered(Opened) /\ ~Answered(Off)
    BY DEF PageQueries, QueriesOf, Opened, Off, Answered
  <2>2. queries = [pod |-> Opened, offers |-> Off, impact |-> Off]
    BY DEF WorkspaceInit
  <2> QED BY <2>1, <2>2 DEF QueriesTyped, QueryNames
<1>3. RequestsTyped
  <2>1. \A m \in Mutations : requests[m] = Idle
    BY DEF WorkspaceInit
  <2>2. "answer" \in Mutations /\ "submit" \in Mutations
    BY DEF Mutations
  <2>3. requests = [m \in Mutations |-> requests[m]]
    BY DEF WorkspaceInit
  <2> QED BY <2>1, <2>2, <2>3 DEF RequestsTyped, Answers, At
<1> QED BY <1>1, <1>2, <1>3 DEF WorkspaceTypes, WorkspaceInit

LEMMA RowTypesNext == ASSUME WorkspaceTypes, [WorkspaceNext]_workspaceVars PROVE RowTypes'
<1>0. pod \in PodRow /\ offer \in [Offers -> {"pending", "approved", "rejected", "withdrawn"}]
  BY DEF WorkspaceTypes, RowTypes
<1>1. CASE StoreSubmission \/ StoreUpdate \/ StoreMember
  BY <1>0, <1>1 DEF UnderReview, RowTypes, PodRow, StoreSubmission, StoreUpdate, StoreMember
<1>2. CASE StoreAnswer
  <2> DEFINE w == requests["answer"].what
  <2>1. w \in Offers \X {"approved", "rejected"}
    BY <1>2 DEF WorkspaceTypes, RequestsTyped, StoreAnswer, At, Mutations, Sendings, Wants
  <2>2. offer' = [offer EXCEPT ![w[1]] = w[2]] /\ pod' = pod
    BY <1>2 DEF StoreAnswer
  <2> HIDE DEF w
  <2> QED BY <1>0, <2>1, <2>2 DEF RowTypes
<1>3. CASE \E v \in DOMAIN AfterReview : ReviewedElsewhere(v)
  <2>1. PICK v \in Verdicts : ReviewedElsewhere(v)
    BY <1>3 DEF AfterReview, Verdicts
  <2>2. Append(pod.verdicts, v) \in Seq(Verdicts)
    BY <1>0 DEF PodRow
  <2>3. AfterReview[v] \in {"pilot", "in_progress", "rejected"}
    BY DEF AfterReview, Verdicts
  <2>4. PICK s \in {AfterReview[v], pod.status} :
          pod' = [pod EXCEPT !.status = s, !.verdicts = Append(@, v)]
    BY <2>1 DEF ReviewedElsewhere
  <2> QED BY <1>0, <2>1, <2>2, <2>3, <2>4 DEF ReviewedElsewhere, RowTypes, PodRow
<1>4. CASE CompletedElsewhere
  BY <1>0, <1>4 DEF CompletedElsewhere, RowTypes, PodRow
<1>5. CASE \E o \in Offers : WithdrawnElsewhere(o)
  BY <1>0, <1>5 DEF WithdrawnElsewhere, RowTypes
<1>6. CASE UNCHANGED <<pod, offer>>
  BY <1>0, <1>6 DEF RowTypes
<1>7. \/ StoreSubmission \/ StoreUpdate \/ StoreMember \/ StoreAnswer
      \/ (\E v \in DOMAIN AfterReview : ReviewedElsewhere(v)) \/ CompletedElsewhere
      \/ (\E o \in Offers : WithdrawnElsewhere(o)) \/ UNCHANGED <<pod, offer>>
  BY DEF WorkspaceNext, workspaceVars, AskPod, ShowPod, FetchOffers, FetchImpact, FetchLost, stored,
     OpenMilestone, WriteMilestone, CancelMilestone, PublishUpdate, SubmitForReview, Resubmit,
     AddMember, RespondToOffer, SubmitImpact, Send, CheckSubmission, CheckAnswer, CheckImpact, Checks,
     StoreImpact, SubmissionShown, Updated, MemberAdded, OfferAnswered, ImpactSaved, RequestFails
<1> QED BY <1>1, <1>2, <1>3, <1>4, <1>5, <1>6, <1>7

LEMMA WorkspaceTypesNext == WorkspaceTypes /\ [WorkspaceNext]_workspaceVars => WorkspaceTypes'
<1> SUFFICES ASSUME WorkspaceTypes, [WorkspaceNext]_workspaceVars PROVE WorkspaceTypes'
  OBVIOUS
<1>1. impact' \in Impacts \cup {Nil}
  <2>1. CASE StoreImpact
    <3>1. requests["impact"].what \in [text : Impacts, edits : BOOLEAN]
      BY <2>1 DEF WorkspaceTypes, RequestsTyped, StoreImpact, At, Mutations, Sendings, Wants
    <3> QED BY <2>1, <3>1 DEF StoreImpact
  <2>2. CASE UNCHANGED impact
    BY <2>2 DEF WorkspaceTypes
  <2>3. StoreImpact \/ UNCHANGED impact
    BY DEF WorkspaceNext, workspaceVars, AskPod, ShowPod, FetchOffers, FetchImpact, FetchLost, stored,
       OpenMilestone, WriteMilestone, CancelMilestone, PublishUpdate, SubmitForReview, Resubmit,
       AddMember, RespondToOffer, SubmitImpact, Send, CheckSubmission, CheckAnswer, CheckImpact,
       Checks, StoreSubmission, StoreUpdate, StoreMember, StoreAnswer, SubmissionShown, Updated, MemberAdded, OfferAnswered, ImpactSaved, RequestFails,
       ReviewedElsewhere, CompletedElsewhere, WithdrawnElsewhere
  <2> QED BY <2>1, <2>2, <2>3
<1>2. milestone' \in [open : BOOLEAN, text : Milestones \cup {Nil}]
  <2>0. milestone \in [open : BOOLEAN, text : Milestones \cup {Nil}]
    BY DEF WorkspaceTypes
  <2>1. CASE OpenMilestone \/ CancelMilestone \/ (\E t \in Milestones \cup {Nil} : WriteMilestone(t))
    BY <2>0, <2>1 DEF OpenMilestone, CancelMilestone, WriteMilestone
  <2>2. CASE Updated
    BY <2>2 DEF Updated
  <2>3. CASE UNCHANGED milestone
    BY <2>0, <2>3
  <2>4. \/ OpenMilestone \/ CancelMilestone \/ (\E t \in Milestones \cup {Nil} : WriteMilestone(t))
        \/ Updated \/ UNCHANGED milestone
    BY DEF WorkspaceNext, workspaceVars, AskPod, ShowPod, FetchOffers, FetchImpact, FetchLost,
       PublishUpdate, SubmitForReview, Resubmit, AddMember, RespondToOffer, SubmitImpact, Send,
       CheckSubmission, CheckAnswer, CheckImpact, Checks, Moves,
       StoreSubmission, StoreUpdate, StoreMember, StoreAnswer, StoreImpact, Stores, SubmissionShown,
       MemberAdded, OfferAnswered, ImpactSaved, RequestFails, ReviewedElsewhere, CompletedElsewhere,
       WithdrawnElsewhere, Elsewhere
  <2> QED BY <2>1, <2>2, <2>3, <2>4
<1> QED BY <1>1, <1>2, QueriesStep, RequestsStep, RowTypesNext DEF WorkspaceTypes

(* The lead's own changes are in an answer.                                   *)
PodCurrent(a) ==
  a.updates = pod.updates /\ a.members = pod.members /\ (pod.status = "review" => a.status = "review")
OffersCurrent(a) == \A o \in Offers : offer[o] \in {"approved", "rejected"} => a[o] = offer[o]

(* Unless something was missed, a change is stored and not answered yet, or   *)
(* the query is asked and has not read, or what it read, or shows at rest, is *)
(* current.                                                                   *)
PodInSight ==
  ~overrun /\ ~missed =>
    \/ \E m \in Mutations : Answers(m)
    \/ Asked(queries["pod"])
    \/ Answered(queries["pod"]) /\ PodCurrent(queries["pod"].seen)
    \/ queries["pod"].fetch = "idle" /\ (queries["pod"].failed \/ PodCurrent(queries["pod"].data))

OffersInSight ==
  ~missed =>
    \/ Answers("answer")
    \/ Asked(queries["offers"])
    \/ Answered(queries["offers"]) /\ OffersCurrent(queries["offers"].seen)
    \/ queries["offers"].fetch = "idle" /\ (queries["offers"].failed \/ OffersCurrent(queries["offers"].data))

ImpactInSight ==
  ~missed /\ impact # Nil =>
    \/ Answers("impact")
    \/ Asked(queries["impact"])
    \/ Answered(queries["impact"]) /\ queries["impact"].seen = impact
    \/ queries["impact"].fetch = "idle" /\ queries["impact"].data = impact

(* The steps of the requests: one is sent, one is stored, one is over.        *)
LEMMA RequestSent ==
  ASSUME WorkspaceTypes,
         \/ PublishUpdate \/ SubmitForReview \/ Resubmit \/ AddMember
         \/ (\E o \in Offers, d \in {"approved", "rejected"} : RespondToOffer(o, d))
         \/ (\E t \in Impacts : SubmitImpact(t))
  PROVE  /\ UNCHANGED <<stored, queries, missed, overrun>>
         /\ \A m \in Mutations : Answers(m) => Answers(m)'
<1>1. PICK m \in Mutations : \E w : Send(m, w)
  <2>1. Mutations = {"submit", "update", "member", "answer", "impact"}
    BY DEF Mutations
  <2>2. CASE PublishUpdate
    BY <2>1, <2>2 DEF PublishUpdate
  <2>3. CASE SubmitForReview
    BY <2>1, <2>3 DEF SubmitForReview
  <2>4. CASE Resubmit
    BY <2>1, <2>4 DEF Resubmit
  <2>5. CASE AddMember
    BY <2>1, <2>5 DEF AddMember
  <2>6. CASE \E o \in Offers, d \in {"approved", "rejected"} : RespondToOffer(o, d)
    BY <2>1, <2>6 DEF RespondToOffer
  <2>7. CASE \E t \in Impacts : SubmitImpact(t)
    BY <2>1, <2>7 DEF SubmitImpact
  <2> QED BY <2>2, <2>3, <2>4, <2>5, <2>6, <2>7
<1>2. requests = [n \in Mutations |-> requests[n]]
  BY DEF WorkspaceTypes, RequestsTyped
<1>3. \A n \in Mutations \ {m} : requests'[n] = requests[n]
  BY <1>1, <1>2 DEF Send
<1>4. requests[m] = Idle
  BY <1>1 DEF Send, Busy
<1> QED BY <1>1, <1>3, <1>4 DEF Send, Answers

LEMMA RequestMoved ==
  ASSUME WorkspaceTypes, NEW m \in Mutations, requests[m] # Idle, NEW stage, NEW a, Moves(m, stage, a)
  PROVE  /\ UNCHANGED <<queries, missed, overrun>>
         /\ requests'[m].stage = stage /\ requests'[m] # Idle
         /\ \A n \in Mutations \ {m} : Answers(n) => Answers(n)'
<1>1. requests = [n \in Mutations |-> requests[n]] /\ requests[m] \in Sendings(m)
  BY DEF WorkspaceTypes, RequestsTyped
<1>2. /\ requests'[m] = [requests[m] EXCEPT !.stage = stage, !.answer = a]
      /\ \A n \in Mutations \ {m} : requests'[n] = requests[n]
  BY <1>1 DEF Moves
<1>3. requests'[m].stage = stage /\ requests'[m].what = requests[m].what
      /\ DOMAIN requests'[m] = {"stage", "what", "answer"}
  BY <1>1, <1>2 DEF Sendings
<1>4. DOMAIN Idle = {"stage"}
  BY DEF Idle
<1>5. "what" \in DOMAIN requests'[m] /\ "what" \notin DOMAIN Idle
  BY <1>3, <1>4
<1>6. requests'[m] # Idle
  BY <1>5
<1> QED BY <1>2, <1>3, <1>6 DEF Moves, Answers

LEMMA RequestStored ==
  ASSUME WorkspaceTypes, NEW m \in Mutations, NEW a, requests[m] # Idle, Stores(m, a)
  PROVE  /\ UNCHANGED <<queries, missed, overrun>>
         /\ Answers(m)' /\ \A n \in Mutations : Answers(n) => Answers(n)'
<1>1. Moves(m, "stored", a) /\ "stored" = "stored"
  BY DEF Stores
<1>2. Answers(m)'
  BY <1>1, RequestMoved DEF Answers
<1> QED BY <1>1, <1>2, RequestMoved

LEMMA RequestChecked ==
  ASSUME WorkspaceTypes, CheckSubmission \/ CheckAnswer \/ CheckImpact
  PROVE  /\ UNCHANGED <<stored, queries, missed, overrun>>
         /\ \A m \in Mutations : Answers(m) => Answers(m)'
<1>1. \E m \in Mutations : \E a : At(m, "sent") /\ Moves(m, "checked", a) /\ UNCHANGED stored
  BY DEF CheckSubmission, CheckAnswer, CheckImpact, Checks, Mutations
<1>2. PICK m \in Mutations : \E a : At(m, "sent") /\ Moves(m, "checked", a) /\ UNCHANGED stored
  BY <1>1
<1>3. PICK a : At(m, "sent") /\ Moves(m, "checked", a) /\ UNCHANGED stored
  BY <1>2
<1>4. requests[m] # Idle /\ ~Answers(m)
  BY <1>3 DEF At, Answers
<1> QED BY <1>3, <1>4, RequestMoved

LEMMA RequestEnded ==
  ASSUME WorkspaceTypes, NEW m \in Mutations, Over(m)
  PROVE  \A n \in Mutations \ {m} : Answers(n) => Answers(n)'
<1>1. requests = [n \in Mutations |-> requests[n]]
  BY DEF WorkspaceTypes, RequestsTyped
<1> QED BY <1>1 DEF Over, Answers

LEMMA RequestRefused ==
  ASSUME WorkspaceTypes, NEW m \in Mutations, RequestFails(m)
  PROVE  /\ UNCHANGED <<stored, queries, overrun>> /\ (missed => missed')
         /\ ~missed' => \A n \in Mutations : Answers(n) => Answers(n)'
BY RequestEnded DEF RequestFails, Answers

LEMMA OthersChange ==
  ASSUME WorkspaceTypes, \/ (\E v \in DOMAIN AfterReview : ReviewedElsewhere(v)) \/ CompletedElsewhere
                         \/ (\E o \in Offers : WithdrawnElsewhere(o))
  PROVE  /\ UNCHANGED <<impact, queries, requests, missed, overrun>>
         /\ \A a : PodCurrent(a) => PodCurrent(a)'
         /\ \A a : OffersCurrent(a) => OffersCurrent(a)'
<1>0. pod \in PodRow /\ offer \in [Offers -> {"pending", "approved", "rejected", "withdrawn"}]
  BY DEF WorkspaceTypes, RowTypes
<1>1. CASE \E v \in DOMAIN AfterReview : ReviewedElsewhere(v)
  <2>1. PICK v \in Verdicts : ReviewedElsewhere(v)
    BY <1>1 DEF AfterReview, Verdicts
  <2>2. /\ pod'.updates = pod.updates /\ pod'.members = pod.members
        /\ pod'.status = "review" => pod.status = "review"
    <3>1. AfterReview[v] \in {"pilot", "in_progress", "rejected"}
      BY DEF AfterReview, Verdicts
    <3>2. PICK s \in {AfterReview[v], pod.status} :
            pod' = [pod EXCEPT !.status = s, !.verdicts = Append(@, v)]
      BY <2>1 DEF ReviewedElsewhere
    <3> QED BY <1>0, <3>1, <3>2 DEF PodRow
  <2> QED BY <2>1, <2>2 DEF ReviewedElsewhere, Elsewhere, PodCurrent, OffersCurrent
<1>2. CASE CompletedElsewhere
  <2>1. pod'.updates = pod.updates /\ pod'.members = pod.members /\ pod'.status # "review"
    BY <1>0, <1>2 DEF CompletedElsewhere, PodRow
  <2> QED BY <1>2, <2>1 DEF CompletedElsewhere, Elsewhere, PodCurrent, OffersCurrent
<1>3. CASE \E o \in Offers : WithdrawnElsewhere(o)
  <2>1. PICK o \in Offers : WithdrawnElsewhere(o)
    BY <1>3
  <2>2. \A u \in Offers : offer'[u] \in {"approved", "rejected"} => offer'[u] = offer[u]
    BY <1>0, <2>1 DEF WithdrawnElsewhere
  <2>3. UNCHANGED <<pod, impact, queries, requests, missed, overrun>>
    BY <2>1 DEF WithdrawnElsewhere, Elsewhere
  <2>4. \A a : PodCurrent(a) => PodCurrent(a)'
    BY <2>3 DEF PodCurrent
  <2>5. \A a : OffersCurrent(a) => OffersCurrent(a)'
    BY <2>2 DEF OffersCurrent
  <2> QED BY <2>3, <2>4, <2>5
<1> QED BY <1>1, <1>2, <1>3

SendsOne ==
  \/ PublishUpdate \/ SubmitForReview \/ Resubmit \/ AddMember
  \/ (\E o \in Offers, d \in {"approved", "rejected"} : RespondToOffer(o, d))
  \/ (\E t \in Impacts : SubmitImpact(t))
ChecksOne == CheckSubmission \/ CheckAnswer \/ CheckImpact
ChangesElsewhere ==
  \/ (\E v \in DOMAIN AfterReview : ReviewedElsewhere(v)) \/ CompletedElsewhere
  \/ (\E o \in Offers : WithdrawnElsewhere(o))
Rests == UNCHANGED <<stored, queries, requests, missed, overrun>>

LEMMA WorkspaceSteps ==
  ASSUME [WorkspaceNext]_workspaceVars
  PROVE  \/ AskPod \/ ShowPod \/ FetchOffers \/ FetchImpact \/ (\E k \in DOMAIN queries : FetchLost(k))
         \/ SendsOne \/ ChecksOne
         \/ StoreSubmission \/ StoreUpdate \/ StoreMember \/ StoreAnswer \/ StoreImpact
         \/ SubmissionShown \/ Updated \/ MemberAdded \/ OfferAnswered \/ ImpactSaved
         \/ (\E m \in Mutations : RequestFails(m)) \/ ChangesElsewhere \/ Rests
BY DEF WorkspaceNext, SendsOne, ChecksOne, ChangesElsewhere, Rests, workspaceVars, OpenMilestone, CancelMilestone,
   WriteMilestone

(* The pod's query.                                                           *)
LEMMA PodSightNext ==
  ASSUME WorkspaceTypes, PodInSight, [WorkspaceNext]_workspaceVars PROVE PodInSight'
<1>0. /\ Mutations = {"submit", "update", "member", "answer", "impact"}
      /\ QueriesTyped(queries) /\ DOMAIN queries = QueryNames /\ "pod" \in QueryNames /\ RowTypes
      /\ queries["pod"] \in PageQueries
  BY DEF Mutations, WorkspaceTypes, QueriesTyped, QueryNames
<1>1. ASSUME UNCHANGED <<pod, queries>>, missed => missed', overrun => overrun',
             ~missed' => \A m \in Mutations : Answers(m) => Answers(m)'
      PROVE  PodInSight'
  BY <1>1 DEF PodInSight, PodCurrent
<1>2. ASSUME NEW m \in Mutations, NEW a, requests[m] # Idle, Stores(m, a) PROVE PodInSight'
  <2>1. Answers(m)'
    BY <1>2, RequestStored
  <2> QED BY <2>1 DEF PodInSight
<1>3. ASSUME NEW m \in Mutations, Answers(m), NEW keys, "pod" \in keys, queries' = Invalidated(keys)
      PROVE  PodInSight'
  <2>1. queries["pod"].data # NoData /\ Enabled("pod", queries["pod"].data)
    BY <1>3 DEF WorkspaceTypes, RequestsTyped, Answers, Enabled
  <2>2. Asked(queries'["pod"])
    BY <1>0, <1>3, <2>1, InvalidatedIs
  <2> QED BY <2>2 DEF PodInSight
<1>4. CASE AskPod
  <2>1. PICK a \in PodAnswers : queries' = [queries EXCEPT !["pod"] = Reads(@, a)]
    BY <1>4 DEF AskPod
  <2>2. a \in WorkspaceAnswers /\ PodCurrent(a) /\ pod' = pod
    <3>1. pod' = pod
      BY <1>4 DEF AskPod, stored
    <3> QED BY <1>0, <2>1, <3>1, PodAnswersAre DEF PodCurrent
  <2>3. queries'["pod"] = Reads(queries["pod"], a)
    BY <1>0, <2>1
  <2>4. Answered(queries'["pod"]) /\ queries'["pod"].seen = a
    BY <1>0, <2>3 DEF Reads, PageQueries, QueriesOf, Answered
  <2> QED BY <2>2, <2>4 DEF PodInSight, PodCurrent
<1>5. CASE ShowPod
  <2> DEFINE c == [queries EXCEPT !["pod"] = Shows(@)]
  <2>1. PICK young \in BOOLEAN : queries' = Enabling(queries, c, young)
    BY <1>5 DEF ShowPod
  <2>2. Enabling(queries, c, young)["pod"] = c["pod"]
    BY <1>0 DEF Enabling, Enabled
  <2>3. queries'["pod"] = Shows(queries["pod"])
    BY <1>0, <2>1, <2>2
  <2>4. queries["pod"].seen \in WorkspaceAnswers /\ Answered(queries["pod"])
    BY <1>0, <1>5 DEF QueriesTyped, ShowPod
  <2>5. queries'["pod"].data = queries["pod"].seen /\ queries'["pod"].fetch = "idle"
    BY <1>0, <2>3, <2>4, QueryMoves
  <2>6. UNCHANGED <<pod, requests, missed, overrun>>
    BY <1>5 DEF ShowPod, stored
  <2>7. \A m \in Mutations : Answers(m) => Answers(m)'
    BY <2>6 DEF Answers
  <2>8. ~overrun /\ ~missed => (\E m \in Mutations : Answers(m)) \/ PodCurrent(queries["pod"].seen)
    BY <2>4 DEF PodInSight, Answered, Asked
  <2> QED BY <2>5, <2>6, <2>7, <2>8 DEF PodInSight, PodCurrent
<1>6. ASSUME UNCHANGED <<pod, requests, overrun>>, missed => missed', queries'["pod"] = queries["pod"]
      PROVE  PodInSight'
  <2>1. \A m \in Mutations : Answers(m) => Answers(m)'
    BY <1>6 DEF Answers
  <2> QED BY <1>6, <2>1 DEF PodInSight, PodCurrent
<1>7. CASE FetchOffers \/ FetchImpact
  BY <1>0, <1>6, <1>7 DEF FetchOffers, FetchImpact, stored, QueryNames
<1>8. CASE \E k \in DOMAIN queries : FetchLost(k)
  <2>1. PICK k \in QueryNames : FetchLost(k)
    BY <1>0, <1>8
  <2>2. CASE k = "pod"
    <3>1. queries'["pod"] = Misses(queries["pod"])
      BY <1>0, <2>1, <2>2 DEF FetchLost
    <3>2. queries'["pod"].fetch = "idle" /\ queries'["pod"].failed
      BY <1>0, <3>1, QueryMoves
    <3> QED BY <3>2 DEF PodInSight
  <2>3. CASE k # "pod"
    BY <1>0, <1>6, <2>1, <2>3 DEF FetchLost, stored
  <2> QED BY <2>2, <2>3
<1>9. CASE SendsOne
  BY <1>1, <1>9, RequestSent DEF SendsOne, stored
<1>16. CASE ChecksOne
  BY <1>1, <1>16, RequestChecked DEF ChecksOne, stored
<1>10. CASE StoreSubmission \/ StoreUpdate \/ StoreMember \/ StoreAnswer \/ StoreImpact
  BY <1>0, <1>2, <1>10 DEF UnderReview, StoreSubmission, StoreUpdate, StoreMember, StoreAnswer, StoreImpact, At
<1>11. CASE Updated \/ MemberAdded \/ OfferAnswered \/ ImpactSaved
  BY <1>0, <1>3, <1>11 DEF Updated, MemberAdded, OfferAnswered, ImpactSaved
<1>12. CASE SubmissionShown
  <2> DEFINE d == requests["submit"].answer
             c == SetData(queries, {"pod"}, d)
  <2>1. PICK young \in BOOLEAN : queries' = Enabling(queries, c, young)
    BY <1>12 DEF SubmissionShown
  <2>2. Enabling(queries, c, young)["pod"] = c["pod"]
    BY <1>0 DEF Enabling, Enabled, SetData
  <2>3. c["pod"] = [queries["pod"] EXCEPT !.data = d, !.failed = FALSE]
    BY <1>0 DEF SetData
  <2>4. /\ queries'["pod"].data = d /\ queries'["pod"].fetch = queries["pod"].fetch
        /\ queries'["pod"].seen = queries["pod"].seen
    BY <1>0, <2>1, <2>2, <2>3 DEF PageQueries, QueriesOf
  <2>5. ~overrun' => d \in PodAnswers /\ (Answered(queries["pod"]) => queries["pod"].seen \in PodAnswers)
    BY <1>12 DEF SubmissionShown
  <2>6. \A a \in PodAnswers : PodCurrent(a)'
    BY <1>0, <1>12, PodAnswersAre DEF SubmissionShown, PodCurrent, stored
  <2>7. queries["pod"].fetch \in {"idle", "asked", "read"}
    BY <1>0 DEF PageQueries, QueriesOf
  <2> HIDE DEF d
  <2> QED BY <2>4, <2>5, <2>6, <2>7 DEF PodInSight, Asked, Answered, PodCurrent
<1>13. CASE \E m \in Mutations : RequestFails(m)
  BY <1>1, <1>13, RequestRefused DEF stored
<1>14. CASE ChangesElsewhere
  <2>1. UNCHANGED <<queries, requests, missed, overrun>> /\ \A a : PodCurrent(a) => PodCurrent(a)'
    BY <1>14, OthersChange DEF ChangesElsewhere
  <2>2. \A m \in Mutations : Answers(m) => Answers(m)'
    BY <2>1 DEF Answers
  <2>3. PodCurrent(queries["pod"].seen) => PodCurrent(queries["pod"].seen)'
    BY <2>1 DEF PodCurrent
  <2>4. PodCurrent(queries["pod"].data) => PodCurrent(queries["pod"].data)'
    BY <2>1 DEF PodCurrent
  <2> QED BY <2>1, <2>2, <2>3, <2>4 DEF PodInSight
<1>15. CASE Rests
  <2>1. \A m \in Mutations : Answers(m) => Answers(m)'
    BY <1>15 DEF Rests, Answers
  <2> QED BY <1>1, <1>15, <2>1 DEF Rests, stored
<1> QED
  BY <1>4, <1>5, <1>7, <1>8, <1>9, <1>10, <1>11, <1>12, <1>13, <1>14, <1>15, <1>16, WorkspaceSteps

(* The query of the offers, which the pod enables when it is there.           *)
LEMMA OffersSightNext ==
  ASSUME WorkspaceTypes, OffersInSight, [WorkspaceNext]_workspaceVars PROVE OffersInSight'
<1>0. /\ "answer" \in Mutations /\ RowTypes /\ QueriesTyped(queries) /\ DOMAIN queries = QueryNames
      /\ "offers" \in QueryNames /\ "pod" \in QueryNames /\ queries["offers"] \in PageQueries
  BY DEF Mutations, WorkspaceTypes, QueriesTyped, QueryNames
<1>1. ASSUME UNCHANGED offer, missed => missed', ~missed' /\ Answers("answer") => Answers("answer")',
             queries'["offers"] = queries["offers"] \/ Asked(queries'["offers"])
      PROVE  OffersInSight'
  BY <1>1 DEF OffersInSight, OffersCurrent
<1>2. ASSUME NEW m \in Mutations \ {"answer"}, Answers(m), Over(m), missed => missed', UNCHANGED offer,
             queries'["offers"] = queries["offers"] \/ Asked(queries'["offers"])
      PROVE  OffersInSight'
  BY <1>0, <1>1, <1>2, RequestEnded
<1>3. CASE AskPod
  <2>1. queries'["offers"] = queries["offers"] /\ UNCHANGED <<offer, requests, missed>>
    BY <1>0, <1>3 DEF AskPod, stored
  <2> QED BY <1>1, <2>1 DEF Answers
<1>4. CASE ShowPod
  <2> DEFINE c == [queries EXCEPT !["pod"] = Shows(@)]
  <2>1. PICK young \in BOOLEAN : queries' = Enabling(queries, c, young)
    BY <1>4 DEF ShowPod
  <2>2. c["offers"] = queries["offers"]
    BY <1>0
  <2>3. Enabling(queries, c, young)["offers"] \in {c["offers"], Refetch(c["offers"])}
        /\ (Enabling(queries, c, young)["offers"] # c["offers"] => c["offers"].fetch = "idle")
    BY <1>0 DEF Enabling
  <2>4. queries["offers"].fetch = "idle" => Asked(Refetch(queries["offers"]))
    BY <1>0 DEF PageQueries, QueriesOf, Refetch, Asked
  <2>5. queries'["offers"] = queries["offers"] \/ Asked(queries'["offers"])
    BY <2>1, <2>2, <2>3, <2>4
  <2>6. UNCHANGED <<offer, requests, missed>>
    BY <1>4 DEF ShowPod, stored
  <2> QED BY <1>1, <2>5, <2>6 DEF Answers
<1>5. CASE FetchOffers
  <2>1. UNCHANGED <<offer, requests, missed>>
    BY <1>5 DEF FetchOffers, stored
  <2>2. CASE queries' = [queries EXCEPT !["offers"] = Reads(@, OfferAnswer)]
    <3> DEFINE a == OfferAnswer
    <3>1. OffersCurrent(a)
      BY <1>0 DEF OffersCurrent, OfferAnswer
    <3> HIDE DEF a
    <3>2. queries'["offers"] = Reads(queries["offers"], a)
      BY <1>0, <2>2 DEF a
    <3>3. Answered(queries'["offers"]) /\ queries'["offers"].seen = a
      BY <1>0, <3>2 DEF Reads, Answered, PageQueries, QueriesOf
    <3> QED BY <2>1, <3>1, <3>3 DEF OffersInSight, OffersCurrent
  <2>3. CASE Answered(queries["offers"]) /\ queries' = [queries EXCEPT !["offers"] = Shows(@)]
    <3>1. queries'["offers"] = Shows(queries["offers"])
      BY <1>0, <2>3
    <3>2. queries'["offers"].data = queries["offers"].seen /\ queries'["offers"].fetch = "idle"
      BY <3>1 DEF Shows
    <3>3. ~missed => Answers("answer") \/ OffersCurrent(queries["offers"].seen)
      BY <2>3 DEF OffersInSight, Answered, Asked
    <3> QED BY <2>1, <3>2, <3>3 DEF OffersInSight, OffersCurrent, Answers
  <2> QED BY <1>5, <2>2, <2>3 DEF FetchOffers
<1>6. CASE FetchImpact
  <2>1. queries'["offers"] = queries["offers"] /\ UNCHANGED <<offer, requests, missed>>
    BY <1>0, <1>6 DEF FetchImpact, stored
  <2> QED BY <1>1, <2>1 DEF Answers
<1>7. CASE \E k \in DOMAIN queries : FetchLost(k)
  <2>1. PICK k \in QueryNames : FetchLost(k)
    BY <1>0, <1>7
  <2>2. CASE k = "offers"
    <3>1. queries'["offers"] = Misses(queries["offers"])
      BY <1>0, <2>1, <2>2 DEF FetchLost
    <3>2. queries'["offers"].fetch = "idle" /\ queries'["offers"].failed
      BY <1>0, <3>1, QueryMoves
    <3> QED BY <3>2 DEF OffersInSight
  <2>3. CASE k # "offers"
    <3>1. queries'["offers"] = queries["offers"] /\ UNCHANGED <<offer, requests>> /\ (missed => missed')
      BY <1>0, <2>1, <2>3 DEF FetchLost, stored
    <3> QED BY <1>1, <3>1 DEF Answers
  <2> QED BY <2>2, <2>3
<1>8. CASE SendsOne
  BY <1>0, <1>1, <1>8, RequestSent DEF SendsOne, stored
<1>19. CASE ChecksOne
  BY <1>0, <1>1, <1>19, RequestChecked DEF ChecksOne, stored
<1>9. ASSUME NEW m \in Mutations, NEW a, requests[m] # Idle, Stores(m, a), UNCHANGED offer
      PROVE  OffersInSight'
  BY <1>0, <1>1, <1>9, RequestStored
<1>10. CASE StoreSubmission \/ StoreUpdate \/ StoreMember \/ StoreImpact
  BY <1>9, <1>10 DEF StoreSubmission, StoreUpdate, StoreMember, StoreImpact, At, Mutations
<1>11. CASE StoreAnswer
  <2>1. Answers("answer")'
    BY <1>0, <1>11, RequestStored DEF StoreAnswer, At
  <2> QED BY <2>1 DEF OffersInSight
<1>12. CASE Updated \/ MemberAdded
  <2>1. queries' = Invalidated({"pod"}) /\ UNCHANGED <<offer, missed>>
    BY <1>12 DEF Updated, MemberAdded, stored
  <2>2. queries'["offers"] = queries["offers"]
    BY <1>0, <2>1, InvalidatedIs
  <2> QED BY <1>2, <1>12, <2>1, <2>2 DEF Updated, MemberAdded, Mutations
<1>13. CASE ImpactSaved
  <2>1. queries' = Invalidated({"impact", "pod"}) /\ UNCHANGED offer /\ (missed => missed')
    BY <1>13 DEF ImpactSaved, stored
  <2>2. queries'["offers"] = queries["offers"]
    BY <1>0, <2>1, InvalidatedIs
  <2> QED BY <1>2, <1>13, <2>1, <2>2 DEF ImpactSaved, Mutations
<1>14. CASE OfferAnswered
  <2>1. /\ queries["pod"].data # NoData /\ queries["offers"].data # NoData
        /\ Enabled("offers", queries["pod"].data)
    BY <1>0, <1>14 DEF WorkspaceTypes, RequestsTyped, OfferAnswered, Answers, Enabled
  <2>2. Asked(queries'["offers"])
    BY <1>0, <1>14, <2>1, InvalidatedIs DEF OfferAnswered
  <2> QED BY <2>2 DEF OffersInSight
<1>15. CASE SubmissionShown
  <2> DEFINE c == SetData(queries, {"pod"}, requests["submit"].answer)
  <2>1. PICK young \in BOOLEAN : queries' = Enabling(queries, c, young)
    BY <1>15 DEF SubmissionShown
  <2>2. Enabled("offers", queries["pod"].data)
    BY <1>15 DEF WorkspaceTypes, RequestsTyped, SubmissionShown, Answers, Enabled, Mutations
  <2>3. c["offers"] = queries["offers"] /\ DOMAIN c = QueryNames
    BY <1>0 DEF SetData
  <2> HIDE DEF c
  <2>4. Enabling(queries, c, young)["offers"] = c["offers"]
    BY <1>0, <2>2, <2>3 DEF Enabling
  <2>5. queries'["offers"] = queries["offers"]
    BY <2>1, <2>3, <2>4
  <2> QED BY <1>2, <1>15, <2>5 DEF SubmissionShown, stored, Mutations
<1>16. CASE \E m \in Mutations : RequestFails(m)
  BY <1>0, <1>1, <1>16, RequestRefused DEF stored
<1>17. CASE ChangesElsewhere
  <2>1. UNCHANGED <<queries, requests, missed>> /\ \A a : OffersCurrent(a) => OffersCurrent(a)'
    BY <1>17, OthersChange DEF ChangesElsewhere
  <2>2. OffersCurrent(queries["offers"].seen) => OffersCurrent(queries["offers"].seen)'
    BY <2>1 DEF OffersCurrent
  <2>3. OffersCurrent(queries["offers"].data) => OffersCurrent(queries["offers"].data)'
    BY <2>1 DEF OffersCurrent
  <2> QED BY <2>1, <2>2, <2>3 DEF OffersInSight, Answers
<1>18. CASE Rests
  BY <1>1, <1>18 DEF Rests, stored, Answers
<1> QED
  BY <1>3, <1>4, <1>5, <1>6, <1>7, <1>8, <1>10, <1>11, <1>12, <1>13, <1>14, <1>15, <1>16, <1>17, <1>18,
     <1>19, WorkspaceSteps

(* The query of the report.                                                   *)
LEMMA ImpactSightNext ==
  ASSUME WorkspaceTypes, ImpactInSight, [WorkspaceNext]_workspaceVars PROVE ImpactInSight'
<1>0. /\ "impact" \in Mutations /\ RowTypes /\ QueriesTyped(queries) /\ DOMAIN queries = QueryNames
      /\ "impact" \in QueryNames /\ "pod" \in QueryNames /\ queries["impact"] \in PageQueries
  BY DEF Mutations, WorkspaceTypes, QueriesTyped, QueryNames
<1>1. ASSUME UNCHANGED impact, missed => missed', ~missed' /\ Answers("impact") => Answers("impact")',
             queries'["impact"] = queries["impact"] \/ Asked(queries'["impact"])
      PROVE  ImpactInSight'
  BY <1>1 DEF ImpactInSight
<1>2. ASSUME NEW m \in Mutations \ {"impact"}, Answers(m), Over(m), missed => missed', UNCHANGED impact,
             queries'["impact"] = queries["impact"] \/ Asked(queries'["impact"])
      PROVE  ImpactInSight'
  BY <1>0, <1>1, <1>2, RequestEnded
<1>3. CASE AskPod
  <2>1. queries'["impact"] = queries["impact"] /\ UNCHANGED <<impact, requests, missed>>
    BY <1>0, <1>3 DEF AskPod, stored
  <2> QED BY <1>1, <2>1 DEF Answers
<1>4. ASSUME NEW c, NEW young, c["impact"] = queries["impact"], DOMAIN c = QueryNames,
             queries' = Enabling(queries, c, young)
      PROVE  queries'["impact"] = queries["impact"] \/ Asked(queries'["impact"])
  <2>1. Enabling(queries, c, young)["impact"] \in {c["impact"], Refetch(c["impact"])}
        /\ (Enabling(queries, c, young)["impact"] # c["impact"] => c["impact"].fetch = "idle")
    BY <1>0, <1>4 DEF Enabling
  <2>2. queries["impact"].fetch = "idle" => Asked(Refetch(queries["impact"]))
    BY <1>0 DEF PageQueries, QueriesOf, Refetch, Asked
  <2> QED BY <1>4, <2>1, <2>2
<1>5. CASE ShowPod
  <2> DEFINE c == [queries EXCEPT !["pod"] = Shows(@)]
  <2>1. PICK young \in BOOLEAN : queries' = Enabling(queries, c, young)
    BY <1>5 DEF ShowPod
  <2>2. c["impact"] = queries["impact"] /\ DOMAIN c = QueryNames
    BY <1>0
  <2> HIDE DEF c
  <2>3. queries'["impact"] = queries["impact"] \/ Asked(queries'["impact"])
    BY <1>4, <2>1, <2>2
  <2>4. UNCHANGED <<impact, requests, missed>>
    BY <1>5 DEF ShowPod, stored
  <2> QED BY <1>1, <2>3, <2>4 DEF Answers
<1>6. CASE FetchOffers
  <2>1. queries'["impact"] = queries["impact"] /\ UNCHANGED <<impact, requests, missed>>
    BY <1>0, <1>6 DEF FetchOffers, stored
  <2> QED BY <1>1, <2>1 DEF Answers
<1>7. CASE FetchImpact
  <2>1. UNCHANGED <<impact, requests, missed>>
    BY <1>7 DEF FetchImpact, stored
  <2>2. CASE queries' = [queries EXCEPT !["impact"] = Reads(@, impact)]
    <3>1. queries'["impact"] = Reads(queries["impact"], impact)
      BY <1>0, <2>2
    <3>2. Answered(queries'["impact"]) /\ queries'["impact"].seen = impact
      BY <1>0, <3>1 DEF Reads, Answered, PageQueries, QueriesOf
    <3> QED BY <2>1, <3>2 DEF ImpactInSight
  <2>3. CASE /\ Answered(queries["impact"])
             /\ queries' = [queries EXCEPT !["impact"] = IF @.seen = Nil THEN Misses(@) ELSE Shows(@)]
    <3>1. queries["impact"].seen # Nil => queries'["impact"] = Shows(queries["impact"])
      BY <1>0, <2>3
    <3>2. queries["impact"].seen # Nil => /\ queries'["impact"].data = queries["impact"].seen
                                          /\ queries'["impact"].fetch = "idle"
      BY <3>1 DEF Shows
    <3>3. ~missed /\ impact # Nil => Answers("impact") \/ queries["impact"].seen = impact
      BY <2>3 DEF ImpactInSight, Answered, Asked
    <3> QED BY <2>1, <3>2, <3>3 DEF ImpactInSight, Answers
  <2> QED BY <1>7, <2>2, <2>3 DEF FetchImpact
<1>8. CASE \E k \in DOMAIN queries : FetchLost(k)
  <2>1. PICK k \in QueryNames : FetchLost(k)
    BY <1>0, <1>8
  <2>2. CASE k = "impact"
    BY <2>1, <2>2 DEF FetchLost, ImpactInSight
  <2>3. CASE k # "impact"
    <3>1. queries'["impact"] = queries["impact"] /\ UNCHANGED <<impact, requests>> /\ (missed => missed')
      BY <1>0, <2>1, <2>3 DEF FetchLost, stored
    <3> QED BY <1>1, <3>1 DEF Answers
  <2> QED BY <2>2, <2>3
<1>9. CASE SendsOne
  BY <1>0, <1>1, <1>9, RequestSent DEF SendsOne, stored
<1>20. CASE ChecksOne
  BY <1>0, <1>1, <1>20, RequestChecked DEF ChecksOne, stored
<1>10. ASSUME NEW m \in Mutations, NEW a, requests[m] # Idle, Stores(m, a), UNCHANGED impact
       PROVE  ImpactInSight'
  BY <1>0, <1>1, <1>10, RequestStored
<1>11. CASE StoreSubmission \/ StoreUpdate \/ StoreMember \/ StoreAnswer
  BY <1>10, <1>11 DEF StoreSubmission, StoreUpdate, StoreMember, StoreAnswer, At, Mutations
<1>12. CASE StoreImpact
  <2>1. Answers("impact")'
    BY <1>0, <1>12, RequestStored DEF StoreImpact, At
  <2> QED BY <2>1 DEF ImpactInSight
<1>13. CASE Updated \/ MemberAdded
  <2>1. queries' = Invalidated({"pod"}) /\ UNCHANGED <<impact, missed>>
    BY <1>13 DEF Updated, MemberAdded, stored
  <2>2. queries'["impact"] = queries["impact"]
    BY <1>0, <2>1, InvalidatedIs
  <2> QED BY <1>2, <1>13, <2>1, <2>2 DEF Updated, MemberAdded, Mutations
<1>14. CASE OfferAnswered
  <2>1. queries' = Invalidated({"offers", "pod"}) /\ UNCHANGED <<impact, missed>>
    BY <1>14 DEF OfferAnswered, stored
  <2>2. queries'["impact"] = queries["impact"]
    BY <1>0, <2>1, InvalidatedIs
  <2> QED BY <1>2, <1>14, <2>1, <2>2 DEF OfferAnswered, Mutations
<1>15. CASE ImpactSaved
  <2>1. CASE missed'
    BY <2>1 DEF ImpactInSight
  <2>2. CASE ~missed'
    <3>1. /\ queries["impact"].fetch = "idle" \/ queries["impact"].data # NoData
          /\ Enabled("impact", queries["pod"].data)
      BY <1>15, <2>2 DEF ImpactSaved, Unheard, Page
    <3>2. Asked(queries'["impact"])
      BY <1>0, <1>15, <3>1, InvalidatedIs DEF ImpactSaved
    <3> QED BY <3>2 DEF ImpactInSight
  <2> QED BY <2>1, <2>2
<1>16. CASE SubmissionShown
  <2> DEFINE c == SetData(queries, {"pod"}, requests["submit"].answer)
  <2>1. PICK young \in BOOLEAN : queries' = Enabling(queries, c, young)
    BY <1>16 DEF SubmissionShown
  <2>2. c["impact"] = queries["impact"] /\ DOMAIN c = QueryNames
    BY <1>0 DEF SetData
  <2> HIDE DEF c
  <2>3. queries'["impact"] = queries["impact"] \/ Asked(queries'["impact"])
    BY <1>4, <2>1, <2>2
  <2> QED BY <1>2, <1>16, <2>3 DEF SubmissionShown, stored, Mutations
<1>17. CASE \E m \in Mutations : RequestFails(m)
  BY <1>0, <1>1, <1>17, RequestRefused DEF stored
<1>18. CASE ChangesElsewhere
  BY <1>1, <1>18, OthersChange DEF ChangesElsewhere, Answers
<1>19. CASE Rests
  BY <1>1, <1>19 DEF Rests, stored, Answers
<1> QED
  BY <1>3, <1>5, <1>6, <1>7, <1>8, <1>9, <1>11, <1>12, <1>13, <1>14, <1>15, <1>16, <1>17, <1>18, <1>19,
     <1>20, WorkspaceSteps

WorkspaceInv == WorkspaceTypes /\ PodInSight /\ OffersInSight /\ ImpactInSight

LEMMA WorkspaceKept == WorkspaceInv /\ [WorkspaceNext]_workspaceVars => WorkspaceInv'
BY WorkspaceTypesNext, PodSightNext, OffersSightNext, ImpactSightNext DEF WorkspaceInv

LEMMA WorkspaceBegins == WorkspaceInit => WorkspaceInv
<1> SUFFICES ASSUME WorkspaceInit PROVE WorkspaceInv
  OBVIOUS
<1>1. Asked(queries["pod"]) /\ queries["offers"].fetch = "idle"
  BY DEF WorkspaceInit, Opened, Off, Asked
<1>2. OffersCurrent(queries["offers"].data) /\ impact = Nil
  BY DEF WorkspaceInit, OffersCurrent
<1> QED BY <1>1, <1>2, WorkspaceStart DEF WorkspaceInv, PodInSight, OffersInSight, ImpactInSight

(* For any offers, milestones, reports and number of requests: at rest the    *)
(* workspace shows what the lead did, OwnChangesShown.                        *)
THEOREM LeadSeesOwnChanges == WorkspaceSpec => []OwnChangesShown
<1>1. WorkspaceInv => OwnChangesShown
  <2> SUFFICES ASSUME WorkspaceInv, AtRest PROVE OwnChangesShown
    BY DEF OwnChangesShown
  <2>1. /\ "pod" \in DOMAIN queries /\ "offers" \in DOMAIN queries /\ "impact" \in DOMAIN queries
        /\ "answer" \in Mutations /\ "impact" \in Mutations
    BY DEF WorkspaceInv, WorkspaceTypes, QueriesTyped, QueryNames, Mutations
  <2>2. \A m \in Mutations : ~Answers(m)
    BY DEF AtRest, Busy, Answers
  <2>3. /\ queries["pod"].fetch = "idle" /\ queries["offers"].fetch = "idle" /\ queries["impact"].fetch = "idle"
        /\ ~queries["pod"].failed /\ ~queries["offers"].failed /\ ~missed
    BY <2>1 DEF AtRest, PageUp
  <2>4. ~overrun => PodCurrent(queries["pod"].data)
    BY <2>2, <2>3 DEF WorkspaceInv, PodInSight, Asked, Answered
  <2>5. OffersCurrent(queries["offers"].data)
    BY <2>1, <2>2, <2>3 DEF WorkspaceInv, OffersInSight, Asked, Answered
  <2>6. impact # Nil => queries["impact"].data = impact
    BY <2>1, <2>2, <2>3 DEF WorkspaceInv, ImpactInSight, Asked, Answered
  <2> QED BY <2>4, <2>5, <2>6 DEF OwnChangesShown, EngineeringLog, TeamRoster, ReviewStatus, Page,
             ReportOnPage, PodCurrent, OffersCurrent
<1> QED BY <1>1, WorkspaceBegins, WorkspaceKept, PTL DEF WorkspaceSpec
-------------------------------------------------------------------------------
(* Every part of MCProblems steps as it would alone, so that what is proved   *)
(* of each holds of all.                                                      *)
AllVars == <<part, reportVars, postVars, workspaceVars, deskVars, analysisVars, linkVars>>

LEMMA PartsStep ==
  ASSUME [Next]_AllVars
  PROVE  /\ [ReportNext]_reportVars /\ [PostNext]_postVars /\ [WorkspaceNext]_workspaceVars
         /\ [DeskNext]_deskVars /\ [AnalysisNext]_analysisVars /\ [LinksNext]_linkVars
BY DEF Next, AllVars

LEMMA PartsAlone ==
  Spec => ReportSpec /\ PostSpec /\ WorkspaceSpec /\ DeskSpec /\ AnalysisSpec /\ LinksSpec
<1>1. Init => ReportInit /\ PostInit /\ WorkspaceInit /\ DeskInit /\ AnalysisInit /\ LinksInit
  BY DEF Init
<1> QED BY <1>1, PartsStep, PTL DEF Spec, AllVars, ReportSpec, PostSpec, WorkspaceSpec, DeskSpec, AnalysisSpec,
           LinksSpec

(* No page waits for a request that is over, and the assistant, the post and  *)
(* the analysis panel, unlike the desk's lists, show every one that is not,   *)
(* whatever the requests, texts, items and runs: SpinnersEnd.                 *)
THEOREM AllSpinnersEnd == Spec => []SpinnersEnd
BY PartsAlone, ChatThinks, ButtonsFollow, DeskFlags, SpinnerStands, PTL DEF SpinnersEnd
===============================================================================
