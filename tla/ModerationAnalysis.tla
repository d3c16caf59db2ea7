-------------------------- MODULE ModerationAnalysis --------------------------
(* The panel the moderation list shows under each problem, first part: the    *)
(* analysis of the problem by the AI pipeline (useAIAnalysis).  The list      *)
(* takes the panel away and brings it back whenever it is loaded again; the   *)
(* runs asked for by a panel taken away go on.                                *)
EXTENDS Naturals

CONSTANTS
  MaxRuns,   \* bound on the runs of the pipeline
  NotRead    \* the request was not looked at yet

RunResults == [n : Nat, ok : BOOLEAN]
ASSUME RunsAssumption == NotRead \notin RunResults /\ MaxRuns \in Nat

VARIABLES
  card,     \* the component's own state
  asks,      \* requests on their way: the fetch of the latest run, and runs
  latest,    \* the newest run stored: its number and whether it succeeded
  runs       \* runs asked for

analysisVars == <<card, asks, latest, runs>>

NoRun == [n |-> 0, ok |-> TRUE]

Unmounted == [mounted |-> FALSE, shows |-> NoRun, error |-> FALSE, checking |-> FALSE,
         generating |-> FALSE, accepted |-> FALSE]

AnalysisInit ==
  /\ card = Unmounted /\ asks = {} /\ runs = 0
  /\ latest \in {NoRun, [n |-> 1, ok |-> TRUE]}

Fetch == [kind |-> "fetch", n |-> 0, live |-> TRUE, seen |-> NotRead]

(* The panel appears and fetches the latest run.                              *)
Mount ==
  /\ ~card.mounted
  /\ card' = [Unmounted EXCEPT !.mounted = TRUE, !.checking = TRUE]
  /\ asks' = asks \cup {Fetch}
  /\ UNCHANGED <<latest, runs>>

Unmount ==
  /\ card.mounted /\ card' = Unmounted
  /\ asks' = {[a EXCEPT !.live = FALSE] : a \in {a \in asks : a.kind = "run"}}
  /\ UNCHANGED <<latest, runs>>
-------------------------------------------------------------------------------
(* What of the panel is on screen.                                            *)
View ==
  IF ~card.mounted THEN "nothing" ELSE IF card.checking THEN "checking"
  ELSE IF card.generating THEN "generating"
  ELSE IF card.error \/ ~card.shows.ok THEN "error"
  ELSE IF card.shows = NoRun THEN "empty" ELSE "result"

(* The endpoint answers with the newest run stored.                           *)
ReadLatest(a) ==
  /\ a.kind = "fetch" /\ a.seen = NotRead
  /\ asks' = (asks \ {a}) \cup {[a EXCEPT !.seen = latest]}
  /\ UNCHANGED <<card, runs, latest>>

Checked(a) ==
  /\ a.kind = "fetch" /\ a.seen # NotRead /\ asks' = asks \ {a}
  /\ card' = [card EXCEPT !.checking = FALSE,
                 !.shows = IF a.seen = NoRun THEN @ ELSE a.seen]
  /\ UNCHANGED <<runs, latest>>

CheckFails(a) ==
  /\ a.kind = "fetch" /\ asks' = asks \ {a} /\ card' = [card EXCEPT !.checking = FALSE]
  /\ UNCHANGED <<runs, latest>>

Run == [kind |-> "run", n |-> runs, live |-> TRUE, seen |-> NotRead]

\* Mutant of Generate: the buttons are there while the latest run is fetched.
Generate_WhileChecking ==
  /\ View \in {"checking", "error", "empty", "result"} /\ runs < MaxRuns
  /\ asks' = asks \cup {Run} /\ runs' = runs + 1
  /\ card' = [card EXCEPT !.generating = TRUE, !.error = FALSE]
  /\ UNCHANGED latest

(* "Generate", "Retry" and "Regenerate".                                      *)
Generate ==
  /\ View \in {"error", "empty", "result"} /\ runs < MaxRuns
  /\ asks' = asks \cup {Run} /\ runs' = runs + 1
  /\ card' = [card EXCEPT !.generating = TRUE, !.error = FALSE]
  /\ UNCHANGED latest

(* The pipeline stores its run, a failed one too.                             *)
StoreRun(a, ok) ==
  /\ a.kind = "run" /\ a.seen = NotRead
  /\ latest' = [n |-> latest.n + 1, ok |-> ok]
  /\ asks' = (asks \ {a}) \cup {[a EXCEPT !.seen = latest']}
  /\ UNCHANGED <<card, runs>>

(* A failed run is answered with an error.                                    *)
Generated(a) ==
  /\ a.kind = "run" /\ a.seen # NotRead /\ asks' = asks \ {a}
  /\ card' = IF ~a.live THEN card
              ELSE [card EXCEPT !.generating = FALSE, !.error = ~a.seen.ok,
                                 !.shows = IF a.seen.ok THEN a.seen ELSE @]
  /\ UNCHANGED <<runs, latest>>

(* Refused (cooldown, no key), timed out, or the answer is lost.              *)
GenerateFails(a) ==
  /\ a.kind = "run" /\ asks' = asks \ {a}
  /\ card' = IF a.live THEN [card EXCEPT !.generating = FALSE, !.error = TRUE] ELSE card
  /\ UNCHANGED <<runs, latest>>

(* Nothing is sent: the list gives the panel no onCategoryAccepted.           *)
AcceptCategory ==
  /\ View = "result" /\ ~card.accepted
  /\ card' = [card EXCEPT !.accepted = TRUE]
  /\ UNCHANGED <<asks, latest, runs>>
-------------------------------------------------------------------------------
AnalysisNext ==
  \/ Mount \/ Unmount \/ Generate \/ AcceptCategory
  \/ \E a \in asks : ReadLatest(a) \/ Checked(a) \/ CheckFails(a) \/ Generated(a)
       \/ GenerateFails(a) \/ \E ok \in BOOLEAN : StoreRun(a, ok)

AnalysisSpec == AnalysisInit /\ [][AnalysisNext]_analysisVars
-------------------------------------------------------------------------------
(* The run shown never gives way to an older one: not to the fetch begun when *)
(* the panel appeared, whose answer may be late, nor to a run asked for by a  *)
(* panel taken away since.                                                    *)
NewestRunShown ==
  [][card.mounted /\ card'.mounted => card'.shows.n >= card.shows.n]_analysisVars

(* The panel does not stay at "checking" or "analyzing": it does so exactly   *)
(* while a request of its own, not of a panel before it, is on its way.       *)
PanelAnswers ==
  card.checking \/ card.generating <=> \E a \in asks : a.live
===============================================================================
