----------------------------- MODULE AIModeration -----------------------------
(***************************************************************************)
(* What the submission of a problem sets off: the request that stores it   *)
(* queues an analysis and a search for duplicates in Celery before its own *)
(* transaction commits, a worker runs them, and administrators start       *)
(* further analyses of the problem on demand.                              *)
(*                                                                         *)
(* One problem; the rows of different problems do not meet.  An analysis   *)
(* is four steps: load (the problem and the latest version), insert the    *)
(* RUNNING row and commit, call the model and commit the outcome, read the *)
(* row back and answer.  Celery acknowledges a message when it is taken,   *)
(* so a worker that dies loses it; an exception queues it again, a bounded *)
(* number of times, after a delay that outlasts the submitting request.    *)
(*                                                                         *)
(* Left out: what the model answers, the content hash, and the cooldown    *)
(* and cache that may spare an administrator's analysis (a forced request  *)
(* passes both, so nothing else could happen); deletion of the problem;    *)
(* the links the search finds (DuplicateMerge).                            *)
(***************************************************************************)
EXTENDS Naturals, FiniteSets

CONSTANTS
  AdminSessions, Worker,   \* who runs analyses
  TaskRuns, AdminRuns,     \* bound the analyses of the task and of admins
  Queued,                  \* the placeholder in problems.ai_insight
  MaxFaults                \* bounds crashes, timeouts and refused messages

Runs == TaskRuns \cup AdminRuns
Sessions == AdminSessions \cup {Worker}
RunsOf(s) == IF s = Worker THEN TaskRuns ELSE AdminRuns
Kinds == {"analyze", "detect"}

ASSUME SessionsAssumption == Worker \notin AdminSessions
ASSUME RunsAssumption ==
  TaskRuns \cap AdminRuns = {} /\ IsFiniteSet(Runs) /\ Queued \notin Runs
ASSUME FaultsAssumption == MaxFaults \in Nat

VARIABLES
  problem,     \* the submitted row: "none", "pending" (not committed), ...
  task,        \* the Celery message of each kind and its retries so far
  analysis,    \* rows of problem_ai_analyses
  insight,     \* the analysis shown in problems.ai_insight
  searched,    \* whether the search for duplicates has run on the problem
  session,     \* what each session is in the middle of
  overlapped,  \* history: two sessions have analysed at the same time
  unheard,     \* history: outcomes committed, then struck by a fault
  faults       \* history: number of faults

vars ==
  <<problem, task, analysis, insight, searched, session, overlapped, unheard, faults>>

NoAnalysis == [status |-> "none"]
Idle == [step |-> "idle"]
Settled == {"completed", "failed"}

\* celery: max_retries of the two tasks.  Mutant: the analysis is not retried.
MaxRetries_NoneForAnalysis(kind) == IF kind = "analyze" THEN 0 ELSE 3
MaxRetries(kind) == IF kind = "analyze" THEN 2 ELSE 3

Message == [state : {"none", "queued", "taken", "done"}, tries : 0..3]
Row == {NoAnalysis} \cup [version : Nat, status : {"running"} \cup Settled]
Work ==
  {Idle} \cup [step : {"loaded"}, version : Nat]
         \cup [step : {"running", "stored"}, run : Runs]

TypeOK ==
  /\ problem \in {"none", "pending", "committed", "rolled_back"}
  /\ task \in [Kinds -> Message]
  /\ analysis \in [Runs -> Row]
  /\ insight \in Runs \cup {Queued}
  /\ searched \in BOOLEAN
  /\ session \in [Sessions -> Work]
  /\ overlapped \in BOOLEAN
  /\ unheard \subseteq Runs
  /\ faults \in 0..MaxFaults

Init ==
  /\ problem = "none"
  /\ task = [k \in Kinds |-> [state |-> "none", tries |-> 0]]
  /\ analysis = [r \in Runs |-> NoAnalysis]
  /\ insight = Queued
  /\ searched = FALSE
  /\ session = [s \in Sessions |-> Idle]
  /\ overlapped = FALSE
  /\ unheard = {}
  /\ faults = 0

Existing == {r \in Runs : analysis[r] # NoAnalysis}

\* Mutant of Active: nothing counts as running.
Active_None == {}

Active == {r \in Existing : analysis[r].status = "running"}

-----------------------------------------------------------------------------
(* The submitting request: POST /problems *)

\* A message the broker refuses is given up silently.
Submit ==
  /\ problem = "none" /\ problem' = "pending"
  /\ \E lost \in SUBSET Kinds :
       /\ lost # {} => faults < MaxFaults
       /\ faults' = IF lost = {} THEN faults ELSE faults + 1
       /\ task' = [k \in Kinds |->
                     [state |-> IF k \in lost THEN "done" ELSE "queued", tries |-> 0]]
  /\ UNCHANGED <<analysis, insight, searched, session, overlapped, unheard>>

EndSubmission ==
  /\ problem = "pending" /\ problem' \in {"committed", "rolled_back"}
  /\ UNCHANGED <<task, analysis, insight, searched, session, overlapped, unheard, faults>>

-----------------------------------------------------------------------------
(* Celery messages *)

Done(kind) == task' = [task EXCEPT ![kind].state = "done"]

Retry(kind) ==
  IF task[kind].tries < MaxRetries(kind)
  THEN task' = [task EXCEPT ![kind] = [state |-> "queued", tries |-> @.tries + 1]]
  ELSE Done(kind)

\* The delay before a retry (10 s and more) outlasts the submitting request.
Deliverable(kind) ==
  task[kind].state = "queued" /\ (task[kind].tries > 0 => problem # "pending")

\* The search: a problem it cannot see is an answer, not an exception, and the
\* task is not retried.
DetectDuplicates ==
  /\ Deliverable("detect") /\ Done("detect")
  /\ searched' = (searched \/ problem = "committed")
  /\ UNCHANGED <<problem, analysis, insight, session, overlapped, unheard, faults>>

\* "Duplicate job protection": some analysis is running.
SkipAnalysis ==
  /\ Deliverable("analyze") /\ Active # {} /\ Done("analyze")
  /\ UNCHANGED <<problem, analysis, insight, searched, session, overlapped, unheard, faults>>

\* A problem that cannot be seen is an exception: the task is retried.
AnalysisTooEarly ==
  /\ Deliverable("analyze") /\ Active = {}
  /\ problem # "committed" /\ Retry("analyze")
  /\ UNCHANGED <<problem, analysis, insight, searched, session, overlapped, unheard, faults>>

-----------------------------------------------------------------------------
(* An analysis *)

Version(r) == analysis[r].version

\* Mutant of Latest: unfinished and failed analyses are not counted.
Latest_Completed(v) ==
  LET counted == {r \in Existing : analysis[r].status = "completed"}
  IN  \/ counted = {} /\ v = 0
      \/ \E r \in counted : v = Version(r) /\ \A q \in counted : Version(q) <= v

\* get_latest_analysis: the highest version, 0 if there is no analysis.
Latest(v) ==
  \/ Existing = {} /\ v = 0
  \/ \E r \in Existing : v = Version(r) /\ \A q \in Existing : Version(q) <= v

LoadProblem(s) ==
  /\ session[s] = Idle /\ problem = "committed"
  /\ \E v \in {0} \cup {Version(r) : r \in Existing} :
       /\ Latest(v)
       /\ session' = [session EXCEPT ![s] = [step |-> "loaded", version |-> v + 1]]
  /\ overlapped' = (overlapped \/ \E other \in Sessions :
                                    session[other].step \in {"loaded", "running"})
  /\ UNCHANGED <<problem, analysis, insight, searched, unheard, faults>>

BeginTask ==
  /\ Deliverable("analyze") /\ Active = {}
  /\ LoadProblem(Worker)
  /\ task' = [task EXCEPT !["analyze"].state = "taken"]

\* POST /admin/problems/{id}/ai-analysis and .../reanalyze-ai: whether another
\* analysis is running is not looked at.  The first conjunct is the bound; idle
\* sessions are alike, so that one of them is enough.
BeginOnDemand(s) ==
  /\ Cardinality(AdminRuns \ Existing)
       > Cardinality({a \in AdminSessions : session[a].step = "loaded"})
  /\ s = CHOOSE a \in AdminSessions : session[a] = Idle
  /\ s # Worker /\ LoadProblem(s)
  /\ UNCHANGED task

\* Rows not yet used are alike: which of them is inserted does not matter.
InsertRunning(s) ==
  /\ session[s].step = "loaded" /\ RunsOf(s) \ Existing # {}
  /\ LET r == CHOOSE fresh \in RunsOf(s) \ Existing : TRUE
     IN  /\ analysis' = [analysis EXCEPT ![r] =
                            [version |-> session[s].version, status |-> "running"]]
         /\ session' = [session EXCEPT ![s] = [step |-> "running", run |-> r]]
  /\ UNCHANGED <<problem, task, insight, searched, overlapped, unheard, faults>>

\* The outcome is written to the row and committed.
Store(s, outcome) ==
  /\ session[s].step = "running"
  /\ analysis' = [analysis EXCEPT ![session[s].run].status = outcome]
  /\ session' = [session EXCEPT ![s].step = "stored"]
  /\ UNCHANGED <<problem, task, searched, overlapped, unheard, faults>>

Complete(s) == Store(s, "completed") /\ insight' = session[s].run

\* Mutants of Fail: the outcome is shown; it is not stored.
Fail_Shown(s) == Store(s, "failed") /\ insight' = session[s].run
Fail_NotStored(s) == Store(s, "running") /\ UNCHANGED insight

\* Whatever the model or the pipeline raises is recorded in the row.
Fail(s) == Store(s, "failed") /\ UNCHANGED insight

\* The row is read back and answered; the worker's message is finished.
Finish(s) ==
  /\ session[s].step = "stored"
  /\ session' = [session EXCEPT ![s] = Idle]
  /\ IF s = Worker THEN Done("analyze") ELSE UNCHANGED task
  /\ UNCHANGED <<problem, analysis, insight, searched, overlapped, unheard, faults>>

-----------------------------------------------------------------------------
(* Faults: a worker killed (crash, task_time_limit) or cut off from the      *)
(* database, a request that times out (its analysis is cancelled) or dies    *)

Fault == faults < MaxFaults /\ faults' = faults + 1

\* An exception that leaves the task queues its message again, except that a
\* RuntimeError has it start over at once, which is not counted as a try.
Abort(s) ==
  /\ Fault /\ session[s] # Idle
  /\ session' = [session EXCEPT ![s] = Idle]
  /\ unheard' = IF session[s].step = "stored" THEN unheard \cup {session[s].run} ELSE unheard
  /\ IF s = Worker
     THEN \/ Done("analyze") \/ Retry("analyze")
          \/ task' = [task EXCEPT !["analyze"].state = "queued"]
     ELSE UNCHANGED task
  /\ UNCHANGED <<problem, analysis, insight, searched, overlapped>>

\* Reading a completed row back fails inside the try that recorded it: should
\* the database answer again, the row is stored as FAILED although it is shown.
RefreshFails(s) ==
  /\ Fault /\ session[s].step = "stored"
  /\ analysis[session[s].run].status = "completed"
  /\ analysis' = [analysis EXCEPT ![session[s].run].status = "failed"]
  /\ unheard' = unheard \cup {session[s].run}
  /\ UNCHANGED <<problem, task, insight, searched, session, overlapped>>

AbortDetection ==
  /\ Fault /\ Deliverable("detect")
  /\ Done("detect") \/ Retry("detect")
  /\ UNCHANGED <<problem, analysis, insight, searched, session, overlapped, unheard>>

-----------------------------------------------------------------------------
Next ==
  \/ Submit \/ EndSubmission
  \/ DetectDuplicates \/ SkipAnalysis \/ AnalysisTooEarly \/ BeginTask
  \/ \E s \in AdminSessions : BeginOnDemand(s)
  \/ \E s \in Sessions : InsertRunning(s) \/ Complete(s) \/ Fail(s) \/ Finish(s)
  \/ \E s \in Sessions : Abort(s) \/ RefreshFails(s)
  \/ AbortDetection

\* Requests end, and Celery delivers what is queued to a worker that runs.
Fairness ==
  /\ WF_vars(EndSubmission)
  /\ WF_vars(DetectDuplicates)
  /\ WF_vars(SkipAnalysis \/ AnalysisTooEarly \/ BeginTask)
  /\ \A s \in Sessions :
       WF_vars(InsertRunning(s)) /\ WF_vars(Complete(s) \/ Fail(s)) /\ WF_vars(Finish(s))

Spec == Init /\ [][Next]_vars /\ Fairness

-----------------------------------------------------------------------------
\* What citizens and administrators are shown is the placeholder or the outcome
\* of a completed analysis: both are written in one transaction.  The exception
\* is an outcome that could not be read back and was then stored as FAILED.
InsightFromCompleted ==
  insight # Queued => analysis[insight].status = "completed" \/ insight \in unheard

\* A task that is retried does not analyse the problem a second time: the guard
\* finds the RUNNING row the first attempt has left.  It does only when a fault
\* struck after the first outcome's commit, when there is no such row.
OneTaskAnalysis ==
  \A r, q \in TaskRuns \cap Existing : r = q \/ {r, q} \cap unheard # {}

\* A row stays RUNNING without anybody working on it only after a fault, one
\* row for each: every exception is caught and recorded.
OrphansFromFaults ==
  Cardinality({r \in Active : \A s \in Sessions : session[s] # [step |-> "running", run |-> r]})
    <= faults

\* As long as analyses do not overlap, versions are not given twice and the
\* insight shown is that of the latest completed one.
VersionsInOrder ==
  ~overlapped =>
    /\ \A r, q \in Existing : Version(r) = Version(q) => r = q
    /\ \A r \in Existing : analysis[r].status = "completed" =>
         insight # Queued /\ Version(r) <= Version(insight)

\* A submitted problem is analysed, even if the task outruns the commit of the
\* submission or meets an administrator's analysis.
SubmissionAnalysed ==
  problem = "committed" ~>
    (faults > 0 \/ \E r \in Existing : analysis[r].status \in Settled)

\* "enqueue duplicate detection task after DB commit": a submitted problem is
\* searched for duplicates.  The task is queued before the commit.
SubmissionSearched == problem = "committed" ~> (faults > 0 \/ searched)
=============================================================================
