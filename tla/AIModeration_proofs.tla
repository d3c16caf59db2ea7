------------------------- MODULE AIModeration_proofs -------------------------
(***************************************************************************)
(* Proofs about analyses of a submission, with any number of sessions,     *)
(* analyses and faults.                                                    *)
(***************************************************************************)
EXTENDS AIModeration, FiniteSetTheorems, TLAPS

-----------------------------------------------------------------------------
(* Types *)

LEMMA RowFields ==
  ASSUME NEW a \in Row
  PROVE  /\ a # NoAnalysis <=> a.status \in {"running"} \cup Settled
         /\ a # NoAnalysis => a.version \in Nat
  BY DEF Row, NoAnalysis, Settled

LEMMA WorkFields ==
  ASSUME NEW x \in Work
  PROVE  /\ x = Idle <=> x.step \notin {"loaded", "running", "stored"}
         /\ x.step = "loaded" => x.version \in Nat
         /\ x.step \in {"running", "stored"} =>
              x.run \in Runs /\ x = [step |-> x.step, run |-> x.run]
  BY DEF Work, Idle

\* The analysis that a session finishes is a row it may write.
LEMMA RunsOfSession == \A s \in Sessions : RunsOf(s) \subseteq Runs
  BY DEF RunsOf, Runs

LEMMA LatestTyped ==
  ASSUME TypeOK, NEW v \in {0} \cup {Version(r) : r \in Existing}
  PROVE  v \in Nat
  BY RowFields DEF TypeOK, Existing, Version, Row

LEMMA MessageTyped ==
  ASSUME TypeOK, NEW k \in Kinds, Done(k) \/ Retry(k)
  PROVE  task' \in [Kinds -> Message]
<1>1. task \in [Kinds -> Message]
  BY DEF TypeOK, Message
<1>2. MaxRetries(k) \in 0..3
  BY DEF MaxRetries
<1>3. CASE Done(k)
  BY <1>1, <1>3 DEF Done, Message
<1>4. CASE Retry(k) /\ ~Done(k)
  <2>1. task[k].tries < MaxRetries(k)
    BY <1>4 DEF Retry
  <2>2. task' = [task EXCEPT ![k] = [state |-> "queued", tries |-> task[k].tries + 1]]
    BY <1>4, <2>1 DEF Retry
  <2>3. task[k].tries \in 0..3
    BY <1>1 DEF Message
  <2>4. [state |-> "queued", tries |-> task[k].tries + 1] \in Message
    BY <1>2, <2>1, <2>3 DEF Message
  <2>. QED
    BY <1>1, <2>2, <2>4
<1>. QED
  BY <1>3, <1>4

\* What an abort does to the message.
LEMMA AbortedMessage ==
  ASSUME TypeOK, NEW s \in Sessions, Abort(s)
  PROVE  task' \in [Kinds -> Message]
<1>1. task \in [Kinds -> Message] /\ "analyze" \in Kinds
  BY DEF TypeOK, Kinds
<1>2. CASE Done("analyze") \/ Retry("analyze")
  BY <1>1, <1>2, MessageTyped
<1>3. CASE task' = [task EXCEPT !["analyze"].state = "queued"]
  BY <1>1, <1>3 DEF Message
<1>4. CASE task' = task
  BY <1>1, <1>4
<1>. QED
  BY <1>2, <1>3, <1>4 DEF Abort

\* Finishing a row keeps its version.
LEMMA OutcomeTyped ==
  ASSUME NEW f \in [Runs -> Row], NEW r \in Runs, f[r] # NoAnalysis, NEW c \in Settled
  PROVE  [f EXCEPT ![r].status = c] \in [Runs -> Row]
<1>1. f[r] \in [version : Nat, status : {"running"} \cup Settled]
  BY DEF Row
<1>2. [f[r] EXCEPT !.status = c] \in [version : Nat, status : {"running"} \cup Settled]
  BY <1>1
<1>. QED
  BY <1>2 DEF Row

Works(s) == session[s].step \in {"running", "stored"}

\* A session works on a row of its own, which says how far it is.
OwnRows ==
  /\ unheard \subseteq Existing
  /\ \A s \in Sessions : Works(s) =>
       /\ session[s].run \in RunsOf(s)
       /\ session[s].step = "running" => analysis[session[s].run].status = "running"
       /\ session[s].step = "stored" => analysis[session[s].run].status \in Settled
       /\ \A other \in Sessions :
            Works(other) /\ session[other].run = session[s].run => other = s

LEMMA TypeInit == Init => TypeOK
<1>. SUFFICES ASSUME Init PROVE TypeOK
  OBVIOUS
<1>1. task \in [Kinds -> Message]
  BY DEF Init, Message
<1>2. analysis \in [Runs -> Row]
  BY DEF Init, Row
<1>3. session \in [Sessions -> Work]
  BY DEF Init, Work
<1>4. 0 \in 0..MaxFaults
  BY FaultsAssumption
<1>5. /\ problem \in {"none", "pending", "committed", "rolled_back"}
      /\ insight \in Runs \cup {Queued} /\ searched \in BOOLEAN
      /\ overlapped \in BOOLEAN /\ unheard \subseteq Runs /\ faults \in 0..MaxFaults
  BY <1>4, Zenon DEF Init
<1>. QED
  BY <1>1, <1>2, <1>3, <1>5, Zenon DEF TypeOK

LEMMA TypeStep == TypeOK /\ OwnRows /\ [Next]_vars => TypeOK'
<1>. SUFFICES ASSUME TypeOK, OwnRows, [Next]_vars
              PROVE  TypeOK'
  OBVIOUS
<1> USE FaultsAssumption
<1>a. /\ analysis \in [Runs -> Row] /\ session \in [Sessions -> Work]
      /\ task \in [Kinds -> Message]
  BY DEF TypeOK
<1>b. "analyze" \in Kinds /\ "detect" \in Kinds /\ Worker \in Sessions /\ Idle \in Work
  BY DEF Kinds, Sessions, Work
<1>1. CASE Submit
  <2>1. PICK lost \in SUBSET Kinds :
          /\ lost # {} => faults < MaxFaults
          /\ faults' = IF lost = {} THEN faults ELSE faults + 1
          /\ task' = [k \in Kinds |->
                        [state |-> IF k \in lost THEN "done" ELSE "queued", tries |-> 0]]
    BY <1>1 DEF Submit
  <2>2. task' \in [Kinds -> Message]
    BY <2>1 DEF Message
  <2>3. faults' \in 0..MaxFaults
    BY <2>1 DEF TypeOK
  <2>. QED
    BY <1>1, <2>2, <2>3 DEF Submit, TypeOK
<1>2. CASE EndSubmission
  BY <1>2 DEF EndSubmission, TypeOK
<1>3. CASE DetectDuplicates
  BY <1>3, <1>b, MessageTyped DEF DetectDuplicates, TypeOK
<1>4. CASE SkipAnalysis
  BY <1>4, <1>b, MessageTyped DEF SkipAnalysis, TypeOK
<1>5. CASE AnalysisTooEarly
  BY <1>5, <1>b, MessageTyped DEF AnalysisTooEarly, TypeOK
<1>6. ASSUME NEW s \in Sessions, LoadProblem(s)
      PROVE  session' \in [Sessions -> Work] /\ overlapped' \in BOOLEAN
  <2>1. PICK v \in {0} \cup {Version(r) : r \in Existing} :
          session' = [session EXCEPT ![s] = [step |-> "loaded", version |-> v + 1]]
    BY <1>6 DEF LoadProblem
  <2>2. v + 1 \in Nat
    BY LatestTyped
  <2>3. [step |-> "loaded", version |-> v + 1] \in Work
    BY <2>2 DEF Work
  <2>. QED
    BY <1>6, <1>a, <2>1, <2>3 DEF LoadProblem, TypeOK
<1>7. CASE BeginTask
  <2>1. task' \in [Kinds -> Message]
    BY <1>7, <1>a, <1>b DEF BeginTask, Message
  <2>. QED
    BY <1>7, <1>6, <1>b, <2>1 DEF BeginTask, LoadProblem, TypeOK
<1>8. ASSUME NEW s \in AdminSessions, BeginOnDemand(s)
      PROVE  TypeOK'
  <2>1. s \in Sessions
    BY DEF Sessions
  <2>. QED
    BY <1>8, <1>6, <2>1 DEF BeginOnDemand, LoadProblem, TypeOK
<1>9. ASSUME NEW s \in Sessions, InsertRunning(s)
      PROVE  TypeOK'
  <2>1. PICK r \in RunsOf(s) \ Existing :
          /\ analysis' = [analysis EXCEPT ![r] =
                            [version |-> session[s].version, status |-> "running"]]
          /\ session' = [session EXCEPT ![s] = [step |-> "running", run |-> r]]
    BY <1>9, Zenon DEF InsertRunning
  <2>2. [version |-> session[s].version, status |-> "running"] \in Row
    BY <1>9, <1>a, WorkFields DEF InsertRunning, Row
  <2>3. r \in Runs /\ [step |-> "running", run |-> r] \in Work
    BY RunsOfSession DEF Work
  <2>4. analysis' \in [Runs -> Row] /\ session' \in [Sessions -> Work]
    BY <1>a, <2>1, <2>2, <2>3
  <2>5. UNCHANGED <<problem, task, insight, searched, overlapped, unheard, faults>>
    BY <1>9 DEF InsertRunning
  <2>. QED
    BY <2>4, <2>5 DEF TypeOK
<1>10. ASSUME NEW s \in Sessions, Complete(s) \/ Fail(s)
       PROVE  TypeOK'
  <2>1. PICK c \in Settled : Store(s, c)
    BY <1>10 DEF Complete, Fail, Settled
  <2>2. /\ session[s].step = "running" /\ session[s].run \in Runs
        /\ session[s] = [step |-> "running", run |-> session[s].run]
    BY <2>1, <1>a, WorkFields DEF Store
  <2>3. analysis[session[s].run] # NoAnalysis
    BY <2>2 DEF OwnRows, Works, NoAnalysis
  <2>4. analysis' \in [Runs -> Row]
    BY <1>a, <2>1, <2>2, <2>3, OutcomeTyped DEF Store
  <2>5. [session[s] EXCEPT !.step = "stored"] = [step |-> "stored", run |-> session[s].run]
    BY <2>2
  <2>6. session' = [session EXCEPT ![s] = [session[s] EXCEPT !.step = "stored"]]
    BY <2>1 DEF Store
  <2>7. session' \in [Sessions -> Work]
    BY <1>a, <2>2, <2>5, <2>6 DEF Work
  <2>8. insight' \in Runs \cup {Queued}
    BY <1>10, <2>2 DEF Complete, Fail, TypeOK
  <2>. QED
    BY <2>1, <2>4, <2>7, <2>8 DEF Store, TypeOK
<1>11. ASSUME NEW s \in Sessions, Finish(s)
       PROVE  TypeOK'
  <2>1. task' \in [Kinds -> Message] /\ session' \in [Sessions -> Work]
    BY <1>11, <1>a, <1>b, MessageTyped DEF Finish
  <2>. QED
    BY <1>11, <2>1 DEF Finish, TypeOK
<1>14. ASSUME NEW s \in Sessions, Abort(s)
       PROVE  TypeOK'
  <2>1. task' \in [Kinds -> Message]
    BY <1>14, AbortedMessage
  <2>2. session' \in [Sessions -> Work]
    BY <1>14, <1>a, <1>b DEF Abort
  <2>3. unheard' \subseteq Runs
    BY <1>14, <1>a, WorkFields DEF Abort, TypeOK
  <2>. QED
    BY <1>14, <2>1, <2>2, <2>3 DEF Abort, Fault, TypeOK
<1>15. ASSUME NEW s \in Sessions, RefreshFails(s)
       PROVE  TypeOK'
  <2>1. session[s].run \in Runs
    BY <1>15, <1>a, WorkFields DEF RefreshFails
  <2>2. analysis[session[s].run] # NoAnalysis /\ "failed" \in Settled
    BY <1>15 DEF RefreshFails, NoAnalysis, Settled
  <2>3. analysis' \in [Runs -> Row]
    BY <1>15, <1>a, <2>1, <2>2, OutcomeTyped DEF RefreshFails
  <2>. QED
    BY <1>15, <2>1, <2>3 DEF RefreshFails, Fault, TypeOK
<1>12. CASE AbortDetection
  <2>1. task' \in [Kinds -> Message]
    BY <1>12, <1>b, MessageTyped DEF AbortDetection
  <2>. QED
    BY <1>12, <2>1 DEF AbortDetection, Fault, TypeOK
<1>13. CASE UNCHANGED vars
  BY <1>13 DEF vars, TypeOK
<1>. QED
  BY <1>1, <1>2, <1>3, <1>4, <1>5, <1>7, <1>8, <1>9, <1>10, <1>11, <1>12, <1>13, <1>14, <1>15
  DEF Next

-----------------------------------------------------------------------------
(* What the steps do to sessions and rows *)

LEMMA LoadEffect ==
  ASSUME TypeOK, NEW s \in Sessions, LoadProblem(s)
  PROVE  /\ session[s] = Idle /\ problem = "committed"
         /\ UNCHANGED <<analysis, insight, problem, unheard>>
         /\ \E v \in Nat : Latest(v) /\ session'[s] = [step |-> "loaded", version |-> v + 1]
         /\ \A t \in Sessions \ {s} : session'[t] = session[t]
<1>1. PICK v \in {0} \cup {Version(r) : r \in Existing} :
        /\ Latest(v)
        /\ session' = [session EXCEPT ![s] = [step |-> "loaded", version |-> v + 1]]
  BY DEF LoadProblem
<1>2. v \in Nat
  BY LatestTyped
<1>3. session \in [Sessions -> Work]
  BY DEF TypeOK
<1>. QED
  BY <1>1, <1>2, <1>3 DEF LoadProblem

LEMMA InsertEffect ==
  ASSUME TypeOK, NEW s \in Sessions, InsertRunning(s)
  PROVE  /\ session[s].step = "loaded"
         /\ UNCHANGED <<insight, problem, task, overlapped, unheard>>
         /\ \E r \in RunsOf(s) \ Existing :
              /\ r \in Runs
              /\ analysis'[r] = [version |-> session[s].version, status |-> "running"]
              /\ \A q \in Runs \ {r} : analysis'[q] = analysis[q]
              /\ session'[s] = [step |-> "running", run |-> r]
              /\ \A t \in Sessions \ {s} : session'[t] = session[t]
              /\ Existing' = Existing \cup {r}
<1>1. PICK r \in RunsOf(s) \ Existing :
        /\ analysis' = [analysis EXCEPT ![r] =
                          [version |-> session[s].version, status |-> "running"]]
        /\ session' = [session EXCEPT ![s] = [step |-> "running", run |-> r]]
  BY Zenon DEF InsertRunning
<1>2. /\ session \in [Sessions -> Work] /\ analysis \in [Runs -> Row] /\ r \in Runs
  BY RunsOfSession DEF TypeOK
<1>3. /\ analysis'[r] = [version |-> session[s].version, status |-> "running"]
      /\ \A q \in Runs \ {r} : analysis'[q] = analysis[q]
      /\ session'[s] = [step |-> "running", run |-> r]
      /\ \A t \in Sessions \ {s} : session'[t] = session[t]
  BY <1>1, <1>2
<1>4. analysis'[r] # NoAnalysis
  BY <1>3 DEF NoAnalysis
<1>5. Existing' = Existing \cup {r}
  BY <1>2, <1>3, <1>4 DEF Existing
<1>. QED
  BY <1>2, <1>3, <1>5 DEF InsertRunning

\* A row that is there gets another status.
Restated(r, c) ==
  /\ r \in Existing
  /\ analysis'[r].status = c
  /\ analysis'[r].version = Version(r)
  /\ \A q \in Runs \ {r} : analysis'[q] = analysis[q]
  /\ Existing' = Existing

LEMMA Restating ==
  ASSUME TypeOK, NEW r \in Existing, NEW c \in {"running"} \cup Settled,
         analysis' = [analysis EXCEPT ![r].status = c]
  PROVE  Restated(r, c)
<1>1. analysis \in [Runs -> Row] /\ r \in Runs
  BY DEF TypeOK, Existing
<1>2. analysis[r] \in [version : Nat, status : {"running"} \cup Settled]
  BY <1>1 DEF Row, Existing
<1>3. analysis' = [analysis EXCEPT ![r] = [analysis[r] EXCEPT !.status = c]]
  OBVIOUS
<1>4. /\ analysis'[r] = [analysis[r] EXCEPT !.status = c]
      /\ \A q \in Runs \ {r} : analysis'[q] = analysis[q]
  BY <1>1, <1>3
<1>5. analysis'[r].status = c /\ analysis'[r].version = analysis[r].version
  BY <1>2, <1>4
<1>6. analysis'[r] # NoAnalysis
  BY <1>5 DEF NoAnalysis, Settled
<1>7. Existing' = Existing
  BY <1>1, <1>4, <1>6 DEF Existing
<1>. QED
  BY <1>4, <1>5, <1>7 DEF Restated, Version

\* The row of a session that works is there.
LEMMA WorkedRow ==
  ASSUME TypeOK, OwnRows, NEW s \in Sessions, Works(s)
  PROVE  session[s].run \in RunsOf(s) \cap Existing
<1>1. session[s].run \in RunsOf(s) /\ session[s].run \in Runs
  BY RunsOfSession DEF OwnRows
<1>2. analysis[session[s].run] # NoAnalysis
  BY DEF OwnRows, Works, NoAnalysis, Settled
<1>. QED
  BY <1>1, <1>2 DEF Existing

LEMMA StoreEffect ==
  ASSUME TypeOK, OwnRows, NEW s \in Sessions, Complete(s) \/ Fail(s)
  PROVE  /\ session[s] = [step |-> "running", run |-> session[s].run]
         /\ session'[s] = [step |-> "stored", run |-> session[s].run]
         /\ \A t \in Sessions \ {s} : session'[t] = session[t]
         /\ UNCHANGED <<problem, task, overlapped, unheard, faults>>
         /\ session[s].run \in RunsOf(s) \cap Existing
         /\ \/ insight' = insight /\ Restated(session[s].run, "failed")
            \/ insight' = session[s].run /\ Restated(session[s].run, "completed")
<1>1. PICK c \in Settled :
        /\ Store(s, c)
        /\ \/ insight' = insight /\ c = "failed"
           \/ insight' = session[s].run /\ c = "completed"
  BY DEF Complete, Fail, Settled
<1>2. /\ session \in [Sessions -> Work] /\ session[s].step = "running"
  BY <1>1 DEF Store, TypeOK
<1>3. session[s] = [step |-> "running", run |-> session[s].run] /\ Works(s)
  BY <1>2, WorkFields DEF Works
<1>4. session' = [session EXCEPT ![s] = [session[s] EXCEPT !.step = "stored"]]
  BY <1>1 DEF Store
<1>5. [session[s] EXCEPT !.step = "stored"] = [step |-> "stored", run |-> session[s].run]
  BY <1>3
<1>6. /\ session'[s] = [step |-> "stored", run |-> session[s].run]
      /\ \A t \in Sessions \ {s} : session'[t] = session[t]
  BY <1>2, <1>4, <1>5
<1>7. session[s].run \in RunsOf(s) \cap Existing
  BY <1>3, WorkedRow
<1>8. Restated(session[s].run, c)
  BY <1>1, <1>7, Restating DEF Store
<1>. QED
  BY <1>1, <1>3, <1>6, <1>7, <1>8 DEF Store

LEMMA FinishEffect ==
  ASSUME TypeOK, NEW s \in Sessions, Finish(s)
  PROVE  /\ session[s].step = "stored" /\ session'[s] = Idle
         /\ \A t \in Sessions \ {s} : session'[t] = session[t]
         /\ UNCHANGED <<analysis, insight, problem, overlapped, unheard, faults>>
         /\ Existing' = Existing
  BY DEF Finish, TypeOK, Existing

LEMMA AbortEffect ==
  ASSUME TypeOK, NEW s \in Sessions, Abort(s)
  PROVE  /\ session[s] # Idle /\ session'[s] = Idle
         /\ \A t \in Sessions \ {s} : session'[t] = session[t]
         /\ UNCHANGED <<analysis, insight, problem, overlapped>>
         /\ unheard \subseteq unheard'
         /\ unheard' = IF session[s].step = "stored" THEN unheard \cup {session[s].run}
                       ELSE unheard
  BY DEF Abort, TypeOK

LEMMA RefreshEffect ==
  ASSUME TypeOK, OwnRows, NEW s \in Sessions, RefreshFails(s)
  PROVE  /\ session[s].step = "stored" /\ session' = session
         /\ UNCHANGED <<insight, problem, task, overlapped>>
         /\ session[s].run \in RunsOf(s) \cap Existing
         /\ analysis[session[s].run].status = "completed"
         /\ Restated(session[s].run, "failed")
         /\ unheard' = unheard \cup {session[s].run}
         /\ faults' = faults + 1
<1>1. session[s].run \in RunsOf(s) \cap Existing
  BY WorkedRow DEF RefreshFails, Works
<1>2. Restated(session[s].run, "failed")
  BY <1>1, Restating DEF RefreshFails, Settled
<1>. QED
  BY <1>1, <1>2 DEF RefreshFails, Fault

\* The steps that touch neither a session nor a row.
Quiet ==
  /\ UNCHANGED <<analysis, insight, session, overlapped, unheard>>
  /\ \/ Submit \/ EndSubmission \/ DetectDuplicates \/ SkipAnalysis \/ AnalysisTooEarly
     \/ AbortDetection \/ UNCHANGED vars

LEMMA Steps ==
  ASSUME [Next]_vars
  PROVE  \/ Quiet
         \/ BeginTask
         \/ \E s \in AdminSessions : BeginOnDemand(s)
         \/ \E s \in Sessions : InsertRunning(s) \/ Complete(s) \/ Fail(s)
         \/ \E s \in Sessions : Finish(s) \/ Abort(s) \/ RefreshFails(s)
  BY DEF Next, Quiet, Submit, EndSubmission, DetectDuplicates, SkipAnalysis,
         AnalysisTooEarly, AbortDetection, vars

-----------------------------------------------------------------------------
(* Own rows *)

\* What one session does to its own row leaves the others' alone.
LEMMA OthersApart ==
  ASSUME TypeOK, OwnRows, NEW s \in Sessions, Works(s), NEW t \in Sessions \ {s}, Works(t)
  PROVE  session[t].run \in Runs \ {session[s].run}
  BY RunsOfSession DEF OwnRows

LEMMA OwnRowsStep == TypeOK /\ OwnRows /\ [Next]_vars => OwnRows'
<1>. SUFFICES ASSUME TypeOK, OwnRows, [Next]_vars
              PROVE  OwnRows'
  OBVIOUS
<1>1. CASE Quiet
  BY <1>1 DEF Quiet, OwnRows, Works, Existing
<1>2. ASSUME NEW s \in Sessions, LoadProblem(s)
      PROVE  OwnRows'
  <2>1. PICK v \in Nat : session'[s] = [step |-> "loaded", version |-> v + 1]
    BY <1>2, LoadEffect
  <2>2. session'[s].step = "loaded"
    BY <2>1
  <2>3. /\ UNCHANGED <<analysis, unheard>>
        /\ \A t \in Sessions \ {s} : session'[t] = session[t]
    BY <1>2, LoadEffect
  <2>. QED
    BY <2>2, <2>3 DEF OwnRows, Works, Existing
<1>3. ASSUME NEW s \in Sessions, InsertRunning(s)
      PROVE  OwnRows'
  <2>1. PICK r \in RunsOf(s) \ Existing :
          /\ r \in Runs
          /\ analysis'[r] = [version |-> session[s].version, status |-> "running"]
          /\ \A q \in Runs \ {r} : analysis'[q] = analysis[q]
          /\ session'[s] = [step |-> "running", run |-> r]
          /\ \A t \in Sessions \ {s} : session'[t] = session[t]
          /\ Existing' = Existing \cup {r}
    BY <1>3, InsertEffect
  <2>2. unheard' = unheard
    BY <1>3, InsertEffect
  <2>3. \A t \in Sessions \ {s} : Works(t) =>
          session[t].run \in Runs /\ session[t].run # r
    BY <2>1, WorkedRow DEF Existing
  <2>4. \A t \in Sessions \ {s} : Works(t)' <=> Works(t)
    BY <2>1 DEF Works
  <2>5. session'[s].step = "running" /\ session'[s].run = r
    BY <2>1
  <2>. QED
    BY <2>1, <2>2, <2>3, <2>4, <2>5 DEF OwnRows
<1>4. ASSUME NEW s \in Sessions, Complete(s) \/ Fail(s)
      PROVE  OwnRows'
  <2>1. /\ session[s].step = "running" /\ session'[s].step = "stored"
        /\ session'[s].run = session[s].run /\ unheard' = unheard
        /\ \A t \in Sessions \ {s} : session'[t] = session[t]
        /\ analysis'[session[s].run].status \in Settled
        /\ \A q \in Runs \ {session[s].run} : analysis'[q] = analysis[q]
        /\ Existing' = Existing
    <3>1. /\ session[s] = [step |-> "running", run |-> session[s].run]
          /\ session'[s] = [step |-> "stored", run |-> session[s].run]
          /\ \A t \in Sessions \ {s} : session'[t] = session[t]
          /\ unheard' = unheard
          /\ Restated(session[s].run, "failed") \/ Restated(session[s].run, "completed")
      BY <1>4, StoreEffect, Zenon
    <3>. QED
      BY <3>1 DEF Restated, Settled
  <2>2. \A t \in Sessions : Works(t)' <=> Works(t)
    BY <2>1 DEF Works
  <2>3. \A t \in Sessions \ {s} : Works(t) => session[t].run \in Runs \ {session[s].run}
    BY <2>1, OthersApart DEF Works
  <2>. QED
    BY <2>1, <2>2, <2>3 DEF OwnRows
<1>5. ASSUME NEW s \in Sessions, Finish(s)
      PROVE  OwnRows'
  BY <1>5, FinishEffect DEF OwnRows, Works, Idle
<1>6. ASSUME NEW s \in Sessions, Abort(s)
      PROVE  OwnRows'
  <2>1. /\ session'[s] = Idle /\ analysis' = analysis /\ Existing' = Existing
        /\ \A t \in Sessions \ {s} : session'[t] = session[t]
    BY <1>6, AbortEffect DEF Existing
  <2>2. unheard' \subseteq Existing'
    BY <1>6, <2>1, AbortEffect, WorkedRow DEF OwnRows, Works
  <2>. QED
    BY <2>1, <2>2 DEF OwnRows, Works, Idle
<1>7. ASSUME NEW s \in Sessions, RefreshFails(s)
      PROVE  OwnRows'
  <2>1. /\ session[s].step = "stored" /\ session' = session
        /\ analysis'[session[s].run].status \in Settled
        /\ \A q \in Runs \ {session[s].run} : analysis'[q] = analysis[q]
        /\ Existing' = Existing /\ unheard' \subseteq Existing
    BY <1>7, RefreshEffect DEF Restated, Settled, OwnRows
  <2>2. \A t \in Sessions \ {s} : Works(t) => session[t].run \in Runs \ {session[s].run}
    BY <2>1, OthersApart DEF Works
  <2>. QED
    BY <2>1, <2>2 DEF OwnRows, Works
<1>. QED
  BY Steps, <1>1, <1>2, <1>3, <1>4, <1>5, <1>6, <1>7 DEF BeginTask, BeginOnDemand, Sessions

LEMMA Base == Init => TypeOK /\ OwnRows
  BY TypeInit DEF Init, OwnRows, Works, Idle

LEMMA BaseStep == TypeOK /\ OwnRows /\ [Next]_vars => (TypeOK /\ OwnRows)'
  BY TypeStep, OwnRowsStep

\* Whatever requests, workers and faults do, the rows, the messages and the
\* sessions hold values of their types.
THEOREM TypeCorrect == Spec => []TypeOK
<1>. QED
  BY Base, BaseStep, PTL DEF Spec

-----------------------------------------------------------------------------
(* What is shown *)

LEMMA ShownStep ==
  TypeOK /\ OwnRows /\ InsightFromCompleted /\ [Next]_vars => InsightFromCompleted'
<1>. SUFFICES ASSUME TypeOK, OwnRows, InsightFromCompleted, [Next]_vars
              PROVE  InsightFromCompleted'
  OBVIOUS
<1>1. insight \in Runs \cup {Queued}
  BY DEF TypeOK
<1>2. CASE UNCHANGED <<analysis, insight>> /\ unheard \subseteq unheard'
  BY <1>2 DEF InsightFromCompleted
<1>3. ASSUME NEW s \in Sessions, InsertRunning(s)
      PROVE  InsightFromCompleted'
  <2>1. PICK r \in Runs \ Existing :
          \A q \in Runs \ {r} : analysis'[q] = analysis[q]
    BY <1>3, InsertEffect
  <2>2. analysis[r].status # "completed" /\ r \notin unheard
    BY <2>1 DEF Existing, NoAnalysis, OwnRows
  <2>3. insight' = insight /\ unheard' = unheard
    BY <1>3, InsertEffect
  <2>. QED
    BY <1>1, <2>1, <2>2, <2>3 DEF InsightFromCompleted
<1>4. ASSUME NEW s \in Sessions, Complete(s) \/ Fail(s)
      PROVE  InsightFromCompleted'
  <2>1. /\ session[s] = [step |-> "running", run |-> session[s].run]
        /\ unheard' = unheard
        /\ \/ insight' = insight /\ Restated(session[s].run, "failed")
           \/ insight' = session[s].run /\ Restated(session[s].run, "completed")
    BY <1>4, StoreEffect, Zenon
  <2>2. session[s].step = "running"
    BY <2>1
  <2>3. analysis[session[s].run].status # "completed"
    BY <2>2 DEF OwnRows, Works
  <2>. QED
    BY <1>1, <2>1, <2>3 DEF InsightFromCompleted, Restated
<1>5. ASSUME NEW s \in Sessions, RefreshFails(s)
      PROVE  InsightFromCompleted'
  BY <1>1, <1>5, RefreshEffect DEF InsightFromCompleted, Restated
<1>6. BeginTask \/ (\E s \in AdminSessions : BeginOnDemand(s)) =>
        UNCHANGED <<analysis, insight, unheard>>
  BY DEF BeginTask, BeginOnDemand, LoadProblem
<1>7. (\E s \in Sessions : Finish(s) \/ Abort(s)) =>
        UNCHANGED <<analysis, insight>> /\ unheard \subseteq unheard'
  BY FinishEffect, AbortEffect
<1>. QED
  BY Steps, <1>2, <1>3, <1>4, <1>5, <1>6, <1>7 DEF Quiet

\* Citizens and administrators are only shown the outcome of an analysis that
\* completed, however analyses overlap, fail or die; its row says so, unless it
\* could not be read back.
THEOREM ShownWasCompleted == Spec => []InsightFromCompleted
<1>1. Init => InsightFromCompleted
  BY DEF Init, InsightFromCompleted
<1>. QED
  BY Base, BaseStep, ShownStep, <1>1, PTL DEF Spec

-----------------------------------------------------------------------------
(* The task analyses once *)

TaskRows == TaskRuns \cap Existing

\* The rows of the task that no fault struck after their commit.
Heard == TaskRows \ unheard

\* Nothing happens before the submission; the worker is busy only with the
\* message it has taken; it loads only if the task has no such row; and such a
\* row, of which there is one at most, is running, or about to be answered,
\* until the task is over.
TaskOnce ==
  /\ problem = "none" => Existing = {} /\ \A s \in Sessions : session[s] = Idle
  /\ session[Worker] # Idle => task["analyze"].state = "taken"
  /\ session[Worker].step = "loaded" => Heard = {}
  /\ \A r \in Heard :
       \/ analysis[r].status = "running"
       \/ session[Worker].step = "stored" /\ session[Worker].run = r
       \/ task["analyze"].state = "done"
  /\ \A r, q \in Heard : r = q

LEMMA TaskOnceStep ==
  TypeOK /\ OwnRows /\ TaskOnce /\ [Next]_vars => TaskOnce'
<1>. SUFFICES ASSUME TypeOK, OwnRows, TaskOnce, [Next]_vars
              PROVE  TaskOnce'
  OBVIOUS
<1>a. /\ task \in [Kinds -> Message] /\ session \in [Sessions -> Work]
      /\ analysis \in [Runs -> Row]
      /\ "analyze" \in Kinds /\ "detect" \in Kinds /\ Worker \in Sessions
  BY DEF TypeOK, Kinds, Sessions
<1>1. CASE Quiet
  <2>1. Heard' = Heard /\ Existing' = Existing /\ UNCHANGED <<analysis, session>>
    BY <1>1 DEF Quiet, Heard, TaskRows, Existing
  <2>2. CASE Submit
    <3>1. Heard = {} /\ session[Worker] = Idle /\ problem' # "none"
      BY <1>a, <2>2 DEF Submit, TaskOnce, Heard, TaskRows
    <3>. QED
      BY <2>1, <3>1 DEF TaskOnce, Idle
  <2>3. CASE EndSubmission \/ UNCHANGED vars
    <3>1. task' = task /\ (problem' = "none" => problem = "none")
      BY <2>3 DEF EndSubmission, vars
    <3>. QED
      BY <2>1, <3>1 DEF TaskOnce
  <2>4. CASE DetectDuplicates \/ AbortDetection
    <3>1. problem' = problem /\ task'["analyze"] = task["analyze"]
      BY <1>a, <2>4 DEF DetectDuplicates, AbortDetection, Done, Retry
    <3>. QED
      BY <2>1, <3>1 DEF TaskOnce
  <2>5. CASE SkipAnalysis
    <3>1. /\ problem' = problem /\ task["analyze"].state = "queued"
          /\ task'["analyze"].state = "done"
      BY <1>a, <2>5 DEF SkipAnalysis, Deliverable, Done, Message
    <3>. QED
      BY <2>1, <3>1 DEF TaskOnce
  <2>6. CASE AnalysisTooEarly
    <3>1. problem' = problem /\ task["analyze"].state = "queued" /\ Active = {}
      BY <2>6 DEF AnalysisTooEarly, Deliverable
    <3>3. session[Worker] = Idle
      BY <3>1 DEF TaskOnce
    <3>2. Heard = {}
      BY <3>1, <3>3 DEF TaskOnce, Heard, TaskRows, Active, Idle
    <3>. QED
      BY <2>1, <3>1, <3>2, <3>3 DEF TaskOnce, Idle
  <2>. QED
    BY <1>1, <2>2, <2>3, <2>4, <2>5, <2>6 DEF Quiet
<1>2. CASE BeginTask
  <2>1. /\ task["analyze"].state = "queued" /\ Active = {}
        /\ task'["analyze"].state = "taken"
    BY <1>2, <1>a DEF BeginTask, Deliverable, Message
  <2>3. /\ UNCHANGED <<analysis, problem, unheard>> /\ problem = "committed"
        /\ session[Worker] = Idle
    BY <1>2, <1>a, LoadEffect DEF BeginTask
  <2>2. Heard = {}
    BY <2>1, <2>3 DEF TaskOnce, Heard, TaskRows, Active, Idle
  <2>4. Heard' = {}
    BY <2>2, <2>3 DEF Heard, TaskRows, Existing
  <2>. QED
    BY <2>1, <2>3, <2>4 DEF TaskOnce
<1>3. ASSUME NEW s \in AdminSessions, BeginOnDemand(s)
      PROVE  TaskOnce'
  <2>1. s \in Sessions /\ s # Worker /\ LoadProblem(s) /\ task' = task
    BY <1>3 DEF BeginOnDemand, Sessions
  <2>2. /\ UNCHANGED <<analysis, problem, unheard>> /\ problem = "committed"
        /\ session'[Worker] = session[Worker]
    BY <1>a, <2>1, LoadEffect
  <2>3. Heard' = Heard
    BY <2>2 DEF Heard, TaskRows, Existing
  <2>. QED
    BY <2>1, <2>2, <2>3 DEF TaskOnce
<1>4. ASSUME NEW s \in Sessions, InsertRunning(s)
      PROVE  TaskOnce'
  <2>1. PICK r \in RunsOf(s) \ Existing :
          /\ r \in Runs
          /\ analysis'[r] = [version |-> session[s].version, status |-> "running"]
          /\ \A q \in Runs \ {r} : analysis'[q] = analysis[q]
          /\ session'[s] = [step |-> "running", run |-> r]
          /\ \A t \in Sessions \ {s} : session'[t] = session[t]
          /\ Existing' = Existing \cup {r}
    BY <1>4, InsertEffect
  <2>2. session[s].step = "loaded" /\ UNCHANGED <<problem, task, unheard>>
    BY <1>4, InsertEffect
  <2>3. session[s] # Idle /\ problem # "none"
    BY <2>2 DEF Idle, TaskOnce
  <2>4. CASE s = Worker
    <3>1. Heard = {} /\ Heard' = {r}
      BY <2>1, <2>2, <2>4 DEF TaskOnce, Heard, TaskRows, RunsOf, OwnRows
    <3>2. task["analyze"].state = "taken" /\ session'[Worker].step = "running"
          /\ analysis'[r].status = "running"
      BY <2>1, <2>3, <2>4 DEF TaskOnce
    <3>. QED
      BY <2>2, <2>3, <3>1, <3>2 DEF TaskOnce
  <2>5. CASE s # Worker
    <3>1. Heard' = Heard /\ r \notin Heard
      BY <2>1, <2>2, <2>5, RunsAssumption DEF Heard, TaskRows, RunsOf
    <3>2. /\ session'[Worker] = session[Worker]
          /\ \A q \in Heard : analysis'[q] = analysis[q]
      BY <1>a, <2>1, <2>5, <3>1 DEF Heard, TaskRows, Existing
    <3>. QED
      BY <2>2, <2>3, <3>1, <3>2 DEF TaskOnce
  <2>. QED
    BY <2>4, <2>5
<1>b. \A s \in Sessions \ {Worker} : RunsOf(s) \cap TaskRuns = {}
  BY RunsAssumption DEF RunsOf
<1>5. ASSUME NEW s \in Sessions, Complete(s) \/ Fail(s)
      PROVE  TaskOnce'
  <2>1. /\ session[s] = [step |-> "running", run |-> session[s].run]
        /\ session'[s] = [step |-> "stored", run |-> session[s].run]
        /\ \A t \in Sessions \ {s} : session'[t] = session[t]
        /\ UNCHANGED <<problem, task, unheard>>
        /\ session[s].run \in RunsOf(s)
        /\ Restated(session[s].run, "failed") \/ Restated(session[s].run, "completed")
    BY <1>5, StoreEffect, Zenon
  <2>2. /\ \A q \in Runs \ {session[s].run} : analysis'[q] = analysis[q]
        /\ Existing' = Existing /\ Heard' = Heard
    BY <2>1 DEF Restated, Heard, TaskRows
  <2>3. /\ session[s].step = "running" /\ session'[s].step = "stored"
        /\ session'[s].run = session[s].run
    BY <2>1
  <2>4. problem # "none"
    BY <2>3 DEF TaskOnce, Idle
  <2>5. CASE s = Worker
    <3>1. task["analyze"].state = "taken"
      BY <2>3, <2>5 DEF TaskOnce, Idle
    <3>2. \A r \in Heard : r # session[s].run => analysis'[r].status = "running"
      BY <2>2, <2>3, <2>5, <3>1 DEF TaskOnce, Heard, TaskRows, Existing
    <3>. QED
      BY <2>1, <2>2, <2>3, <2>4, <2>5, <3>1, <3>2 DEF TaskOnce
  <2>6. CASE s # Worker
    <3>1. session'[Worker] = session[Worker] /\ \A q \in Heard : analysis'[q] = analysis[q]
      BY <1>a, <1>b, <2>1, <2>2, <2>6 DEF Heard, TaskRows, Existing
    <3>. QED
      BY <2>1, <2>2, <2>4, <3>1 DEF TaskOnce
  <2>. QED
    BY <2>5, <2>6
<1>6. ASSUME NEW s \in Sessions, Finish(s)
      PROVE  TaskOnce'
  <2>1. /\ session[s].step = "stored" /\ session'[s] = Idle
        /\ \A t \in Sessions \ {s} : session'[t] = session[t]
        /\ UNCHANGED <<analysis, problem, unheard>> /\ Existing' = Existing
    BY <1>6, FinishEffect
  <2>2. Heard' = Heard /\ problem # "none"
    BY <2>1 DEF Heard, TaskRows, TaskOnce, Idle
  <2>3. CASE s = Worker
    <3>1. task'["analyze"].state = "done"
      BY <1>6, <1>a, <2>3 DEF Finish, Done, Message
    <3>. QED
      BY <2>1, <2>2, <2>3, <3>1 DEF TaskOnce, Idle
  <2>4. CASE s # Worker
    <3>1. task' = task /\ session'[Worker] = session[Worker]
      BY <1>6, <1>a, <2>1, <2>4 DEF Finish
    <3>. QED
      BY <2>1, <2>2, <3>1 DEF TaskOnce
  <2>. QED
    BY <2>3, <2>4
<1>7. ASSUME NEW s \in Sessions, Abort(s)
      PROVE  TaskOnce'
  <2>1. /\ session[s] # Idle /\ session'[s] = Idle
        /\ \A t \in Sessions \ {s} : session'[t] = session[t]
        /\ UNCHANGED <<analysis, problem>> /\ Existing' = Existing
        /\ unheard \subseteq unheard'
        /\ unheard' = IF session[s].step = "stored" THEN unheard \cup {session[s].run}
                      ELSE unheard
    BY <1>7, AbortEffect DEF Existing
  <2>2. Heard' \subseteq Heard /\ problem # "none"
    BY <2>1 DEF Heard, TaskRows, TaskOnce
  <2>3. CASE s = Worker
    <3>1. task["analyze"].state = "taken"
      BY <2>1, <2>3 DEF TaskOnce
    <3>2. \A r \in Heard' : analysis'[r].status = "running"
      BY <2>1, <2>2, <2>3, <3>1 DEF TaskOnce, Heard
    <3>. QED
      BY <2>1, <2>2, <2>3, <3>2 DEF TaskOnce, Idle
  <2>4. CASE s # Worker
    <3>1. task' = task /\ session'[Worker] = session[Worker]
      BY <1>7, <1>a, <2>1, <2>4 DEF Abort
    <3>. QED
      BY <2>1, <2>2, <3>1 DEF TaskOnce
  <2>. QED
    BY <2>3, <2>4
<1>8. ASSUME NEW s \in Sessions, RefreshFails(s)
      PROVE  TaskOnce'
  <2>1. /\ session[s].step = "stored" /\ UNCHANGED <<session, problem, task>>
        /\ session[s].run \in RunsOf(s)
        /\ Restated(session[s].run, "failed")
        /\ unheard' = unheard \cup {session[s].run}
    BY <1>8, RefreshEffect
  <2>2. /\ Heard' \subseteq Heard \ {session[s].run} /\ problem # "none"
        /\ \A q \in Heard' : analysis'[q] = analysis[q]
    BY <2>1 DEF Restated, Heard, TaskRows, TaskOnce, Idle, Existing
  <2>. QED
    BY <2>1, <2>2 DEF TaskOnce
<1>. QED
  BY Steps, <1>1, <1>2, <1>3, <1>4, <1>5, <1>6, <1>7, <1>8

\* A retried task does not analyse a second time, however often it is retried
\* and whatever administrators analyse in the meantime, unless a fault struck
\* after the commit of its outcome.
THEOREM TaskAnalysesOnce == Spec => []OneTaskAnalysis
<1>1. Init => TaskOnce
  <2>. SUFFICES ASSUME Init PROVE TaskOnce
    OBVIOUS
  <2>1. \A r \in Runs : analysis[r] = NoAnalysis
    BY DEF Init
  <2>2. Existing = {} /\ Heard = {}
    BY <2>1 DEF Existing, Heard, TaskRows
  <2>3. \A s \in Sessions : session[s] = Idle
    BY DEF Init
  <2>4. session[Worker] = Idle
    BY <2>3 DEF Sessions
  <2>. QED
    BY <2>2, <2>3, <2>4 DEF TaskOnce, Idle
<1>2. TaskOnce => OneTaskAnalysis
  BY DEF TaskOnce, OneTaskAnalysis, Heard, TaskRows
<1>. QED
  BY Base, BaseStep, TaskOnceStep, <1>1, <1>2, PTL DEF Spec

-----------------------------------------------------------------------------
(* Versions in order *)

Analyses(s) == session[s].step \in {"loaded", "running"}

\* Without overlaps, one session analyses; it has loaded a version above all
\* that exist, and the row it runs is the latest one.
Ordered ==
  /\ \A s, t \in Sessions : Analyses(s) /\ Analyses(t) => s = t
  /\ \A s \in Sessions : session[s].step = "loaded" =>
       \A r \in Existing : Version(r) < session[s].version
  /\ \A s \in Sessions : session[s].step = "running" =>
       \A r \in Existing : Version(r) <= Version(session[s].run)
  /\ \A r, q \in Existing : Version(r) = Version(q) => r = q
  /\ \A r \in Existing : analysis[r].status = "completed" =>
       insight # Queued /\ Version(r) <= Version(insight)

InOrder == ~overlapped => Ordered

LEMMA VersionsTyped == TypeOK => \A r \in Existing : Version(r) \in Nat
  BY RowFields DEF TypeOK, Existing, Version

LEMMA OrderedStep ==
  TypeOK /\ OwnRows /\ InsightFromCompleted /\ InOrder /\ [Next]_vars => InOrder'
<1>. SUFFICES ASSUME TypeOK, OwnRows, InsightFromCompleted, InOrder, [Next]_vars,
                     ~overlapped'
              PROVE  Ordered'
  BY DEF InOrder
<1>a. /\ session \in [Sessions -> Work] /\ analysis \in [Runs -> Row]
      /\ insight \in Runs \cup {Queued} /\ Worker \in Sessions
  BY DEF TypeOK, Sessions
<1>b. \A r \in Existing : Version(r) \in Nat
  BY VersionsTyped
<1>c. insight # Queued => insight \in Existing
  BY <1>a DEF InsightFromCompleted, Existing, NoAnalysis, OwnRows
<1>1. CASE Quiet
  <2>1. UNCHANGED <<analysis, insight, session, overlapped>>
    BY <1>1 DEF Quiet
  <2>. QED
    BY <2>1 DEF InOrder, Ordered, Existing, Version, Analyses
<1>2. ASSUME NEW s \in Sessions, LoadProblem(s)
      PROVE  Ordered'
  <2>1. PICK v \in Nat : Latest(v) /\ session'[s] = [step |-> "loaded", version |-> v + 1]
    BY <1>2, LoadEffect
  <2>a. ~overlapped /\ \A t \in Sessions : ~Analyses(t)
    BY <1>2, <1>a DEF LoadProblem, TypeOK, Analyses
  <2>b. \A t \in Sessions \ {s} : session'[t] = session[t]
    BY <1>2, LoadEffect
  <2>2. /\ session'[s].step = "loaded" /\ session'[s].version = v + 1
        /\ \A t \in Sessions \ {s} : session'[t] = session[t] /\ ~Analyses(t)
        /\ ~overlapped
    BY <2>1, <2>a, <2>b
  <2>3. UNCHANGED <<analysis, insight>>
    BY <1>2, LoadEffect
  <2>4. \A r \in Existing : Version(r) < v + 1
    BY <1>b, <2>1 DEF Latest
  <2>5. Ordered
    BY <2>2 DEF InOrder
  <2>6. Existing' = Existing /\ \A r \in Runs : analysis'[r].version = Version(r)
    BY <2>3 DEF Existing, Version
  <2>7. \A t \in Sessions : Analyses(t)' => t = s
    BY <2>2 DEF Analyses
  <2>. QED
    BY <2>2, <2>3, <2>4, <2>5, <2>6, <2>7 DEF Ordered, Analyses, Existing, Version
<1>3. ASSUME NEW s \in Sessions, InsertRunning(s)
      PROVE  Ordered'
  <2>1. PICK r \in RunsOf(s) \ Existing :
          /\ r \in Runs
          /\ analysis'[r] = [version |-> session[s].version, status |-> "running"]
          /\ \A q \in Runs \ {r} : analysis'[q] = analysis[q]
          /\ session'[s] = [step |-> "running", run |-> r]
          /\ \A t \in Sessions \ {s} : session'[t] = session[t]
          /\ Existing' = Existing \cup {r}
    BY <1>3, InsertEffect
  <2>2. session[s].step = "loaded" /\ UNCHANGED <<insight, overlapped>>
    BY <1>3, InsertEffect
  <2>3. Ordered
    BY <2>2 DEF InOrder
  <2>4. /\ session[s].version \in Nat
        /\ \A q \in Existing : Version(q) < session[s].version
    BY <1>a, <2>2, <2>3, WorkFields DEF Ordered
  <2>5. /\ analysis'[r].version = session[s].version
        /\ \A q \in Existing : analysis'[q].version = Version(q) /\ analysis'[q] = analysis[q]
        /\ analysis'[r].status = "running"
    BY <2>1 DEF Version, Existing
  <2>6. \A t \in Sessions : Analyses(t)' => t = s
    BY <2>1, <2>2, <2>3 DEF Ordered, Analyses
  <2>7. \A t \in Sessions : session'[t].step = "loaded" => FALSE
    BY <2>1, <2>6 DEF Analyses
  <2>8. \A t \in Sessions : session'[t].step = "running" => t = s
    BY <2>6 DEF Analyses
  <2>9. \A q \in Existing' : analysis'[q].version <= analysis'[r].version
    BY <1>b, <2>1, <2>4, <2>5
  <2>10. \A q, p \in Existing' : analysis'[q].version = analysis'[p].version => q = p
    BY <1>b, <2>1, <2>3, <2>4, <2>5 DEF Ordered
  <2>11. \A q \in Existing' : analysis'[q].status = "completed" =>
           insight' # Queued /\ analysis'[q].version <= analysis'[insight'].version
    BY <1>c, <2>1, <2>2, <2>3, <2>5 DEF Ordered, Version
  <2>. QED
    BY <2>1, <2>6, <2>7, <2>8, <2>9, <2>10, <2>11 DEF Ordered, Version
<1>4. ASSUME NEW s \in Sessions, Complete(s) \/ Fail(s)
      PROVE  Ordered'
  <2> DEFINE r == session[s].run
  <2>1. /\ session[s] = [step |-> "running", run |-> r]
        /\ session'[s] = [step |-> "stored", run |-> r]
        /\ \A t \in Sessions \ {s} : session'[t] = session[t]
        /\ overlapped' = overlapped
        /\ r \in Existing
        /\ \/ insight' = insight /\ Restated(r, "failed")
           \/ insight' = r /\ Restated(r, "completed")
    BY <1>4, StoreEffect, Zenon
  <2>a. /\ session[s].step = "running" /\ session'[s].step = "stored"
        /\ analysis'[r].version = Version(r)
        /\ \A q \in Runs \ {r} : analysis'[q] = analysis[q]
        /\ Existing' = Existing
    BY <2>1 DEF Restated
  <2>2. Ordered
    BY <2>1 DEF InOrder
  <2>3. \A t \in Sessions : session'[t].step \notin {"loaded", "running"}
    BY <2>1, <2>a, <2>2 DEF Ordered, Analyses
  <2>4. \A q \in Existing : analysis'[q].version = Version(q)
    BY <2>a DEF Version, Existing
  <2>5. \A q \in Existing : Version(q) <= Version(r)
    BY <2>a, <2>2 DEF Ordered
  <2>6. \A q \in Existing' : analysis'[q].status = "completed" =>
           insight' # Queued /\ analysis'[q].version <= analysis'[insight'].version
    <3>1. CASE insight' = r
      BY <2>1, <2>a, <2>4, <2>5, <3>1, RunsAssumption DEF Version, Existing
    <3>2. CASE insight' = insight /\ Restated(r, "failed")
      <4>1. analysis'[r].status = "failed"
        BY <3>2 DEF Restated
      <4>2. \A q \in Existing : analysis'[q].status = "completed" =>
              analysis[q].status = "completed"
        BY <2>a, <4>1 DEF Existing
      <4>. QED
        BY <1>c, <2>a, <2>2, <2>4, <3>2, <4>2 DEF Ordered, Version
    <3>. QED
      BY <2>1, <3>1, <3>2
  <2>. QED
    BY <2>a, <2>2, <2>3, <2>4, <2>6 DEF Ordered, Analyses, Version
<1>5. ASSUME NEW s \in Sessions, Finish(s) \/ Abort(s)
      PROVE  Ordered'
  <2>1. /\ session'[s] = Idle /\ UNCHANGED <<analysis, insight, overlapped>>
        /\ \A t \in Sessions \ {s} : session'[t] = session[t]
    BY <1>5, FinishEffect, AbortEffect
  <2>. QED
    BY <2>1 DEF InOrder, Ordered, Analyses, Idle, Existing, Version
<1>6. ASSUME NEW s \in Sessions, RefreshFails(s)
      PROVE  Ordered'
  <2> DEFINE r == session[s].run
  <2>1. /\ UNCHANGED <<session, insight, overlapped>> /\ Restated(r, "failed")
    BY <1>6, RefreshEffect
  <2>2. Ordered
    BY <2>1 DEF InOrder
  <2>3. /\ Existing' = Existing /\ r \in Existing
        /\ \A q \in Existing : analysis'[q].version = Version(q)
        /\ \A q \in Existing : analysis'[q].status = "completed" =>
             analysis[q].status = "completed"
    BY <2>1 DEF Restated, Version, Existing
  <2>4. \A t \in Sessions : session[t].step = "running" => session[t].run \in Existing
    BY WorkedRow DEF Works
  <2>. QED
    BY <1>c, <2>1, <2>2, <2>3, <2>4 DEF Ordered, Analyses, Version
<1>. QED
  BY Steps, <1>1, <1>2, <1>3, <1>4, <1>5, <1>6 DEF BeginTask, BeginOnDemand, Sessions

\* As long as analyses do not overlap, no version is given twice and the insight
\* shown is that of the latest completed analysis: crashes, timeouts and retries
\* in between change nothing.
THEOREM InsightIsLatest == Spec => []VersionsInOrder
<1>1. Init => InsightFromCompleted /\ InOrder
  <2>. SUFFICES ASSUME Init PROVE InsightFromCompleted /\ Ordered
    BY DEF InOrder
  <2>1. \A r \in Runs : analysis[r] = NoAnalysis
    BY DEF Init
  <2>2. Existing = {}
    BY <2>1 DEF Existing
  <2>3. \A s \in Sessions : session[s] = Idle
    BY DEF Init
  <2>. QED
    BY <2>2, <2>3 DEF Ordered, Analyses, Idle, Init, InsightFromCompleted
<1>2. InOrder => VersionsInOrder
  BY DEF InOrder, Ordered, VersionsInOrder
<1>. QED
  BY Base, BaseStep, ShownStep, OrderedStep, <1>1, <1>2, PTL DEF Spec

-----------------------------------------------------------------------------
(* Rows left RUNNING *)

Orphans == {r \in Active : \A s \in Sessions : session[s] # [step |-> "running", run |-> r]}

LEMMA OrphansFinite == IsFiniteSet(Orphans) /\ Cardinality(Orphans) \in Nat
<1>1. Orphans \subseteq Runs
  BY DEF Orphans, Active, Existing
<1>. QED
  BY <1>1, RunsAssumption, FS_Subset, FS_CardinalityType

\* A step adds an orphan only if it is a fault, and then one.
LEMMA OrphansStep ==
  TypeOK /\ OwnRows /\ OrphansFromFaults /\ [Next]_vars => OrphansFromFaults'
<1>. SUFFICES ASSUME TypeOK, OwnRows, Cardinality(Orphans) <= faults, [Next]_vars
              PROVE  Cardinality(Orphans') <= faults'
  BY DEF OrphansFromFaults, Orphans
<1>a. /\ faults \in Nat /\ analysis \in [Runs -> Row] /\ session \in [Sessions -> Work]
      /\ Cardinality(Orphans) \in Nat /\ IsFiniteSet(Orphans) /\ Worker \in Sessions
  BY OrphansFinite, FaultsAssumption DEF TypeOK, Sessions
<1>1. CASE Orphans' = Orphans /\ faults' \in {faults, faults + 1}
  BY <1>a, <1>1
<1>2. CASE Quiet
  <2>1. Orphans' = Orphans
    BY <1>2 DEF Quiet, Orphans, Active, Existing
  <2>2. faults' \in {faults, faults + 1}
    BY <1>2 DEF Quiet, Submit, EndSubmission, DetectDuplicates, SkipAnalysis,
                AnalysisTooEarly, AbortDetection, Fault, vars
  <2>. QED
    BY <1>1, <2>1, <2>2
<1>3. ASSUME NEW s \in Sessions, LoadProblem(s)
      PROVE  Cardinality(Orphans') <= faults'
  <2>1. PICK v \in Nat : session'[s] = [step |-> "loaded", version |-> v + 1]
    BY <1>3, LoadEffect
  <2>2. /\ analysis' = analysis /\ session[s] = Idle
        /\ \A t \in Sessions \ {s} : session'[t] = session[t]
    BY <1>3, LoadEffect
  <2>3. \A r : /\ session[s] # [step |-> "running", run |-> r]
               /\ session'[s] # [step |-> "running", run |-> r]
    BY <2>1, <2>2 DEF Idle
  <2>4. Orphans' = Orphans
    BY <2>2, <2>3 DEF Orphans, Active, Existing
  <2>. QED
    BY <1>1, <1>3, <2>4 DEF LoadProblem
<1>4. ASSUME NEW s \in Sessions, InsertRunning(s)
      PROVE  Cardinality(Orphans') <= faults'
  <2>1. PICK r \in RunsOf(s) \ Existing :
          /\ r \in Runs
          /\ analysis'[r] = [version |-> session[s].version, status |-> "running"]
          /\ \A q \in Runs \ {r} : analysis'[q] = analysis[q]
          /\ session'[s] = [step |-> "running", run |-> r]
          /\ \A t \in Sessions \ {s} : session'[t] = session[t]
          /\ Existing' = Existing \cup {r}
    BY <1>4, InsertEffect
  <2>2. session[s].step = "loaded"
    BY <1>4, InsertEffect
  <2>3. \A q : session[s] # [step |-> "running", run |-> q]
    BY <2>2
  <2>4. Active' = Active \cup {r} /\ r \notin Active
    BY <2>1 DEF Active, Existing
  <2>5. \A q \in Active : session'[s] # [step |-> "running", run |-> q]
    BY <2>1, <2>4
  <2>6. Orphans' = Orphans
    BY <2>1, <2>3, <2>4, <2>5 DEF Orphans
  <2>. QED
    BY <1>1, <1>4, <2>6 DEF InsertRunning
<1>5. ASSUME NEW s \in Sessions, Complete(s) \/ Fail(s)
      PROVE  Cardinality(Orphans') <= faults'
  <2> DEFINE r == session[s].run
  <2>1. /\ session[s] = [step |-> "running", run |-> r]
        /\ session'[s] = [step |-> "stored", run |-> r]
        /\ \A t \in Sessions \ {s} : session'[t] = session[t]
        /\ faults' = faults
        /\ Restated(r, "failed") \/ Restated(r, "completed")
    BY <1>5, StoreEffect, Zenon
  <2>2. Active' = Active \ {r}
    BY <2>1 DEF Restated, Active, Existing
  <2>4. \A q : q # r => session[s] # [step |-> "running", run |-> q]
    BY <2>1
  <2>5. \A q : session'[s] # [step |-> "running", run |-> q]
    <3>1. session'[s].step = "stored"
      BY <2>1
    <3>. QED
      BY <3>1
  <2>6. Orphans' = Orphans
    BY <2>1, <2>2, <2>4, <2>5 DEF Orphans
  <2>. QED
    BY <1>1, <2>1, <2>6
<1>7. ASSUME NEW s \in Sessions, Finish(s)
      PROVE  Cardinality(Orphans') <= faults'
  <2>1. /\ session[s].step = "stored" /\ session'[s] = Idle
        /\ \A t \in Sessions \ {s} : session'[t] = session[t]
        /\ UNCHANGED <<analysis, faults>> /\ Existing' = Existing
    BY <1>7, FinishEffect
  <2>2. \A q : /\ session[s] # [step |-> "running", run |-> q]
               /\ session'[s] # [step |-> "running", run |-> q]
    BY <2>1 DEF Idle
  <2>3. Orphans' = Orphans
    BY <2>1, <2>2 DEF Orphans, Active, Existing
  <2>. QED
    BY <1>1, <2>1, <2>3
<1>8. ASSUME NEW s \in Sessions, RefreshFails(s)
      PROVE  Cardinality(Orphans') <= faults'
  <2>1. /\ session' = session /\ faults' = faults + 1
        /\ analysis[session[s].run].status = "completed"
        /\ Restated(session[s].run, "failed")
    BY <1>8, RefreshEffect
  <2>2. Active' = Active
    BY <2>1 DEF Restated, Active, Existing
  <2>3. Orphans' = Orphans
    BY <2>1, <2>2 DEF Orphans
  <2>. QED
    BY <1>1, <2>1, <2>3
<1>6. ASSUME NEW s \in Sessions, Abort(s)
      PROVE  Cardinality(Orphans') <= faults'
  <2>1. /\ session'[s] = Idle /\ analysis' = analysis
        /\ \A t \in Sessions \ {s} : session'[t] = session[t]
    BY <1>6, AbortEffect
  <2>2. faults' = faults + 1
    BY <1>6 DEF Abort, Fault
  <2>3. Active' = Active
    BY <2>1 DEF Active, Existing
  <2>4. \A q : q # session[s].run => session[s] # [step |-> "running", run |-> q]
    OBVIOUS
  <2>5. Orphans' \subseteq Orphans \cup {session[s].run}
    BY <2>1, <2>3, <2>4 DEF Orphans
  <2>6. /\ IsFiniteSet(Orphans \cup {session[s].run})
        /\ Cardinality(Orphans \cup {session[s].run})
             \in {Cardinality(Orphans), Cardinality(Orphans) + 1}
    <3>1. /\ IsFiniteSet(Orphans \cup {session[s].run})
          /\ \/ Cardinality(Orphans \cup {session[s].run}) = Cardinality(Orphans)
             \/ Cardinality(Orphans \cup {session[s].run}) = Cardinality(Orphans) + 1
      BY <1>a, FS_AddElement, Zenon
    <3>. QED
      BY <3>1
  <2>7. /\ Cardinality(Orphans') <= Cardinality(Orphans \cup {session[s].run})
        /\ Cardinality(Orphans') \in Nat
        /\ Cardinality(Orphans \cup {session[s].run}) \in Nat
    BY <2>5, <2>6, FS_Subset, FS_CardinalityType, Zenon
  <2>. QED
    BY <1>a, <2>2, <2>6, <2>7
<1>. QED
  BY Steps, <1>2, <1>3, <1>4, <1>5, <1>6, <1>7, <1>8 DEF BeginTask, BeginOnDemand, Sessions

\* Every analysis that stays RUNNING with nobody working on it is owed to a
\* fault of its own: no exception leaves one behind.
THEOREM OrphansAreFaults == Spec => []OrphansFromFaults
<1>1. Init => OrphansFromFaults
  <2>. SUFFICES ASSUME Init PROVE Cardinality(Orphans) <= faults
    BY DEF OrphansFromFaults, Orphans
  <2>1. \A r \in Runs : analysis[r] = NoAnalysis
    BY DEF Init
  <2>2. Orphans = {}
    BY <2>1 DEF Orphans, Active, Existing
  <2>3. Cardinality(Orphans) = 0
    BY <2>2, FS_EmptySet
  <2>. QED
    BY <2>3 DEF Init
<1>. QED
  BY Base, BaseStep, OrphansStep, <1>1, PTL DEF Spec
=============================================================================
