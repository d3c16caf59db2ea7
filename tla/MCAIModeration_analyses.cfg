SPECIFICATION Spec
CHECK_DEADLOCK FALSE
CONSTANTS
  w = w
  a1 = a1
  a2 = a2
  t1 = t1
  t2 = t2
  r1 = r1
  r2 = r2
  Queued = Queued
  Worker = w
  AdminSessions = {a1, a2}
  TaskRuns = {t1, t2}
  AdminRuns = {r1, r2}
  MaxFaults = 2
INVARIANTS
  InsightFromCompleted
  OneTaskAnalysis
  OrphansFromFaults
  VersionsInOrder
PROPERTY
  SubmissionAnalysed
