SPECIFICATION Spec
CONSTANTS
  Texts = {"short", "long"}
  Publishable = {"long"}
  Searched = {"long"}
  Places = {"default"}
  Files = {"photo"}
  Evidence = {"f", "g"}
  None = None
  MaxFills = 2
  MaxAnswers = 2
  MaxSessions = 2
  StartStages = {"in_progress", "completed"}
  Offers = {o}
  Milestones = {"text"}
  Impacts = {"first", "second"}
  Nil = Nil
  MaxRequests = 2
  MaxElsewhere = 1
  Requests = {A}
  Institutions = {I}
  Problems = {P}
  Visited = {"requests", "institution_requests", "institution_master", "moderation"}
  MaxDecisions = 2
  MaxLoads = 3
  NoItem = NoItem
  MaxRuns = 3
  NotRead = NotRead
  Candidates = {near, far}
  Strong = {near}
  MaxTried = 3
  Nothing = Nothing
  NoData = NoData
  Descriptions = {"old", "new"}
  Gone = Gone
  MaxActs = 2
INVARIANT FeedbackIsLatest
CHECK_DEADLOCK FALSE
