SPECIFICATION Spec
CONSTANTS
  Views = {"citizen", "student", "faculty", "shared"}
  ProfileTexts = {"a", "b"}
  Tags = {"g"}
  Photos = {"p", "q"}
  FirstText = "a"
  FirstPhoto = "p"
  Empty = Empty
  NoData = NoData
  MaxTags = 1
  MaxCalls = 2
  Mentored = {x, y}
  Nobody = Nobody
  MaxAsked = 2
  Senders = {ua, ub}
  Requests = {w1, w2}
  MaxLinks = 3
SYMMETRY MCSymmetry
INVARIANTS PageSettles DashboardKeepsUp AcceptedOwns
PROPERTIES AcceptanceLasts SuggestionsOfPod
CHECK_DEADLOCK FALSE
