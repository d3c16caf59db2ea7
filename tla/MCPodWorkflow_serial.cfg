SPECIFICATION Spec
CONSTANTS
  s2 = s2
  f1 = f1
  f2 = f2
  a1 = a1
  u1 = u1
  u2 = u2
  p1 = p1
  p2 = p2
  q1 = q1
  w1 = w1
  w2 = w2
  None = None
  Universities = {u1, u2}
  UniversityOf <- MCUniversityOf
  Nodal = {}
  Problems = {q1}
  Students = {s2}
  Faculty = {f1, f2}
  Admins = {a1}
  PodIds = {p1}
  ReviewInputs = {"approved", "changes_requested", "rejected"}
  ModerationInputs = {"rejected"}
  Workers = {w1}
INVARIANTS
  VettedMatchesVerdict
  MentorFromPodUniversity
PROPERTY
  ImplementsContract
