SPECIFICATION Spec
CONSTANTS
  i1 = i1
  i2 = i2
  p1 = p1
  p2 = p2
  o1 = o1
  o2 = o2
  o3 = o3
  w1 = w1
  w2 = w2
  Partners = {i1}
  Pods = {p1, p2}
  LegacyPods = {p2}
  OfferIds = {o1, o2, o3}
  Workers = {w1, w2}
SYMMETRY MCSymmetry
INVARIANTS
  CommentsFromFunders
  PendingWithinSessions
