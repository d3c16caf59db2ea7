SPECIFICATION Spec
CONSTANTS
  t1 = t1
  t2 = t2
  u1 = u1
  u2 = u2
  feed = feed
  None = None
  Tabs = {t1, t2}
  Users = {u1, u2}
  PageRequests = {feed}
  MaxPairs = 3
SYMMETRY MCSymmetry
INVARIANTS OwnAnswers RenewalsServe RightUserShown
PROPERTY ImplementsAccounts
