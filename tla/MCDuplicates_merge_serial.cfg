SPECIFICATION Spec
CHECK_DEADLOCK FALSE
CONSTANTS
  p1 = p1
  p2 = p2
  p3 = p3
  e1 = e1
  e2 = e2
  w1 = w1
  w2 = w2
  None = None
  Problems = {p1, p2, p3}
  Endorsers = {e1}
  Similar <- MCSimilar
  ModerationInputs = {"open", "duplicate"}
  Workers = {w1}
INVARIANT
  NoMergeCycle
PROPERTY
  EndorsersFollow
