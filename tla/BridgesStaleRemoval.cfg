SPECIFICATION Spec
CONSTANTS
  Session = {s1, s2, s3}
  Bridge = {b1, b2}
  None = None
INVARIANT ConnectedMeansHeard
CHECK_DEADLOCK FALSE
