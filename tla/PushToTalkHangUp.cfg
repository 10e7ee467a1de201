SPECIFICATION PttSpec
CONSTANTS
  Session = {s1, s2}
  Bridge = {b1, b2}
  None = None
  MaxPress = 2
INVARIANT NoCommandMeansLive
CHECK_DEADLOCK FALSE
