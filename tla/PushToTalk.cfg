SPECIFICATION PttSpec
CONSTANTS
  Session = {s1, s2}
  Bridge = {b1, b2}
  None = None
  MaxPress = 2
SYMMETRY Interchangeable
INVARIANTS PttTypeOK CommandIsPure CommandIsPrivate
CHECK_DEADLOCK FALSE
