SPECIFICATION FairSpec
CONSTANTS
  Bridge = {b1, b2}
  None = None
  MaxEffect = 3
  MaxPress = 3
INVARIANTS TypeOK ReleasedIsStopped StopsMatchStarts
PROPERTY KeyUpStops
CHECK_DEADLOCK FALSE
