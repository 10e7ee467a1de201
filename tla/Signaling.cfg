SPECIFICATION FairSpec
CONSTANTS
  Session = {s1, s2}
  MaxRtc = 2
INVARIANTS TypeOK OneWriteAtATime WireInOrder
PROPERTIES ImplementsLifetimes PostedIsWritten EndedIsReleased
CHECK_DEADLOCK FALSE
