SPECIFICATION Spec
CONSTANTS
  MaxReconnect = 1
  MaxCandidate = 1
  MaxOffer = 1
INVARIANT CapturedIsSent
CHECK_DEADLOCK FALSE
