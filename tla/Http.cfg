SPECIFICATION FairSpec
CONSTANTS
  c1 = c1
  c2 = c2
  Conn = {c1, c2}
  MaxRequests <- MaxRequestsOf
INVARIANTS TypeOK OneOperation
PROPERTIES ImplementsExchange EveryRequestAnswered LeftIsReleased
CHECK_DEADLOCK FALSE
