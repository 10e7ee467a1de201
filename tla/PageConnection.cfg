SPECIFICATION FairSpec
CONSTANTS
  MaxReconnect = 1
  MaxCandidate = 1
  MaxOffer = 1
INVARIANTS TypeOK OneSocket SessionsKeptApart SignalsInOrder NoCandidateLost
PROPERTY GetsThrough
CHECK_DEADLOCK FALSE
