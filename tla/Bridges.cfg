SPECIFICATION FairSpec
CONSTANTS
  Session = {s1, s2, s3}
  Bridge = {b1, b2}
  None = None
INVARIANTS TypeOK OneCallPerSession DirectoryAgrees CallPrivacy HeardWhileNobodyLeft
PROPERTIES CallEndsOnlyByHangUpOrLeaving ImplementsCalls HandlersFinish PartnerIsFreed
CHECK_DEADLOCK FALSE
