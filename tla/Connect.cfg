SPECIFICATION FairSpec
CONSTANTS
  Addrs <- MCAddrs
  MaxAttempts = 2
  MaxStreams = 2
  MaxInFlight = 2
CHECK_DEADLOCK FALSE
INVARIANTS TypeOK ConnectedAgree Reachable
PROPERTIES AttemptEnds ConnectedIsAccepted CrashIsNoticed
