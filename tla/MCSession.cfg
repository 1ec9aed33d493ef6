SPECIFICATION FairSpec
CONSTANTS
  MaxSessions = 2
  Ttls <- TwoTtls
  MinTtl = 2
  MaxTtl = 40
  PingInterval = 2
  ReplyTimeout = 1
  MaxCrashes = 1
INVARIANTS TypeOK ServedIsRevocable DriverBounded PublishedResult
PROPERTIES ImplementsLifecycle RevokeEnds ClientFollows AuthenticateReturns
