SPECIFICATION Spec
CONSTANTS
  AuthIds = {a1}
  MaxAge = 2
  MaxSkew = 1
  Skews <- Ahead
  AkConfigured = TRUE
  MaxVerifyTicks = 0
  MaxTime = 5
  MaxRestarts = 0
INVARIANTS AtMostOnce
