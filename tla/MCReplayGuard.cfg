SPECIFICATION Spec
CONSTANTS
  AuthIds = {a1, a2}
  MaxAge = 2
  MaxSkew = 1
  Skews <- AheadOrBehind
  AkConfigured = FALSE
  MaxVerifyTicks = 1
  MaxTime = 6
  MaxRestarts = 1
INVARIANTS TypeOK ReplaySpacing
