SPECIFICATION FairSpec
CONSTANTS
  Sources = {"vm2", "vm3"}
  Torn = {"vm2"}
  MaxDrift = 2
  MaxEntries <- MCMaxEntries
  MaxConns <- MCMaxConns
  MaxFaults = 1
INVARIANTS TypeOK StoredOnce GapIsReported LossIsBounded CrossVerifiedIsIntact ShowsNewest
PROPERTY EntryArrives
CHECK_DEADLOCK FALSE
