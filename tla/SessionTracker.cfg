SPECIFICATION Spec
CONSTANTS
  Sources = {vm2, vm3}
  Chained = {vm3}
  MaxCircuits = 2
  MaxRounds = 2
  MaxEntries = 5
  MaxFaults = 2
INVARIANTS TypeOK ListedIsIntact JoinedMeansLost RoundsCountOnce
