SPECIFICATION Spec
CONSTANT MaxEntries = 6
INVARIANTS TypeOK FullChain BreaksAreLosses OneVictim
