SPECIFICATION LiveSpec
CONSTANTS
  Z = 2
  D = 4
  Modes = {"chain1", "chain2", "quorum"}
  MaxCircuits = 2
  MaxRounds = 2
  MaxFaults = 1
INVARIANTS TypeOK AnswersTheQuestion SessionIsWitnessed LogsAgree EndIsTheEnd
PROPERTIES ImplementsVerdict RoundEnds TeardownReaches
CHECK_DEADLOCK FALSE
