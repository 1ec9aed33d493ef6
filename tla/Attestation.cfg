SPECIFICATION Spec
CONSTANTS
  Lines = {"a", "b"}
  MinCount = 1
  MaxDelta = 1
  LogMode = 2
  MaxLog = 2
  MaxEvents = 2
  MaxDeviations = 1
  MaxDisturbed = 2
INVARIANTS TypeOK ImaHistory FalseAlarmIsRace SysmonExact
