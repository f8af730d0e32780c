SPECIFICATION SchedSpec
CONSTANTS
  MaxProcesses = 5
  MaxSleep = 2
INVARIANTS SchedTypeOK OneRunning LoopIsCyclic
PROPERTIES NoStarvation SleepersWake TurnsApproach
CHECK_DEADLOCK FALSE
