SPECIFICATION SessionSpec
CONSTANTS
  MaxProcesses = 3
  MaxSleep = 1
  Addrs = {1, 2}
  MAX_BREAKPOINTS = 2
  MaxNum = 3
  Work = 2
INVARIANTS TypeOK OneRunning ListInOrder DisabledRuns Handshake ReportsLastStop
PROPERTIES DeadStayDead WaitReturns
CHECK_DEADLOCK FALSE
