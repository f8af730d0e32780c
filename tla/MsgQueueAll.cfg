SPECIFICATION Spec
CONSTANTS
  MaxPid = 3
  Fds <- MCFds
  Bodies = {hi}
  MaxMembers = 3
  PerMember = 2
  MaxBlocked = 1
  MaxLetters = 1
CONSTRAINT Small
PROPERTY BlockIsFinal
CHECK_DEADLOCK FALSE
