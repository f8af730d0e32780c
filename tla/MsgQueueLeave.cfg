SPECIFICATION Spec
CONSTANTS
  MaxPid = 3
  Fds <- MCOneFd
  Bodies = {hi}
  MaxMembers = 3
  PerMember = 1
  MaxBlocked = 0
  MaxLetters = 0
CONSTRAINT Small
PROPERTY OnlyCallerLeaves
CHECK_DEADLOCK FALSE
