SPECIFICATION PlainSpec
CONSTANTS
  MaxPid = 3
  Fds <- MCOneFd
  Bodies = {hi}
  MaxMembers = 4
  PerMember = 2
  MaxBlocked = 1
  MaxLetters = 3
CONSTRAINT Small
INVARIANTS TypeOK NoDuplicates MembersAreHolders NoUseAfterFree
PROPERTY ImplementsMailboxes
CHECK_DEADLOCK FALSE
