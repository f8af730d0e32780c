SPECIFICATION PSpec
CONSTANTS
  MaxPid = 3
  Fds = {3}
  Programs = {"send_rcv", "bcast", "add_on_fork", "block"}
  MSG = MSG
  ACK = ACK
  Bodies = {MSG, ACK}
  MaxMembers = 4
  PerMember = 3
PROPERTY TestsPass
CHECK_DEADLOCK FALSE
