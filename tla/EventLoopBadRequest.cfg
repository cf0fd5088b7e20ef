CONSTANTS
  a = a
  b = b
  idle = idle
  NULL = NULL
  Client <- MCThree
  Script <- MCPipelined
  ReadMax = 4
  RecvBuf = 4
  SendBuf = 1
  MaxFd = 2
SPECIFICATION Spec
INVARIANTS BadRequestRefused
CHECK_DEADLOCK FALSE
