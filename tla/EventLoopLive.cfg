CONSTANTS
  a = a
  b = b
  idle = idle
  NULL = NULL
  Client <- MCTwo
  Script <- MCRequests
  ReadMax = 4
  RecvBuf = 4
  SendBuf = 1
  MaxFd = 2
SPECIFICATION FairSpec
PROPERTIES Answered
CHECK_DEADLOCK FALSE
