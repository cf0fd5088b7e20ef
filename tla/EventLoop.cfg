CONSTANTS
  a = a
  b = b
  idle = idle
  NULL = NULL
  Client <- MCThree
  Script <- MCPipelined
  ReadMax = 4
  RecvBuf = 4
  SendBuf = 1
  MaxFd = 2
SPECIFICATION Spec
INVARIANTS TypeOK Intentions NoStall EntriesLive
PROPERTIES ServiceSpec NoReplyLostAtEOF
CHECK_DEADLOCK FALSE
