SPECIFICATION Spec
CONSTANTS
  Packets <- MCTwoPackets
  TDATA_BYTES = 2
  SockBuf = 6
  MaxSends = 2
  KeepGoing = TRUE
INVARIANT ReceivesCompletePackets
CHECK_DEADLOCK FALSE
