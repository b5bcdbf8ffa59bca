SPECIFICATION FairSpec
CONSTANTS
  Packets <- MCPackets
  TDATA_BYTES = 2
  SockBuf = 6
  MaxSends = 2
  KeepGoing = FALSE
INVARIANT TypeOK
PROPERTIES Channel SentArrives ReceiveReturns
CHECK_DEADLOCK FALSE
