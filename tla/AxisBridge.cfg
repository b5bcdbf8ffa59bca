CONSTANTS
  TxPackets <- MCTxPackets
  AXIS_TDATA_BYTES = 2
  FifoDepth = 2
  MaxSends = 3
  MaxDutBeats = 4
  Loads <- MCLoads
SPECIFICATION FairSpec
INVARIANT TypeOK
PROPERTIES BeatHeldUntilReady TxChannel RxChannel EventuallyThrough
