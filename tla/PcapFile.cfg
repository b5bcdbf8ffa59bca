CONSTANTS
  Packets <- MCPackets
  Base = 4
  ForeignPackets <- MCForeignPackets
  MaxSends = 3
  MaxWriterOpens = 1
  MaxReaderOpens = 1
SPECIFICATION Spec
INVARIANTS TypeOK ReplaysInOrder
PROPERTY EofMeansConsumed
CHECK_DEADLOCK FALSE
