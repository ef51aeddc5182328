\* Two streams of one method over two transports, with two faults and a close.
CONSTANTS
  MaxStreams = 2
  MaxTransports = 2
  MaxItems = 1
  MaxInbox = 1
  MaxQueue = 1
  MaxFaults = 2
  Reconnect = TRUE
  Faults = {"refused", "lost", "send_failure", "timeout", "leave", "close"}
SPECIFICATION Spec
INVARIANTS
  TypeOK
  OwnAndWhole
  NoOrphans
  ReadersTold
