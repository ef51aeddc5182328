\* Opens, cancellations, interruptions and a drain around a queue of one; every
\* request, stream and session ends.
CONSTANTS
  MaxRequests = 3
  MaxItems = 1
  MaxStreams = 1
  MaxQueue = 1
  Faults = {"send_timeout", "request_cancel", "drain", "close"}
SPECIFICATION FairSpec
INVARIANTS
  TypeOK
  StreamsBounded
  NoStreamOutlives
  DrainFinishesStreams
PROPERTIES
  StreamsKeepProtocol
  RequestsEnd
  SessionCloses
