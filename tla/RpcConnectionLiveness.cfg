\* Every close, drain and cancellation completes; a graceful drain answers all.
CONSTANTS
  a = a
  b = b
  NoCall = NoCall
  Ids = {a, b}
  Messages <- LivenessMessages
  MaxFrames = 2
  MaxEvents = 1
  MaxBatch = 1
  MaxPending = 2
  MaxConcurrency = 1
  MaxQueue = 1
  PeerCodes = {"normal"}
  CloseWhenEventsComplete = FALSE
  Faults = {"disconnect", "send_timeout", "drain", "server_cancel"}
SPECIFICATION FairSpec
INVARIANTS
  Answered
  GracefulAnswersAll
PROPERTIES
  ServingEnds
  CancelEnds
