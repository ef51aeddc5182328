\* The cause a stopped connection is given, against a later failure.
CONSTANTS
  a = a
  b = b
  NoCall = NoCall
  Ids = {a, b}
  Messages <- LivenessMessages
  MaxFrames = 1
  MaxEvents = 0
  MaxBatch = 1
  MaxPending = 1
  MaxConcurrency = 1
  MaxQueue = 1
  PeerCodes = {"normal"}
  CloseWhenEventsComplete = FALSE
  Faults = {"drain", "event_failure"}
SPECIFICATION Spec
PROPERTIES
  DrainCauseKept
