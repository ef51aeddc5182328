\* Admission, cancellation and collection over several frames; every failure, every
\* cause of a close and a cancelled serving task with one frame.
CONSTANTS
  a = a
  b = b
  NoCall = NoCall
  Ids = {a, b}
  Messages <- SafetyMessages
  MaxFrames = 4
  MaxEvents = 1
  MaxBatch = 3
  MaxPending = 2
  MaxConcurrency = 1
  MaxQueue = 1
  PeerCodes = {"normal", "other"}
  CloseWhenEventsComplete = TRUE
  Faults = {"disconnect", "unreadable", "socket_failure", "send_timeout", "send_failure", "request_timeout", "handler_failure", "leaked_cancellation", "event_failure", "expiry", "app_close", "server_cancel"}
SPECIFICATION Spec
CONSTRAINT LongOrEventful
INVARIANTS
  ReservationsHeld
  InFlightConsistent
  NothingOutlives
PROPERTIES
  CauseKept
  CauseAnnounced
