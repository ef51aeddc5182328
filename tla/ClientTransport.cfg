\* Two calls and a stream share a transport that may fail in every way.
CONSTANTS
  MaxRequests = 2
  MaxItems = 2
  MaxPlain = 1
  MaxQueue = 1
  MaxCancels = 1
  OnOverflow = "drop_oldest"
  Faults = {"send_failure", "interrupt", "disconnect", "malformed", "server_request", "close", "close_failure"}
SPECIFICATION FairSpec
INVARIANTS
  TypeOK
  UnsentStaysUnsent
  NoGapWhileOpen
PROPERTIES
  InterruptionHarmless
  CloseEndsAll
