\* Every kind of endpoint with an expiry, a drain and a cancelled server.
CONSTANTS
  Kinds = {"generator", "function", "socket"}
  MaxFrames = 2
  MaxQueue = 1
  Failures = {"policy", "internal"}
  Faults = {"reject", "failure", "disconnect", "app_close", "send_timeout",
            "expiry", "drain", "server_cancel"}
SPECIFICATION FairSpec
INVARIANTS
  NothingLeft
PROPERTIES
  CauseHonest
  EndpointEnds
