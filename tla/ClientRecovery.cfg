\* Two calls, one of them idempotent, and a connection that is lost twice.
CONSTANTS
  MaxRequests = 2
  MaxTransports = 3
  MaxTasks = 3
  Idempotent = {2}
  RetryAttempts = 1
  Reconnect = TRUE
  MaxAttempts = 2
  Faults = {"refused", "rejected", "lost", "fatal", "timeout", "close", "ignored_cancel"}
SPECIFICATION FairSpec
INVARIANTS
  TypeOK
  SentOnce
  NothingLeaks
  StateHonest
PROPERTIES
  WaitersServed
  CloseLeavesNothing
