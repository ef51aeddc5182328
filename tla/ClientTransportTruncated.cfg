\* A stream whose last messages wait in a full queue when the connection is lost.
CONSTANTS
  MaxRequests = 1
  MaxItems = 2
  MaxPlain = 0
  MaxQueue = 2
  MaxCancels = 1
  OnOverflow = "drop_oldest"
  Faults = {"disconnect"}
SPECIFICATION Spec
INVARIANTS
  CompleteMeansWhole
