\* Two sessions share one slot of a capacity; everything external may fail.
SPECIFICATION FairSpec
CONSTANTS
  Sessions = {"s1", "s2"}
  Capacities = {{"s1"}, {"s1", "s2"}}
  MaxSessions = 1
  Tracks = {"t"}
  Owning = {"s1"}
  Faults = {"refused", "failure", "server_cancel", "ignored_cancel", "stuck_engine", "on_close_cancelled"}
INVARIANTS
  CapacityHonest
PROPERTIES
  ShutdownCompletes
