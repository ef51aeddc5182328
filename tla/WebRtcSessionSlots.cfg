\* Two sessions share one slot of a capacity; their on_close may be cancelled.
SPECIFICATION Spec
CONSTANTS
  Sessions = {"s1", "s2"}
  Capacities = {{"s1", "s2"}}
  MaxSessions = 1
  Tracks = {"t"}
  Owning = {"s1"}
  Faults = {"on_close_cancelled"}
INVARIANTS
  SlotsReturned
