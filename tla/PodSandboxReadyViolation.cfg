\* One handler, one failure.
CONSTANTS
  Workers = {w1}
  Sandboxes = {s1}
  Names = {n1}
  Requests = {"run", "stop"}
  MaxFaults = 1
  MaxCrashes = 0
  None = None
SPECIFICATION Spec
INVARIANTS
  ReadyFollowsReturn
