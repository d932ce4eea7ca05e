\* Stop overlapping with run, no failure.
CONSTANTS
  Workers = {w1, w2}
  Sandboxes = {s1}
  Names = {n1}
  Requests = {"run", "stop"}
  MaxFaults = 0
  MaxCrashes = 0
  None = None
SPECIFICATION Spec
INVARIANTS
  StopTearsDown
