\* One sandbox, two handlers at a time, failures and a restart.
CONSTANTS
  Workers = {w1, w2}
  Sandboxes = {s1}
  Names = {n1}
  Requests = {"run", "stop", "remove", "list"}
  MaxFaults = 3
  MaxCrashes = 1
  None = None
SPECIFICATION Spec
SYMMETRY Symmetry
INVARIANTS
  StopReleasesNetwork
  NetworkNotForgotten
  CheckpointCoversNetwork
  GhostsAreGone
  HostNetworkNotTornDown
