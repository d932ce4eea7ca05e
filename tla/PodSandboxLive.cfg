\* One sandbox; failures and restarts come to an end.
CONSTANTS
  Workers = {w1}
  Sandboxes = {s1}
  Names = {n1}
  Requests = {"run", "stop", "remove", "list"}
  MaxFaults = 2
  MaxCrashes = 2
  None = None
SPECIFICATION LiveSpec
PROPERTIES
  EventuallyCleaned
