\* Two sandboxes that want the same name, and one failure.
CONSTANTS
  Workers = {w1}
  Sandboxes = {s1, s2}
  Names = {n1}
  Requests = {"run", "stop", "remove"}
  MaxFaults = 1
  MaxCrashes = 0
  None = None
SPECIFICATION LiveSpec
PROPERTIES
  EventuallyCleaned
  RunningIsRemovedOnlyByRequest
