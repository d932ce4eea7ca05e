\* One request at a time for the status of a sandbox; nothing fails.
CONSTANTS
  StatusCallers = {s1}
  MaxStatusFaults = 0
SPECIFICATION StatusSpec
CHECK_DEADLOCK FALSE
INVARIANT IPv4First
