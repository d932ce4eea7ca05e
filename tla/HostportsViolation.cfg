\* One pod with a host port; no failure and no restart.
CONSTANTS
  p1 = p1
  p2 = p2
  Pods = {p2}
  Families = {"4"}
  PortMappings <- MCPortMappings
  Addrs <- MCAddrs
  Limits <- MCLimits
  CIDREvents <- MCCIDREvents
  DualStack = FALSE
  NonMasquerade = "4"
  MaxClass = 3
  MaxCIDRs = 1
  KubenetFaults = 0
  KubenetRestarts = 0
  NoAddr = NoAddr
  PluginNames = {"kubenet"}
  CNIPods = {p2}
  Directories <- MCDirectories
  NeedRanges = {"R"}
  MaxChanges = 0
  CNIFaults = 0
  CNIRestarts = 0
SPECIFICATION NetworkSpec
INVARIANT
  PortsMapped
