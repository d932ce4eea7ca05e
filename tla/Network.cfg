\* Two pods, one of which has host ports, as many addresses, a failure and a
\* restart; for cni, two networks, one of which needs ranges.
CONSTANTS
  p1 = p1
  p2 = p2
  Pods = {p1, p2}
  Families = {"4"}
  PortMappings <- MCPortMappings
  Addrs <- MCAddrs
  Limits <- MCLimits
  CIDREvents <- MCCIDREvents
  DualStack = FALSE
  NonMasquerade = "4"
  MaxClass = 3
  MaxCIDRs = 1
  KubenetFaults = 1
  KubenetRestarts = 1
  NoAddr = NoAddr
  PluginNames = {"cni", "kubenet", "", "flannel"}
  CNIPods = {p1}
  Directories <- MCDirectories
  NeedRanges = {"R"}
  MaxChanges = 3
  CNIFaults = 2
  CNIRestarts = 1
SPECIFICATION NetworkSpec
INVARIANTS
  Released
  Limited
  AttachedAsTold
PROPERTIES
  OthersKept
