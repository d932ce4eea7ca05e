\* The locks of the network's operations: four callers, two pods, as many locks as
\* there can be in use.
CONSTANTS
  Workers = {w1, w2, w3, w4}
  Pods = {n1, n2}
  Locks = {l1, l2, l3, l4}
  None = None

\* Port forwarding: two connections, the data stream of one opened twice.
CONSTANTS
  Forwards = {f1, f2}
  Repeats = {f1}
  MaxStreams = 3

\* The streams of a session, and one more that the client may open.
CONSTANTS
  Sessions <- MCSessions
  ExtraKinds = {"resize"}

\* Exec: a session with a terminal, and ExecSync with a timeout.
CONSTANTS
  Calls = {e1, e2}
  Timed = {e2}
  Terminals = {e1}
  MaxRetries = 2
  MaxExecFaults = 1

\* The sizes of writable layers.
CONSTANTS
  StatsContainers = {c1}
  StatsCallers = {p1, p2}
  MaxLists = 3
  MaxCollectors = 2

SPECIFICATION GoroutinesSpec
CHECK_DEADLOCK FALSE
INVARIANTS
  RefcountIsUsers
  SameConnection MonitorsOwnPair
  ContextComplete FailureTold
  ResultTrue
PROPERTIES
  ImplementsPodMutex EveryOperationRuns
  ExecEnds
  SizesKept
  NothingHangs
