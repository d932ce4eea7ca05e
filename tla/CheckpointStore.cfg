\* Two callers on one key, a value, a failure, a death or a loss of power;
\* a temporary name for each file that can be left behind, and one more.
CONSTANTS
  Workers = {w1, w2}
  Keys = {k1}
  Values = {v1}
  TempNames = {t1, t2}
  MaxFaults = 1
  MaxCrashes = 1
  None = None
  Torn = Torn
SPECIFICATION LiveSpec
INVARIANTS
  NeverTorn
PROPERTIES
  ImplementsAtomicStore
  EveryCallReturns
