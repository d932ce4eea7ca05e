\* Two handlers at a time, two containers for the same metadata, two failures,
\* deaths or pauses.
CONSTANTS
  Workers = {w1, w2}
  Metadata <- MCMetadata
  MaxContainers = 2
  MaxFaults = 2
  None = None
SPECIFICATION Spec
SYMMETRY Symmetry
INVARIANTS
  LogsLinked
  TwinsOnlyByRecovery
  ListedAsReported
