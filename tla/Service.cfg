\* The streaming server.
CONSTANTS
  r1 = r1
  r2 = r2
  r3 = r3
  Requests = {r1, r2, r3}
  Tokens = {1, 2, 3}
  MaxInFlight = 2
  CacheTTL = 1
  MaxNow = 2
  KindOf <- MCKindOf
  Options <- MCOptions

\* What is known of the daemon: time goes on for longer than any answer is kept.
CONSTANTS
  Clients = {q1, q2}
  MinTTL = 1
  MaxCall = 1
  MaxClock = 5

\* Images: a pull, and a call that removes an image or asks for its status.
CONSTANTS
  ImageTags = {t1, t2}
  ImageIDs = {i1, i2}
  NoID = NoID
  Pullers = {k1}
  Callers = {d1}
  Deadline = 1
  MaxMessages = 2
  MaxCredentials = 2
  MaxImageFaults = 1

\* The status of a sandbox.
CONSTANTS
  StatusCallers = {s1}
  MaxStatusFaults = 2

\* Translation.
CONSTANTS
  LabelKeys <- MCLabelKeys
  Syscalls <- MCSyscalls
  Sizes = {0, 1, 2}
  nil = nil
  error = error

SPECIFICATION ServiceSpec
CHECK_DEADLOCK FALSE
INVARIANTS
  LiveRequestsKept SessionAsAsked
  AnswersFresh
  ImageAnswersTrue
  AddressesTold
  PodAsAsked DataKept
PROPERTIES
  RefusedOnlyWhenFull
  RemovesItsImage StalledPullsEnd
