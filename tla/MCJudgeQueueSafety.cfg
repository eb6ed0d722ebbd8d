\* Three concurrent requests, a channel of two, failures and one crash.
SPECIFICATION Spec
CONSTANTS
  Requests = {r1, r2, r3}
  Verdicts = {Accepted, Rejected}
  QueueCap = 2
  NoRow = NoRow
  Pending = Pending
  None = None
  Faults = TRUE
  MaxCrashes = 1
SYMMETRY Symmetry
INVARIANTS
  TypeOK
  AtMostOneProcessor
  FlagIsTruthful
  WorkIsReady
  NoDuplicateWork
PROPERTIES
  VerdictIsFinal
  ImplementsService
\* A server that no request reaches rests.
CHECK_DEADLOCK FALSE
