SPECIFICATION Spec
CONSTANTS
  t1 = t1
  t2 = t2
  Threads <- MCThreads
  Rows <- MCRows
  Info <- MCInfo
  open = open
  closed = closed
  Sites <- MCSites
  Allowed <- MCAllowed
  MaxUrls = 1
  FetchAttempts = 2
  Limit = 2
  Queries <- MCQueries
  OtherQueries <- MCOtherQueries
  Gives <- MCGives
  Mobile <- MCMobile
  Attempts = 2
  TTL = 1
  StaleTTL = 2
  Failures = 2
  OpenFor = 1
  SourceFailures = 1
  SourceOpenFor = 1
  MaxTime = 4
  MaxFaults = 1
SYMMETRY Symmetry
INVARIANTS SearchInv
PROPERTY ServedWithinLimits
