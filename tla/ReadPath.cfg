SPECIFICATION Spec
CONSTANTS
  MaxMessages = 4
  MaxCommits = 2
  Pages = 2
  Attempts = 2
  PageLimit = 2
  QueueSize = 2
  MaxFaults = 1
INVARIANTS ReadInv NothingIsMissed EventsCountUp
