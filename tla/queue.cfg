SPECIFICATION FairSpec
CONSTANTS
  Requests = {r1, r2}
  Workers = {w1, w2}
  NoJob = NoJob
  NoOwner = NoOwner
  MaxEvents = 1
  MaxAttempts = 2
  MaxStalls = 1
  MaxDuplicates = 1
  MaxFaults = 2
INVARIANTS TypeOK NothingForgotten
PROPERTIES EventuallySettled ImplementsEventDelivery
