SPECIFICATION FairSpec
CONSTANTS
  Requests = {r1, r2, r3}
  Keys = {k1, k2, k3}
  Ineligible = {k3}
  Refusable = {k1}
  Backfilled = {k2}
  MaxRequests = 3
  Mishaps = {"slow", "lost", "gateway", "crash"}
  MaxMishaps = 2
  NoKey = NoKey
INVARIANTS TypeOK OneResourcePerKey OneExecutor OneAnswer
PROPERTY KeyIsFreed
