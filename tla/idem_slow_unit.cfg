SPECIFICATION Spec
CONSTANTS
  Requests = {r1, r2}
  Keys = {k1}
  Ineligible = {}
  Refusable = {}
  Backfilled = {}
  MaxRequests = 4
  Mishaps = {"slow"}
  MaxMishaps = 1
  NoKey = NoKey
PROPERTY CompletedIsKept
