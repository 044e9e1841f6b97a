SPECIFICATION Spec
CONSTANTS
  Workers = {w1, w2}
  MaxEvents = 2
  CardIds = {c1}
  Issued = {c1}
  Sessions = {s1, s2}
  Actions = {"freeze", "unfreeze"}
  UnitActions = {}
  Gaps = {1}
  MaxFaults = 0
  MaxRequests = 2
  NoRow = NoRow
  NoCard = NoCard
INVARIANT StatusIsUnits
