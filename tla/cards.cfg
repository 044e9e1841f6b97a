SPECIFICATION FairSpec
CONSTANTS
  Workers = {w1, w2}
  MaxEvents = 2
  CardIds = {c1, c2}
  Issued = {c1}
  Sessions = {s1, s2}
  Actions = {"freeze", "unfreeze", "close", "reportStolen", "reportLost"}
  UnitActions = {"suspect"}
  Gaps = {1}
  MaxFaults = 1
  MaxRequests = 2
  NoRow = NoRow
  NoCard = NoCard
INVARIANTS TypeOK NothingInvented
PROPERTY StatusSettles
