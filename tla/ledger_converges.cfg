SPECIFICATION FairSpec
CONSTANTS
  Workers = {w1, w2}
  NoRow = NoRow
  NoWorker = NoWorker
  MaxEvents = 3
  Accounts = {a1, a2}
  Known = {a1, a2}
  Opened = {a1}
  Kinds = {"accountCreated", "transactionCreated", "transactionUpdated", "accountUpdated"}
  Gaps = {1}
  Amounts <- Purchases
  Holds = {}
  MaxFaults = 1
INVARIANT BalanceNotCorrupted
PROPERTY Converges
