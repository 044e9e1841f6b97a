SPECIFICATION Spec
CONSTANTS
  Workers = {w1, w2}
  NoRow = NoRow
  NoWorker = NoWorker
  MaxEvents = 2
  Accounts = {a1}
  Known = {a1}
  Opened = {a1}
  Kinds = {"transactionCreated", "frozen"}
  Gaps = {1}
  Amounts = {1}
  Holds = {}
  MaxFaults = 0
INVARIANT BalanceNotCorrupted
