SPECIFICATION Spec
CONSTANTS
  Workers = {w1, w2}
  NoRow = NoRow
  NoWorker = NoWorker
  MaxEvents = 3
  Accounts = {a1, a2}
  Known = {a1, a2}
  Opened = {a1}
  Kinds = {"accountCreated", "transactionCreated", "frozen", "unfrozen"}
  Gaps = {1}
  Amounts = {1}
  Holds = {1}
  MaxFaults = 1
SYMMETRY WorkerSymmetry
INVARIANTS TypeOK CheckStillHolds BalanceFollowsNewest VerdictsAreTrue NoAccountLost
PROPERTY ImplementsAtomicLedger
