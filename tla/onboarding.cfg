SPECIFICATION FairSpec
CONSTANTS
  a1 = a1
  a2 = a2
  c1 = c1
  c2 = c2
  Workers = {w1, w2}
  MaxEvents = 3
  Applications = {a1, a2}
  Customers = {c1, c2}
  CustomerOf <- OwnCustomer
  Submitted = {a2}
  Onboarded = {c2}
  Kinds = {"created", "awaitingDocuments", "approved", "customerUpdated", "customerArchived"}
  Gaps = {1}
  MaxFaults = 1
  NoRow = NoRow
INVARIANTS TypeOK NewestDecisionStands CustomersAreApproved
PROPERTIES StatusSettles StandingSettles
