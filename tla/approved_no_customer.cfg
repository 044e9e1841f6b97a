SPECIFICATION Spec
CONSTANTS
  a1 = a1
  a2 = a2
  c1 = c1
  c2 = c2
  Workers = {w1, w2}
  MaxEvents = 1
  Applications = {a1, a2}
  Customers = {c1, c2}
  CustomerOf <- OwnCustomer
  Submitted = {a1, a2}
  Onboarded = {}
  Kinds = {"approved"}
  Gaps = {1}
  MaxFaults = 1
  NoRow = NoRow
INVARIANT ApprovedHasCustomer
