SPECIFICATION FairSpec
CONSTANTS
  Workers = {w1, w2}
  MaxEvents = 3
  PaymentIds = {p1, p2}
  Recorded = {p1}
  AchPayments = {p1}
  WirePayments = {p2}
  Kinds = {"created", "clearing", "sent", "transaction"}
  Gaps = {1}
  MaxFaults = 1
  NoRow = NoRow
INVARIANTS TypeOK NewestStatusStands LinksLead UnlinkedWasEarly
PROPERTIES StatusSettles
