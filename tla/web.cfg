SPECIFICATION AppFairSpec
CONSTANTS
  MaxSubmits = 3
  MaxPolls = 2
  LastStatus = 3
  Mishaps = {"network", "api", "poll"}
  Users = {u1, u2}
  Approved = {u1}
  Nobody = Nobody
  MaxRequests = 2
  MaxTransactions = 2
  InUse = {1}
  Fetched = {1}
  Troubles = {"session", "network", "api", "read"}
  MaxTroubles = 1
INVARIANTS AppTypeOK ShowsTheLast StopsForAReason MadeOnce NothingSilent NoSecondOffer OwnersAgree ListReachesBalance
PROPERTIES NeverGoesBack PollingEnds
