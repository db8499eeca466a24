SPECIFICATION FairSpec
CONSTANTS
  a1 = a1
  a2 = a2
  Endpoints = 2
  Method <- Methods
  Querier = {b1, b2}
  Serves <- SecondBlocksTokens
  MaxFaults = 1
  AmountRange = 2
  QualityRange = 2
  MonthRange = 4
  Percent = 1
  Address = {a1, a2}
  Request = {q1, q2, q3}
  Snapshot <- Holdings
  Histories <- EveryEnding
  PageSize = 2
  PageCap = 2
  Horizon = 3
  PassportTtl = 1
  PriceTtl = 1
  AuthWindow = 1
  AuthSkew = 0
  MaxNow = 1
INVARIANTS AgeNeverOverstated
PROPERTIES ServedFresh EveryReadEnds
CHECK_DEADLOCK FALSE
