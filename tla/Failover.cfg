SPECIFICATION Spec
CONSTANTS
  a1 = a1
  a2 = a2
  Endpoints = 2
  Method <- Methods
  Querier = {b1, b2}
  Serves <- SecondBlocksTokens
  MaxFaults = 1
  AmountRange = 2
  QualityRange = 2
  MonthRange = 4
  Percent = 1
  Address = {a1, a2}
  Request = {q1, q2}
  Snapshot <- Holdings
  Histories <- OneHistory
  PageSize = 2
  PageCap = 2
  Horizon = 3
  PassportTtl = 1
  PriceTtl = 1
  AuthWindow = 1
  AuthSkew = 0
  MaxNow = 0
PROPERTIES AllFailedMeansAllAsked
CHECK_DEADLOCK FALSE
