SPECIFICATION FairSpec
CONSTANTS
  Id = {p1, p2}
  MaxClients = 3
  MaxFailures = 2
INVARIANTS OneWorkerNoLeak StatusHonest
PROPERTIES EveryProofSettles
CHECK_DEADLOCK FALSE
