SPECIFICATION FairSpec
CONSTANTS
  Tab = {borrower, lender}
  MaxVersion = 3
  MaxGeneration = 3
  MaxFaults = 1
  MaxRemounts = 1
INVARIANTS HeldIsCurrent NoStaleRows
PROPERTIES CatchesUp
