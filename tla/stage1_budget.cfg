SPECIFICATION FairSpec
CONSTANTS
  NModels = 2
  NBatteries = 3
  MaxBank = 1
  BankSize <- ThreeBanks
  NInitial = 1
  NMax = 2
  TokenCap = 4
  Outcomes = {"scored", "unscored", "infra"}
  NeedRange = {1}
  PriorSweeps <- FreshOnly
  MaxStarts = 2
INVARIANTS CapHolds EndsSettled
PROPERTIES ImplementsLedger Terminates
