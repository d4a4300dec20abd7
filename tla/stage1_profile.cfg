SPECIFICATION Spec
CONSTANTS
  NModels = 2
  NBatteries = 1
  MaxBank = 2
  BankSize <- OneBank
  NInitial = 1
  NMax = 1
  TokenCap = 6
  Outcomes = {"scored"}
  NeedRange = {3}
  PriorSweeps <- FreshOnly
  MaxStarts = 2
INVARIANTS ProfileKeepsEvidence
