SPECIFICATION FairSpec
CONSTANTS
  Agents = {a1, a2}
  Members = {m1}
  Scheduler = Scheduler
  None = None
  NumNodes = 2
  Templates <- Continued
  EditStatuses = {"completed"}
  MaxVersion = 7
  MaxInFlight = 1
  MaxDeletions = 1
INVARIANT RollbackBudget
PROPERTY HandOverLapses
