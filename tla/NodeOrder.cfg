SPECIFICATION Spec
CONSTANTS
  Agents = {a1, a2}
  Members = {m1}
  Scheduler = Scheduler
  None = None
  NumNodes = 3
  Templates <- Longer
  EditStatuses = {"active"}
  MaxVersion = 6
  MaxInFlight = 1
  MaxDeletions = 0
SYMMETRY AgentSymmetry
INVARIANTS
  FrontOrdered
  BoardTellsWork
  DoneWorkWasReviewed
PROPERTIES
  ReopenedByRollback
  WorkEndsByResolveOnly
  ImplementsPipeline
