SPECIFICATION Spec
CONSTANTS
  Agents = {a1, a2}
  Members = {m1}
  Scheduler = Scheduler
  None = None
  NumNodes = 2
  Templates <- Openings
  EditStatuses = {"active"}
  MaxVersion = 5
  MaxInFlight = 2
  MaxDeletions = 0
SYMMETRY AgentSymmetry
INVARIANTS
  TypeOK
  CompletedTaskIsDone
  ReviewedByAnother
PROPERTIES
  AssigneeStable
  ReservationHonoured
  DecisionOnWorkRead
