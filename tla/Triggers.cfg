SPECIFICATION Spec
CONSTANTS
  Instances = {i1, i2}
  Deliveries = {d1}
  Scheduled = {1}
  OnIssue = {t1}
  Projects = {p1}
  Interval = 2
  Batch = 1
  MaxTime = 2
  MaxFaults = 1
  MaxOverruns = 1
  MaxEdits = 1
  Issue = Issue
  Bad = Bad
  None = None
INVARIANTS TypeOK OneTaskPerOccasion HistoryTellsTasks OneJobAtATime RunsAreSpaced
SYMMETRY Symmetry
