SPECIFICATION FairSpec
CONSTANTS
  Instances = {i1, i2}
  Deliveries = {}
  Scheduled = {1, 2}
  OnIssue = {}
  Projects = {p1}
  Interval = 2
  Batch = 1
  MaxTime = 2
  MaxFaults = 1
  MaxOverruns = 0
  MaxEdits = 1
  Issue = Issue
  Bad = Bad
  None = None
PROPERTIES DueIsAdvanced
