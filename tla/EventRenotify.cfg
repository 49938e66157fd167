SPECIFICATION FairSpec
CONSTANTS
  Instances = {h1, h2}
  Conns = {c1, c2}
  Requested = {}
  Timed = {"renotify"}
  Cap = 1
  MaxWire = 1
  MaxTime = 1
  MaxStops = 0
  MaxFaults = 0
  Dash = Dash
  None = None
PROPERTIES WaitingNodeHeard
