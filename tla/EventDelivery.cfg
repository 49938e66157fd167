SPECIFICATION Spec
CONSTANTS
  Instances = {h1, h2}
  Conns = {c1, c2}
  Requested = {"control"}
  Timed = {"timeout"}
  Cap = 1
  MaxWire = 1
  MaxTime = 0
  MaxStops = 1
  MaxFaults = 1
  Dash = Dash
  None = None
SYMMETRY AnyInstance
INVARIANTS TypeOK SubscribersOpen
PROPERTIES SentIsBuffered
