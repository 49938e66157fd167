SPECIFICATION Spec
CONSTANTS
  Handlers = {h1, h2}
  Sessions = {s1}
  TTL = 1
  Timeout = 1
  MaxTime = 6
  MaxFaults = 1
  None = None
INVARIANTS TypeOK CacheNotOld DeletedActsNoMore
SYMMETRY HandlerSymmetry
