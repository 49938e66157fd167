SPECIFICATION FairSpec
CONSTANTS
  Emails = {e1}
  Handlers = {h1, h2}
  Spaces = {w1, w2}
  Tokens = {t1}
  LockAfter = 2
  MaxWrong = 2
  MaxFaults = 1
  None = None
INVARIANTS TypeOK
PROPERTIES StrandedByStaleCountOnly OwnerGetsIn
