SPECIFICATION FairSpec
CONSTANTS
  Runtimes = {r1, r2}
  StaleAfter = 1
  ClaimAfter = 2
  OfflineAfter = 3
  Kinds = {"standard", "manual"}
  MaxEdits = 1
INVARIANT TypeOK
PROPERTIES OfflineOnlyWhenSilent DeadAgentIsDropped
