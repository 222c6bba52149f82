SPECIFICATION Spec
CONSTANTS
  a1 = a1  a2 = a2  r1 = r1  c1 = c1  a3 = a3
  None = None
  Kinds = {"internal", "external", "default", "alias", "list", "balance", "history", "summary"}
  Portfolios <- MCPortfolios
  Hints <- MCHints
  Default = a1
  Recipients = {r1}
  Candidates = {c1}
  MaxSingle = 1
  MaxPrepare = 2
  MaxAuth = 2
  MaxClosures = 1
CHECK_DEADLOCK FALSE
INVARIANTS
  FreshKeys
  ApprovalIsLive
  ExecutesWhatWasApproved
  PrepareHasEverySlot
  CancelledBeforeApprovalCloses
PROPERTIES
  RunPausesOrEnds
