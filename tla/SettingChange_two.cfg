SPECIFICATION Spec
CHECK_DEADLOCK FALSE
CONSTANTS
  a1 = a1
  a2 = a2
  a3 = a3
  Accounts = {a1, a2, a3}
  Aliases = {n1}
  Confirmations = {c1, c2, c3}
  Executes = {r1, r2}
  InitialDefault <- HasDefault
  MaxCalls = 3
  MaxUpsets = 1
  None = None
SYMMETRY Symmetric
INVARIANTS
  DefaultsFromRacersOnly
  NamesSharedByRacersOnly
  ChangedAsApproved
  ReappliedOnlyAfterCrash
  AuditedOnceWhenChanged
PROPERTIES
  DefaultKept
