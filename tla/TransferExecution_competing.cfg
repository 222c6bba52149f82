SPECIFICATION LastingSpec
CONSTANTS
  checking = checking  savings = savings  None = None
  Confirmations = {c1, c2}
  AuthContexts = {a1, a2}
  Keys = {k1, k2}
  Executes = {r1, r2}
  LedgerThreads = {w1, w2}
  Channels = {h1}
  Accounts = {checking, savings}
  Amounts = {2}
  InitialBalance <- Balances
  MaxSingle = 2
  MaxDaily = 4
SYMMETRY Interchangeable
CHECK_DEADLOCK FALSE
INVARIANTS
  TypeOK
  MovedOnlyWhenAuthorised
