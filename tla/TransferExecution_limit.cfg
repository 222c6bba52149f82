SPECIFICATION ApprovedSpec
CONSTANTS
  checking = checking  savings = savings  None = None
  Confirmations = {c1, c2, c3}
  AuthContexts = {a1, a2, a3}
  Keys = {k1, k2, k3}
  Executes = {r1, r2}
  LedgerThreads = {w1}
  Channels = {h1}
  Accounts = {checking, savings}
  Amounts = {1, 2}
  InitialBalance <- RichBalances
  MaxSingle = 2
  MaxDaily = 2
CHECK_DEADLOCK FALSE
INVARIANTS
  DailyOvershootBounded
