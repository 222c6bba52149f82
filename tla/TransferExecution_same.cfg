SPECIFICATION Spec
CONSTANTS
  checking = checking  savings = savings  None = None
  Confirmations = {c1}
  AuthContexts = {a1}
  Keys = {k1, k2, k3}
  Executes = {r1, r2}
  LedgerThreads = {w1, w2}
  Channels = {h1, h2}
  Accounts = {checking, savings}
  Amounts = {1}
  InitialBalance <- Balances
  MaxSingle = 1
  MaxDaily = 1
SYMMETRY Interchangeable
CHECK_DEADLOCK FALSE
INVARIANTS
  MovedAtMostOnce
  CompletionMeansMoved
  AuditedOncePerDecider
PROPERTIES
  AnswerIsFinal
