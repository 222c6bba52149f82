SPECIFICATION Spec
CONSTANTS
  checking = checking  savings = savings  Unknown = Unknown  None = None
  Handlers = {h1, h2}
  Keys = {k1, k2}
  Accounts = {checking, savings}
  Payloads <- Opposite
  OpeningBalance <- Deposits
SYMMETRY Interchangeable
INVARIANTS
  TypeOK
PROPERTIES
  KeepsJournal
