SPECIFICATION ClosingSpec
CONSTANTS
  checking = checking  savings = savings  Unknown = Unknown  None = None
  Handlers = {h1}
  Keys = {k1, k2}
  Accounts = {checking, savings}
  Payloads <- ThereAndBack
  OpeningBalance <- Deposits
  Closers = {b1, b2}
  Days = {d1}
  AccountOrder <- Both
SYMMETRY Interchangeable
INVARIANTS
  NoDriftWhenSequential
  ClosingOfThisBatch
  WatermarkCoversTheSums
PROPERTIES
  ClosedOnceForAll
