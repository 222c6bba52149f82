SPECIFICATION Spec
CONSTANTS
  None = None
  Starts = {s1}
  Threads = {1, 2}
  Resumes = {1, 2}
  Copies = {1, 2}
  MaxPauses = 2
  MaxRestarts = 1
  MaxFaults = 2
  MaxHooks = 2
CHECK_DEADLOCK FALSE
INVARIANTS
  RuntimeTypeOK
  ShownOnce
  AnsweredOnce
PROPERTIES
  KeepsContract
  RuntimeSettles
  TurnGoesOn
