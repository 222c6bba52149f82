SPECIFICATION Spec
CHECK_DEADLOCK FALSE
CONSTANTS
  MaxTurns = 3
  MaxProgress = 1
  MaxRetries = 1
  MaxFaults = 2
  MaxRepeats = 1
INVARIANTS
  ShownInOrder
  DoneMeansThisTurnEnded
PROPERTIES
  EndIsSeen
  DoneComesToRest
