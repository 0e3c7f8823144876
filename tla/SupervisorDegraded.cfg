\* What README.en.md says of a lane that exits abnormally.
SPECIFICATION FairSpec
CONSTANTS
  Lanes = {g0, g1}
  MaxStarts = 1
  MaxSignals = 0
  MaxKills = 0
PROPERTY NoSilentDegradation
CHECK_DEADLOCK FALSE
