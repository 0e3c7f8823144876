\* What package_portable.sh says of run.sh.
SPECIFICATION Spec
CONSTANTS
  Lanes = {g0, g1}
  MaxStarts = 1
  MaxSignals = 1
  MaxKills = 0
INVARIANT StopsOnlyOnRequest
CHECK_DEADLOCK FALSE
