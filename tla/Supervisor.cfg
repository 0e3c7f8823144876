SPECIFICATION FairSpec
CONSTANTS
  Lanes = {g0, g1, g2}
  MaxStarts = 2
  MaxSignals = 1
  MaxKills = 1
INVARIANTS TypeOK AliveCounts NoOrphans RcFaithful
PROPERTIES OneForAll
CHECK_DEADLOCK FALSE
