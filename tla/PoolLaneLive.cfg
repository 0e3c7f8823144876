\* A lane that loses nothing but shares: every send ends.
SPECIFICATION FairSpec
CONSTANTS
  Jobs = {j1, j2}
  Incomplete = {}
  MaxNotify = 1
  MaxShares = 2
  MaxReplies = 1
PROPERTIES StopLeadsToExit SharesSettled
