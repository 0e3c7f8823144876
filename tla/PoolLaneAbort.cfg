\* What prover.h says of the stop flag.
SPECIFICATION Spec
CONSTANTS
  Jobs = {j1, j2}
  Incomplete = {}
  MaxNotify = 1
  MaxShares = 1
  MaxReplies = 1
INVARIANT NewJobAbortsAttempt
