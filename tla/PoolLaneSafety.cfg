SPECIFICATION Spec
CONSTANTS
  Jobs = {j1, j2}
  Incomplete = {}
  MaxNotify = 2
  MaxShares = 2
  MaxReplies = 2
SYMMETRY JobSymmetry
INVARIANTS TypeOK ShareAccounting WireOrder ResponsesAwaited AbortAccounting NoUseAfterReturn
PROPERTIES QueuedFresh VerdictsEarned
