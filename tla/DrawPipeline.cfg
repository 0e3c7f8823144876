SPECIFICATION FairSpec
CONSTANTS
  Modes = {"async", "sync", "cpu"}
  MaxDraws = 3
  MaxAttempts = 2
INVARIANTS TypeOK SearchSeesItsDraw ProofOfAWin RefusedOnlyIfFaulty NoWinMissed DrawsCounted
PROPERTY KeepsContract
