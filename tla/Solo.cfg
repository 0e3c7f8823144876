SPECIFICATION FairSpec
CONSTANTS
  Blocks = {0, 1, 2}
  MaxMoves = 3
INVARIANTS TypeOK AcceptedUnlessUnreadable
PROPERTIES StaleAttemptEnds AbortsSettle
