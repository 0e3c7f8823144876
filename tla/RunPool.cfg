SPECIFICATION PromptSpec
CONSTANTS
  N = 3
  Tls = {1, 3}
  MaxNotifies = 1
  MaxVisits = 1
  Serves = TRUE
INVARIANTS TypeOK NoUseAfterFree NothingLeft ServesWholeFiles
PROPERTIES GoesInOrder EndsUnlessHeld
