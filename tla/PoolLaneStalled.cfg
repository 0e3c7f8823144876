\* The pool may stop reading, and a send block for good.
SPECIFICATION StalledSendSpec
CONSTANTS
  Jobs = {j1, j2, blank}
  Incomplete = {blank}
  MaxNotify = 2
  MaxShares = 1
  MaxReplies = 1
PROPERTIES NewJobAdopted
