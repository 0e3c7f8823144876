SPECIFICATION FairSpec
CONSTANTS
  N = 1
  Tls = {}
  MaxNotifies = 1
  MaxVisits = 1
  Serves = TRUE
PROPERTIES ServerObservesStop
