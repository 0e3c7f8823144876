SPECIFICATION Spec
CONSTANTS
  BlockLen = 2
  ChunkLen = 4
  Degree = 4
  Base = 4
  Digits = 5
  Factors = 2
  MaxGpus = 3
  NRows = 5
  NCols = 3
  RtOff = 2
  CtOff = 2
  GroupM = 2
  Threads = 2
  PersistBlocks = 2
  MaxSlices = 4
  MaxStages = 4
  Words = 2
  Tiles = 2
  MaxBytes = 60
  MaxRows = 5
INVARIANTS
  HashesAgree
  ProofsVerify
  PartitionCovers
  BoundExact
  SearchReportsAWin
  FoldsSeeTheirSlices
  LanesAreTheGpus
CHECK_DEADLOCK FALSE
