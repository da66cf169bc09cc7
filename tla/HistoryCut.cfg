CONSTANTS
  RingCap = 3
  SegRecords = 2
  SegMax = 6
  SyncAfter = 1
  MaxUnsaved = 2
  MaxSeq = 4
  MaxDeletes = 1
  MaxAcks = 0
  MaxPersists = 0
  MaxReboots = 1
  MaxRemounts = 1
  MaxWorkerFails = 0
  MaxSyncFails = 1
  MaxPowerCuts = 2
  RaggedTails = TRUE
  PublishGap = FALSE
SPECIFICATION Spec
INVARIANTS CutKeepsDurable RebootSavesAll
