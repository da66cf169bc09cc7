CONSTANTS
  RingCap = 3
  SegRecords = 2
  SegMax = 3
  SyncAfter = 2
  MaxUnsaved = 2
  MaxSeq = 5
  MaxDeletes = 2
  MaxAcks = 0
  MaxPersists = 1
  MaxReboots = 0
  MaxRemounts = 0
  MaxWorkerFails = 1
  MaxSyncFails = 0
  MaxPowerCuts = 0
  RaggedTails = FALSE
  PublishGap = FALSE
SPECIFICATION FairSpec
INVARIANTS WatermarkIsDurable TrustedEntryMatchesFile QuietDropsDeleted
PROPERTIES EveryMessageIsSaved
