\* One document of up to three characters, in chunks of three that share one.
CONSTANTS
  d1 = d1 NoTask = NoTask
  Documents = {d1}
  MaxLength = 3
  ChunkSize = 3
  Overlap = 1
  MaxText = 9
  Tasks <- ChunkTasks
  Copies = 1
  MaxEvents = 1
SPECIFICATION RagFairSpec
INVARIANT TypeOK
INVARIANT DocumentCovered
INVARIANT ChunksTimed
INVARIANT VerdictShown
PROPERTY ChunksSettle
PROPERTY PanelSettles
CHECK_DEADLOCK FALSE
