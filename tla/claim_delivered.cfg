\* One chunk task, followed by a client.
CONSTANTS
  d1 = d1 NoTask = NoTask
  Documents = {d1}
  MaxLength = 1
  ChunkSize = 3
  Overlap = 1
  MaxText = 9
  Tasks <- ChunkTasks
  Copies = 1
  MaxEvents = 2
SPECIFICATION RagFairSpec
PROPERTY CloudResponseReturned
CHECK_DEADLOCK FALSE
