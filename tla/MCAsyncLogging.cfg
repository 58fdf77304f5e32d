CONSTANTS
  Buffer <- MCBuffer
  NoBuffer = NoBuffer
  BufferSize = 2
  MaxBacklog = 2
  FlushEveryN = 3
  MaxLines = 5
  MaxFailures = 2
SPECIFICATION Spec
INVARIANTS TypeOK BackendAsserts NoSharing
PROPERTIES Pipeline LinesReachDisk StopReturns
CHECK_DEADLOCK FALSE
