SPECIFICATION Spec
CONSTANTS
  Word <- MCWord
  Request <- MCPlainRequest
  MaxRequests = 2
  SizeT = 128
  MaxValue = 12
  Missing <- MCMissing
  Unmappable <- MCUnmappable
  Fragmented = FALSE
  Pipelined = TRUE
INVARIANT PipelineInOrder
