SPECIFICATION Spec
CONSTANTS
  Word <- MCWord
  Request <- MCRequest
  MaxRequests = 2
  SizeT = 128
  MaxValue = 12
  Missing <- MCMissing
  Unmappable <- MCUnmappable
  Fragmented = TRUE
  Pipelined = TRUE
INVARIANT TypeOK FreshStart AnswersRequests WireInOrder
