SPECIFICATION Spec
CONSTANTS
  Pair <- MCPair
  MaxPairs = 1
  StdinLength <- MCStdinLength
  MaxLength = 3
  Align = 2
  Short = 3
  Output <- MCOutput
  Error <- MCError
  Foreign <- MCForeign
  Padding <- MCPadding
  MaxRecords = 2
INVARIANTS RequestFramed StdinArrives AnswerFaithful AnswerHandedOver
PROPERTIES RecvReturns
CHECK_DEADLOCK FALSE
