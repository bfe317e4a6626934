CONSTANTS
  Pieces = 2
  MaxDepth = 2
  MaxRetries = 2
  ChunkSize = 2
  MaxContent = 3
  MaxCalls = 2
  Files = {f1, f2}
  MaxLines = 5
  MaxCuts = 1
SPECIFICATION ChatSpec
INVARIANTS
  RequestsBounded
  AnswerShown
  SavedAsAnswered
  ToolCallsAsSent
CHECK_DEADLOCK FALSE
