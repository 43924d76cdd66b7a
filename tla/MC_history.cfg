CONSTANTS
  None = None
  Blank = Blank
  UserInputs <- MCUserInputs
  Arguments = {"object"}
  Outcomes <- MCOutcomes
  Params <- MCParams
  Requests <- MCRequests
  WireBatch = 2
  WireLength <- MCLengths
  Histories <- MCHistories
  Sizes = {1, 3}
  SummarySizes = {0, 2}
  ContextTokens = 12
  Reserve = 2
  PolicyTokens = 0
  Ratio = 8
  Extra = 1
  Tokenizer = FALSE
  MaxMessages = 8
  MaxBatch = 2
  Inputs <- MCInputs
  Replies <- MCReplies
  Results <- MCResults
  MessageIds <- MCIds
  Base64 <- MCBase64
  MaxBytes = 3
  MaxCounter = 4
  Parent = "p"
  MaxSaved = 6
  Pricing <- MCPricing
  Reports <- MCReports
  Volumes <- MCVolumes
  ToolArguments <- MCToolArguments
  MaxFieldBytes = 5
  MaxInt = 127
  Million = 4
  MaxCalls = 3
  t1 = t1
  t2 = t2
  t3 = t3
  NoTurn = NoTurn
  Users <- MCUsers
  Docs <- MCDocs
  Similarity <- MCSimilarity
  UserOf <- MCUserOf
  RetrievalK = 1
  FactIds = {1, 2}
  Told <- MCTold
  Asking <- MCAsking
  MaxPuts = 3
SPECIFICATION Spec
INVARIANTS
  TypeOK
  WireSaysAll
  CompactionKeepsWhole
  RestartFindsAll
  AccountAddsUp
  TrailIsComplete
PROPERTY MemoryIsCurrent
CHECK_DEADLOCK FALSE
