SPECIFICATION Spec
CONSTANTS
  plain = plain
  idem = idem
  human = human
  refused = refused
  NoCall = NoCall
  Calls <- IdemAndHuman
  Unknown <- Nobody
  Invalid <- Nobody
  Denied <- Nobody
  Confirm <- OnlyHuman
  Idempotent <- OnlyIdem
  NoId <- Nobody
  Durable = TRUE
  ParallelTools = FALSE
  RunIterations = 2
  DefaultIterations = 2
  MaxBatch = 2
  MaxOps = 3
  MaxCrashes = 2
INVARIANTS
  TypeOK
  AtMostOnce
  ApprovedBeforeInvoked
  EffectsAccountedFor
  TruthfulAnswers
  StoreConsistent
  AwaitingIsResolvable
  CheckpointMatchesResult
PROPERTIES
  HistoryOnlyGrows
  KeepsLedger
CHECK_DEADLOCK FALSE
