SPECIFICATION Spec
CONSTANTS
  plain = plain
  idem = idem
  human = human
  refused = refused
  NoCall = NoCall
  Calls <- PlainIdemRefused
  Unknown <- Nobody
  Invalid <- Nobody
  Denied <- OnlyRefused
  Confirm <- Nobody
  Idempotent <- OnlyIdem
  NoId <- Nobody
  Durable = FALSE
  ParallelTools = TRUE
  RunIterations = 2
  DefaultIterations = 2
  MaxBatch = 3
  MaxOps = 2
  MaxCrashes = 1
INVARIANTS
  AnsweredBeforeAsking
  ResultsFollowCallOrder
CHECK_DEADLOCK FALSE
