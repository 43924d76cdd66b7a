SPECIFICATION Spec
CONSTANTS
  plain = plain
  idem = idem
  human = human
  refused = refused
  NoCall = NoCall
  Calls <- PlainIdemHuman
  Unknown <- Nobody
  Invalid <- Nobody
  Denied <- Nobody
  Confirm <- OnlyHuman
  Idempotent <- OnlyIdem
  NoId <- Nobody
  Durable = FALSE
  ParallelTools = FALSE
  RunIterations = 2
  DefaultIterations = 2
  MaxBatch = 2
  MaxOps = 3
  MaxCrashes = 1
INVARIANTS
  AtMostOnce
CHECK_DEADLOCK FALSE
