CONSTANTS
  None = None
  m1 = m1
  m2 = m2
  m3 = m3
  c1 = c1
  c2 = c2
  c3 = c3
  t1 = t1
  t2 = t2
  u = u
  v = v
  Callers = {c1, c2, c3}
  Providers = {"p", "q"}
  Limited = {}
  Default = Default
  Period = 2
  Burst = 2
  MaxWait = 5
  MaxTime = 5
  MaxDebt = 6
  AliasOrder <- MCAliasOrder
  Unknown = Unknown
  Targets <- MCTargets
  MediaKinds = {"vision"}
  Asked <- MCAsked
  MaxFallbacks = 2
  Turns = {t1, t2}
  Users = {u, v}
  Texts = {1, 2, 3}
  Media = {"none"}
  Models = {"m"}
  Score <- Near
  Exact = 2
  MinScore = 1
  TTL = 2
  MaxEntries = 2
  CacheTime = 3
  MaxAttempts = 5
  BaseDelay = 5
  MaxDelay = 31
  DefaultDelay = 1
  MaxDuration = 31
  Faults = {"400", "408", "429", "500", "504", "reset", "dial_timeout", "client_timeout", "credential"}
  Fallbacks = 1
  Answers <- MCAnswers
  Usages = {"none", "plain"}
  Repeated = {"repeated"}
  Offsets = {0, 1}
  Empty = "{}"
  StreamAttempts = 2
  StreamFaults = {"429", "400"}
SPECIFICATION Spec
SYMMETRY Symmetry
INVARIANTS
  TypeOK
  LimitRespected
  AllTriedInOrder
  ServedAsStored
  RetriedForCause
  AnswerArrivesWhole
CHECK_DEADLOCK FALSE
